-------------------------- MODULE ExpositionProofs --------------------------
(***************************************************************************)
(* Theorems about the two ends of an exposition.  HistogramLevels: for any *)
(* doubles that add, compare and take powers as DoubleAssumption says, any *)
(* lists and any observations.  OutputFormatter: which collections are     *)
(* refused, what a reader finds in either format, and that the buckets it  *)
(* finds are in order.                                                     *)
(***************************************************************************)
EXTENDS HistogramLevels, OutputFormatter, DataLemmas

Lists == Seq(Doubles) \ {<<>>}

\* What the client passes is what the call returns.
Returned ==
  CASE call.by = "histogram_levels" -> call.list
    [] call.by = "powers_of" ->
         histogram_levels_powers_of(call.base, call.count, call.exponent)
    [] call.by = "linear" ->
         histogram_levels_linear(call.start, call.count, call.increment)

CallsReturnLists ==
  /\ call \in Calls /\ levels = Returned
  /\ levels # Refused => levels \in Lists

\* The members of a histogram whose constructor has run.
Constructed ==
  /\ at \in {"given", "live", "threw"}
  /\ observed \in Seq(Observations)
  /\ at = "given" => observed = <<>>
  /\ at # "given" =>
       /\ levels # Refused /\ levels_ = add_inf(levels)
       /\ at = "threw" <=> Unsorted(levels)
       /\ values_ \in [DOMAIN levels_ -> Int]

\* How many of the values in list are at most d.
CountOf(list, d) == Cardinality({i \in DOMAIN list : LE(list[i], d)})

BucketsCount ==
  at = "live" => \A k \in DOMAIN levels_ : values_[k] = CountOf(observed, levels_[k])

Inv == CallsReturnLists /\ Constructed /\ BucketsCount

-----------------------------------------------------------------------------
(* The builders *)

\* The loop variable starts from `first` and grows by `increment`.
LEMMA RepeatedSteps ==
  ASSUME NEW first \in Doubles, NEW increment \in Doubles
  PROVE  /\ Repeated(first, increment) \in [Nat -> Doubles]
         /\ Repeated(first, increment)[0] = first
         /\ \A k \in Nat \ {0} : Repeated(first, increment)[k]
                                   = Plus(Repeated(first, increment)[k - 1], increment)
<1> DEFINE step == [d \in Doubles |-> Plus(d, increment)]
           r == Repeated(first, increment)
<1>1. step \in [Doubles -> Doubles]
  BY DoubleAssumption
<1>2. PICK f \in [Nat -> Doubles] : IsRecursion(f, first, step)
  BY <1>1, RecursionExists
<1>3. \A k \in Nat : f[k] = IF k = 0 THEN first ELSE Plus(f[k - 1], increment)
  <2>1. \A k \in Nat : f[k] = IF k = 0 THEN first ELSE step[f[k - 1]]
    BY <1>2 DEF IsRecursion
  <2>2. \A k \in Nat \ {0} : f[k - 1] \in Doubles
    BY <1>2
  <2> QED BY <2>1, <2>2
<1>4. f = [k \in Nat |-> IF k = 0 THEN first ELSE Plus(f[k - 1], increment)]
  BY <1>3
<1>5. r = [k \in Nat |-> IF k = 0 THEN first ELSE Plus(r[k - 1], increment)]
  BY <1>4, Zenon DEF Repeated
<1> HIDE DEF r
<1>6. \A k \in Nat : r[k] = IF k = 0 THEN first ELSE Plus(r[k - 1], increment)
  BY <1>5
<1> DEFINE T == {k \in Nat : r[k] \in Doubles}
<1>7. Nat \subseteq T
  <2>1. 0 \in T
    BY <1>6
  <2>2. ASSUME NEW k \in Nat, k \in T PROVE k + 1 \in T
    <3>1. r[k + 1] = Plus(r[k], increment)
      BY <1>6
    <3> QED BY <2>2, <3>1, DoubleAssumption
  <2> HIDE DEF T
  <2> QED BY <2>1, <2>2, NumberInduction
<1>8. r \in [Nat -> Doubles]
  <2>1. r = [k \in Nat |-> r[k]]
    BY <1>5
  <2> QED BY <1>7, <2>1
<1> QED BY <1>6, <1>8 DEF r

\* What histogram_levels_powers_of returns, element by element.
LEMMA PowersReturned ==
  ASSUME NEW base \in Bases, NEW count \in Counts, NEW start \in Exponents
  PROVE  LET list == histogram_levels_powers_of(base, count, start)
         IN  IF count <= 0 \/ LE(base, Zero) THEN list = Refused
             ELSE /\ count \in Nat \ {0}
                  /\ list \in Seq(Doubles) /\ Len(list) = count + 2
                  /\ list[1] = Zero /\ list[2] = Pow(base, start)
                  /\ list[count + 2] = PosInf
                  /\ \A k \in 3..(count + 1) : \E e \in Doubles :
                       list[k - 1] = Pow(base, e) /\ list[k] = Pow(base, Plus(e, One))
<1> DEFINE list == histogram_levels_powers_of(base, count, start)
           exp == Repeated(start, One)
<1>1. /\ count \in Int /\ start \in Doubles
      /\ {Zero, One, PosInf} \subseteq Doubles
  BY HistogramLevelsAssumption
<1>2. /\ exp \in [Nat -> Doubles] /\ exp[0] = start
      /\ \A k \in Nat \ {0} : exp[k] = Plus(exp[k - 1], One)
  BY <1>1, RepeatedSteps
<1>3. CASE count <= 0 \/ LE(base, Zero)
  BY <1>3 DEF histogram_levels_powers_of
<1>4. CASE ~(count <= 0 \/ LE(base, Zero))
  <2>1. count \in Nat \ {0} /\ count + 2 \in Nat
    BY <1>1, <1>4
  <2>2. list = [k \in 1..(count + 2) |->
                  CASE k = 1 -> Zero
                    [] k = count + 2 -> PosInf
                    [] OTHER -> Pow(base, exp[k - 2])]
    BY <1>4, <2>1 DEF histogram_levels_powers_of
  <2> HIDE DEF list, exp
  <2>3. /\ list[1] = Zero /\ list[count + 2] = PosInf
        /\ \A k \in 2..(count + 1) : k - 2 \in Nat /\ list[k] = Pow(base, exp[k - 2])
    BY <2>1, <2>2
  <2>4. list \in Seq(Doubles) /\ Len(list) = count + 2
    <3>1. DOMAIN list = 1..(count + 2) /\ list = [k \in 1..(count + 2) |-> list[k]]
      BY <2>2
    <3>2. \A k \in 1..(count + 2) : list[k] \in Doubles
      <4> SUFFICES ASSUME NEW k \in 2..(count + 1) PROVE list[k] \in Doubles
        BY <1>1, <2>1, <2>3
      <4>1. exp[k - 2] \in Doubles /\ list[k] = Pow(base, exp[k - 2])
        BY <1>2, <2>3
      <4> QED BY <1>4, <4>1, DoubleAssumption
    <3>3. list \in [1..(count + 2) -> Doubles]
      BY <3>1, <3>2
    <3> QED BY <2>1, <3>3
  <2>5. list[2] = Pow(base, start)
    BY <1>2, <2>1, <2>3
  <2>6. ASSUME NEW k \in 3..(count + 1)
        PROVE  \E e \in Doubles :
                 list[k - 1] = Pow(base, e) /\ list[k] = Pow(base, Plus(e, One))
    <3>1. /\ k - 2 \in Nat \ {0} /\ k - 3 \in Nat /\ (k - 2) - 1 = k - 3 /\ (k - 1) - 2 = k - 3
          /\ k \in 2..(count + 1) /\ k - 1 \in 2..(count + 1)
      BY <2>1
    <3>2. /\ exp[k - 2] = Plus(exp[k - 3], One) /\ exp[k - 3] \in Doubles
          /\ list[k - 1] = Pow(base, exp[k - 3]) /\ list[k] = Pow(base, exp[k - 2])
      BY <1>2, <2>3, <3>1
    <3> QED BY <3>2
  <2> QED BY <1>4, <2>1, <2>3, <2>4, <2>5, <2>6 DEF list
<1> QED BY <1>3, <1>4

\* What histogram_levels_linear returns, element by element.
LEMMA LinearReturned ==
  ASSUME NEW start \in Starts, NEW count \in Counts, NEW increment \in Increments
  PROVE  LET list == histogram_levels_linear(start, count, increment)
         IN  IF count <= 0 \/ LE(increment, Zero) THEN list = Refused
             ELSE /\ count \in Nat \ {0}
                  /\ list \in Seq(Doubles) /\ Len(list) = count + 1
                  /\ list[1] = start /\ list[count + 1] = PosInf
                  /\ \A k \in 2..count : list[k] = Plus(list[k - 1], increment)
<1> DEFINE list == histogram_levels_linear(start, count, increment)
           val == Repeated(start, increment)
<1>1. /\ count \in Int /\ start \in Doubles /\ increment \in Doubles /\ PosInf \in Doubles
  BY HistogramLevelsAssumption
<1>2. /\ val \in [Nat -> Doubles] /\ val[0] = start
      /\ \A k \in Nat \ {0} : val[k] = Plus(val[k - 1], increment)
  BY <1>1, RepeatedSteps
<1>3. CASE count <= 0 \/ LE(increment, Zero)
  BY <1>3 DEF histogram_levels_linear
<1>4. CASE ~(count <= 0 \/ LE(increment, Zero))
  <2>1. count \in Nat \ {0} /\ count + 1 \in Nat
    BY <1>1, <1>4
  <2>2. list = [k \in 1..(count + 1) |-> IF k = count + 1 THEN PosInf ELSE val[k - 1]]
    BY <1>4, <2>1 DEF histogram_levels_linear
  <2> HIDE DEF list, val
  <2>3. /\ list[count + 1] = PosInf
        /\ \A k \in 1..count : k - 1 \in Nat /\ list[k] = val[k - 1]
    BY <2>1, <2>2
  <2>4. list \in Seq(Doubles) /\ Len(list) = count + 1
    <3>1. DOMAIN list = 1..(count + 1) /\ list = [k \in 1..(count + 1) |-> list[k]]
      BY <2>2
    <3>2. \A k \in 1..(count + 1) : list[k] \in Doubles
      BY <1>1, <1>2, <2>1, <2>3
    <3>3. list \in [1..(count + 1) -> Doubles]
      BY <3>1, <3>2
    <3> QED BY <2>1, <3>3
  <2>5. list[1] = start
    BY <1>2, <2>1, <2>3
  <2>6. ASSUME NEW k \in 2..count
        PROVE  list[k] = Plus(list[k - 1], increment)
    <3>1. k - 1 \in Nat \ {0} /\ k \in 1..count /\ k - 1 \in 1..count
      BY <2>1
    <3> QED BY <1>2, <2>3, <3>1
  <2> QED BY <1>4, <2>1, <2>3, <2>4, <2>5, <2>6 DEF list
<1> QED BY <1>3, <1>4

\* What a call of one of the three returns.
LEMMA ReturnedByCall ==
  ASSUME call \in Calls
  PROVE  /\ call.by = "histogram_levels" => call.list \in Given /\ Returned = call.list
         /\ call.by = "powers_of" =>
              /\ call.base \in Bases /\ call.count \in Counts /\ call.exponent \in Exponents
              /\ Returned = histogram_levels_powers_of(call.base, call.count, call.exponent)
         /\ call.by = "linear" =>
              /\ call.start \in Starts /\ call.count \in Counts /\ call.increment \in Increments
              /\ Returned = histogram_levels_linear(call.start, call.count, call.increment)
         /\ call.by \in {"histogram_levels", "powers_of", "linear"}
<1>1. /\ call.by = "histogram_levels" => call.list \in Given
      /\ call.by = "powers_of" =>
           call.base \in Bases /\ call.count \in Counts /\ call.exponent \in Exponents
      /\ call.by = "linear" =>
           call.start \in Starts /\ call.count \in Counts /\ call.increment \in Increments
      /\ call.by \in {"histogram_levels", "powers_of", "linear"}
  BY DEF Calls
<1>2. CASE call.by = "histogram_levels"
  BY <1>1, <1>2 DEF Returned
<1>3. CASE call.by = "powers_of"
  BY <1>1, <1>3 DEF Returned
<1>4. CASE call.by = "linear"
  BY <1>1, <1>4 DEF Returned
<1> QED BY <1>1, <1>2, <1>3, <1>4

\* A list is returned, or an exception.
LEMMA ListReturned ==
  ASSUME call \in Calls
  PROVE  Returned # Refused => Returned \in Lists
<1>1. CASE call.by = "histogram_levels"
  BY <1>1, ReturnedByCall, HistogramLevelsAssumption DEF Lists
<1>2. CASE call.by = "powers_of"
  <2> DEFINE r == histogram_levels_powers_of(call.base, call.count, call.exponent)
  <2>1. r # Refused => r \in Seq(Doubles) /\ Len(r) # 0
    <3>1. /\ call.base \in Bases /\ call.count \in Counts /\ call.exponent \in Exponents
          /\ call.count \in Int
      BY <1>2, ReturnedByCall, HistogramLevelsAssumption
    <3> QED BY <3>1, PowersReturned
  <2> HIDE DEF r
  <2>2. r # Refused => r \in Lists
    BY <2>1 DEF Lists
  <2> QED BY <1>2, <2>2, ReturnedByCall DEF r
<1>3. CASE call.by = "linear"
  <2> DEFINE r == histogram_levels_linear(call.start, call.count, call.increment)
  <2>1. r # Refused => r \in Seq(Doubles) /\ Len(r) # 0
    <3>1. /\ call.start \in Starts /\ call.count \in Counts /\ call.increment \in Increments
          /\ call.count \in Int
      BY <1>3, ReturnedByCall, HistogramLevelsAssumption
    <3> QED BY <3>1, LinearReturned
  <2> HIDE DEF r
  <2>2. r # Refused => r \in Lists
    BY <2>1 DEF Lists
  <2> QED BY <1>3, <2>2, ReturnedByCall DEF r
<1> QED BY <1>1, <1>2, <1>3, ReturnedByCall

-----------------------------------------------------------------------------
(* The constructor *)

\* add_inf keeps the list, and the last level is +Inf afterwards.
LEMMA InfAdded ==
  ASSUME NEW list \in Lists
  PROVE  /\ Len(list) \in Nat \ {0} /\ DOMAIN list = 1..Len(list)
         /\ add_inf(list) \in Lists
         /\ Len(add_inf(list)) \in Nat \ {0} /\ DOMAIN add_inf(list) = 1..Len(add_inf(list))
         /\ add_inf(list)[Len(add_inf(list))] = PosInf
         /\ \A k \in 1..Len(list) : add_inf(list)[k] = list[k]
         /\ \/ Len(add_inf(list)) = Len(list)
            \/ Len(add_inf(list)) = Len(list) + 1 /\ list[Len(list)] # PosInf
<1>1. /\ list \in Seq(Doubles) /\ Len(list) \in Nat \ {0} /\ DOMAIN list = 1..Len(list)
      /\ PosInf \in Doubles
  BY HistogramLevelsAssumption, EmptySeq, LenProperties DEF Lists
<1>2. CASE Last(list) = PosInf
  BY <1>1, <1>2 DEF add_inf, Last
<1>3. CASE Last(list) # PosInf
  <2> DEFINE a == Append(list, PosInf)
  <2>1. /\ a \in Seq(Doubles) /\ Len(a) = Len(list) + 1 /\ a[Len(list) + 1] = PosInf
        /\ \A k \in 1..Len(list) : a[k] = list[k]
    BY <1>1, AppendProperties
  <2>2. add_inf(list) = a /\ list[Len(list)] # PosInf
    BY <1>3 DEF add_inf, Last
  <2> HIDE DEF a
  <2>3. Len(a) \in Nat \ {0} /\ DOMAIN a = 1..Len(a) /\ a # <<>>
    BY <1>1, <2>1, LenProperties, EmptySeq
  <2> QED BY <1>1, <2>1, <2>2, <2>3 DEF Lists
<1> QED BY <1>2, <1>3

\* A list without NaN that passes the check increases, with the +Inf at its end.
LEMMA SortedIncrease ==
  ASSUME NEW list \in Lists, ~Unsorted(list), ~HasNaN(list),
         NEW k \in 1..(Len(add_inf(list)) - 1)
  PROVE  LE(add_inf(list)[k], add_inf(list)[k + 1]) /\ add_inf(list)[k] # add_inf(list)[k + 1]
<1>1. /\ Len(list) \in Nat \ {0} /\ DOMAIN list = 1..Len(list)
      /\ \A i \in 1..Len(list) : list[i] \in Doubles \ {NaN}
  BY InfAdded DEF HasNaN, ToSet, Lists
<1>2. \A i \in 1..Len(list) : add_inf(list)[i] = list[i]
  BY InfAdded
<1>3. CASE k + 1 <= Len(list)
  <2>1. k \in 1..Len(list) /\ k + 1 \in 1..Len(list) /\ k + 1 # 1 /\ (k + 1) - 1 = k
    BY <1>1, <1>3
  <2>2. ~LE(list[k + 1], list[k])
    BY <1>1, <2>1 DEF Unsorted
  <2>3. /\ LE(list[k], list[k + 1])
        /\ LE(list[k], list[k])
    BY <1>1, <2>1, <2>2, DoubleAssumption
  <2> QED BY <1>2, <2>1, <2>2, <2>3
<1>4. CASE ~(k + 1 <= Len(list))
  <2>1. /\ k = Len(list) /\ k \in 1..Len(list) /\ k + 1 = Len(add_inf(list))
        /\ list[Len(list)] # PosInf /\ add_inf(list)[k + 1] = PosInf
    <3> DEFINE a == add_inf(list)
    <3>1. /\ Len(a) \in Nat \ {0} /\ a[Len(a)] = PosInf /\ k \in 1..(Len(a) - 1)
          /\ \/ Len(a) = Len(list)
             \/ Len(a) = Len(list) + 1 /\ list[Len(list)] # PosInf
      BY InfAdded
    <3> HIDE DEF a
    <3>2. Len(list) \in Nat /\ Len(a) \in Nat /\ k \in Int /\ k + 1 <= Len(a)
      BY <1>1, <3>1
    <3>3. Len(a) = Len(list) + 1 /\ k = Len(list)
      BY <1>4, <3>1, <3>2
    <3>4. k \in 1..Len(list) /\ k + 1 = Len(a)
      BY <1>1, <3>3
    <3> QED BY <3>1, <3>3, <3>4 DEF a
  <2>2. LE(list[k], PosInf)
    BY <1>1, <2>1, DoubleAssumption
  <2> QED BY <1>2, <2>1, <2>2
<1> QED BY <1>3, <1>4

\* Of the lists of powers the check refuses only those that the header's comment
\* lets it refuse.
LEMMA PowersStall ==
  ASSUME NEW base \in Bases, NEW count \in Counts, NEW start \in Exponents,
         ~(count <= 0 \/ LE(base, Zero)),
         Unsorted(histogram_levels_powers_of(base, count, start))
  PROVE  LE(base, One) \/ Stalls(histogram_levels_powers_of(base, count, start))
<1> DEFINE list == histogram_levels_powers_of(base, count, start)
<1>1. /\ count \in Nat \ {0}
      /\ list \in Seq(Doubles) /\ Len(list) = count + 2
      /\ list[1] = Zero /\ list[2] = Pow(base, start) /\ list[count + 2] = PosInf
      /\ \A k \in 3..(count + 1) : \E e \in Doubles :
           list[k - 1] = Pow(base, e) /\ list[k] = Pow(base, Plus(e, One))
  BY PowersReturned
<1>2. Unsorted(list)
  OBVIOUS
<1> HIDE DEF list
<1>3. start \in Doubles /\ DOMAIN list = 1..(count + 2) /\ \A k \in 1..(count + 2) : list[k] \in Doubles
  BY <1>1, HistogramLevelsAssumption
<1>4. PICK k \in 1..(count + 2) : LE(list[k], IF k = 1 THEN Lowest ELSE list[k - 1])
  BY <1>2, <1>3 DEF Unsorted
<1> SUFFICES ASSUME ~LE(base, One) PROVE Stalls(list)
  BY DEF list
<1>5. CASE k = 1
  BY <1>4, <1>5 DEF Stalls
<1>6. ASSUME k # 1, list[k - 1] = list[k]
      PROVE  Stalls(list)
  <2>1. k - 1 \in 1..(Len(list) - 1) /\ (k - 1) + 1 = k
    BY <1>1, <1>6
  <2> QED BY <1>6, <2>1 DEF Stalls
<1>7. CASE k = 2
  BY <1>1, <1>3, <1>4, <1>6, <1>7, DoubleAssumption
<1>8. CASE k = count + 2
  <2>1. LE(PosInf, list[k - 1]) /\ k # 1 /\ k - 1 \in 1..(count + 2) /\ list[k] = PosInf
    BY <1>1, <1>4, <1>8
  <2>2. list[k - 1] = PosInf
    BY <1>3, <2>1, DoubleAssumption
  <2> QED BY <1>6, <2>1, <2>2
<1>9. CASE k \in 3..(count + 1)
  <2>1. PICK e \in Doubles : list[k - 1] = Pow(base, e) /\ list[k] = Pow(base, Plus(e, One))
    BY <1>1, <1>9
  <2>2. LE(list[k], list[k - 1]) /\ k # 1
    BY <1>4, <1>9
  <2>3. list[k] = list[k - 1]
    BY <2>1, <2>2, DoubleAssumption
  <2> QED BY <1>6, <2>2, <2>3
<1> QED BY <1>1, <1>5, <1>7, <1>8, <1>9

\* So it is with linear lists.
LEMMA LinearStall ==
  ASSUME NEW start \in Starts, NEW count \in Counts, NEW increment \in Increments,
         ~(count <= 0 \/ LE(increment, Zero)),
         Unsorted(histogram_levels_linear(start, count, increment))
  PROVE  Stalls(histogram_levels_linear(start, count, increment))
<1> DEFINE list == histogram_levels_linear(start, count, increment)
<1>1. /\ count \in Nat \ {0}
      /\ list \in Seq(Doubles) /\ Len(list) = count + 1
      /\ list[count + 1] = PosInf
      /\ \A k \in 2..count : list[k] = Plus(list[k - 1], increment)
  BY LinearReturned
<1>2. Unsorted(list)
  OBVIOUS
<1> HIDE DEF list
<1>3. DOMAIN list = 1..(count + 1) /\ \A k \in 1..(count + 1) : list[k] \in Doubles
  BY <1>1
<1>4. PICK k \in 1..(count + 1) : LE(list[k], IF k = 1 THEN Lowest ELSE list[k - 1])
  BY <1>2, <1>3 DEF Unsorted
<1> SUFFICES Stalls(list)
  BY DEF list
<1>5. CASE k = 1
  BY <1>4, <1>5 DEF Stalls
<1>6. CASE k # 1
  <2>1. k - 1 \in 1..(Len(list) - 1) /\ (k - 1) + 1 = k /\ k - 1 \in 1..(count + 1)
    BY <1>1, <1>6
  <2>2. LE(list[k], list[k - 1])
    BY <1>4, <1>6
  <2>3. list[k - 1] = list[k]
    <3>1. CASE k = count + 1
      BY <1>1, <1>3, <2>1, <2>2, <3>1, DoubleAssumption
    <3>2. CASE k # count + 1
      <4>1. list[k] = Plus(list[k - 1], increment)
        BY <1>1, <1>6, <3>2
      <4> QED BY <1>3, <2>1, <2>2, <4>1, DoubleAssumption
    <3> QED BY <3>1, <3>2
  <2> QED BY <2>1, <2>3 DEF Stalls
<1> QED BY <1>5, <1>6

-----------------------------------------------------------------------------
(* Observations *)

\* One more value in a list is one more where it counts.
LEMMA CountAppended ==
  ASSUME NEW list \in Seq(Observations), NEW v \in Observations, NEW d
  PROVE  /\ CountOf(list, d) \in Nat
         /\ CountOf(Append(list, v), d) = CountOf(list, d) + IF LE(v, d) THEN 1 ELSE 0
<1> DEFINE a == Append(list, v)
           m == Len(list) + 1
           P == {i \in DOMAIN list : LE(list[i], d)}
           Q == {i \in DOMAIN a : LE(a[i], d)}
<1>1. /\ Len(list) \in Nat /\ DOMAIN list = 1..Len(list) /\ DOMAIN a = 1..m
      /\ a[m] = v /\ \A i \in 1..Len(list) : a[i] = list[i]
  BY AppendProperties, LenProperties
<1>2. m \notin P /\ IsFiniteSet(P) /\ Cardinality(P) \in Nat
  <2>1. P \subseteq 1..Len(list) /\ IsFiniteSet(1..Len(list))
    BY <1>1, FS_Interval
  <2> QED BY <1>1, <2>1, FS_Subset, FS_CardinalityType
<1>3. Q = IF LE(v, d) THEN P \union {m} ELSE P
  <2> HIDE DEF a
  <2> QED BY <1>1
<1> HIDE DEF P, Q, m, a
<1>4. Cardinality(Q) = Cardinality(P) + IF LE(v, d) THEN 1 ELSE 0
  <2>1. Cardinality(P \union {m}) = Cardinality(P) + 1
    BY <1>2, FS_AddElement
  <2> QED BY <1>2, <1>3, <2>1
<1> QED BY <1>2, <1>4 DEF CountOf, P, Q, a

\* Nothing observed, nothing counted.
LEMMA CountOfNone ==
  ASSUME NEW d
  PROVE  CountOf(<<>>, d) = 0
<1>1. {i \in DOMAIN <<>> : LE(<<>>[i], d)} = {}
  OBVIOUS
<1> QED BY <1>1, FS_EmptySet DEF CountOf

-----------------------------------------------------------------------------
(* The inductive invariant *)

\* The client has built no histogram yet.
LEMMA InvInit ==
  Init => Inv
<1> SUFFICES ASSUME Init PROVE Inv
  OBVIOUS
<1>1. call \in Calls /\ levels = Returned
  BY DEF Init, Returned
<1>2. CallsReturnLists
  BY <1>1, ListReturned DEF CallsReturnLists
<1>3. Constructed /\ BucketsCount
  BY DEF Init, Constructed, BucketsCount
<1> QED BY <1>2, <1>3 DEF Inv

\* A constructor copies a list that a call returned, and counts nothing.
LEMMA InvConstruct ==
  Inv /\ Construct => Inv'
<1> SUFFICES ASSUME Inv, Construct PROVE Inv'
  OBVIOUS
<1>1. /\ UNCHANGED <<call, levels, observed>> /\ levels # Refused /\ at = "given"
      /\ levels_' = add_inf(levels) /\ values_' = [k \in DOMAIN levels_' |-> 0]
      /\ at' = IF Unsorted(levels) THEN "threw" ELSE "live"
  BY DEF Construct
<1>2. CallsReturnLists'
  BY <1>1 DEF Inv, CallsReturnLists, Returned
<1>3. observed \in Seq(Observations) /\ observed = <<>>
  BY <1>1 DEF Inv, Constructed
<1>4. Constructed'
  BY <1>1, <1>3 DEF Constructed
<1>5. BucketsCount'
  BY <1>1, <1>3, CountOfNone DEF BucketsCount
<1> QED BY <1>2, <1>4, <1>5 DEF Inv

\* An observation enters the buckets at and above its value.
LEMMA InvObserve ==
  ASSUME Inv, NEW v \in Observations, observe(v)
  PROVE  Inv'
<1>1. /\ UNCHANGED <<call, levels, at, levels_>> /\ at = "live"
      /\ values_' = [k \in DOMAIN values_ |-> values_[k] + IF LE(v, levels_[k]) THEN 1 ELSE 0]
      /\ observed' = Append(observed, v)
  BY DEF observe
<1>2. CallsReturnLists'
  BY <1>1 DEF Inv, CallsReturnLists, Returned
<1>3. /\ values_ \in [DOMAIN levels_ -> Int] /\ observed \in Seq(Observations)
      /\ at = "threw" <=> Unsorted(levels)
      /\ levels # Refused /\ levels_ = add_inf(levels)
  BY <1>1 DEF Inv, Constructed
<1>4. Constructed'
  <2>1. values_' \in [DOMAIN levels_ -> Int]
    BY <1>1, <1>3
  <2>2. observed' \in Seq(Observations)
    BY <1>1, <1>3, AppendProperties
  <2> QED BY <1>1, <1>3, <2>1, <2>2 DEF Constructed
<1>5. BucketsCount'
  <2> SUFFICES ASSUME NEW k \in DOMAIN levels_
               PROVE  values_'[k] = CountOf(Append(observed, v), levels_[k])
    BY <1>1 DEF BucketsCount, CountOf
  <2>1. values_[k] = CountOf(observed, levels_[k])
    BY <1>1 DEF Inv, BucketsCount
  <2>2. values_'[k] = values_[k] + IF LE(v, levels_[k]) THEN 1 ELSE 0
    BY <1>1, <1>3
  <2> QED BY <1>3, <2>1, <2>2, CountAppended
<1> QED BY <1>2, <1>4, <1>5 DEF Inv

\* The invariant holds throughout.
LEMMA InvHolds ==
  Spec => []Inv
<1>1. Inv /\ [Next]_vars => Inv'
  <2>1. Inv /\ UNCHANGED vars => Inv'
    BY DEF vars, Inv, CallsReturnLists, Returned, Constructed, BucketsCount, CountOf
  <2> QED BY <2>1, InvConstruct, InvObserve DEF Next
<1> QED BY <1>1, InvInit, PTL DEF Spec

-----------------------------------------------------------------------------
(* Theorems *)

\* Whatever a client passes, the levels of a histogram that could be built
\* increase up to +Inf, unless there is a NaN among them.
THEOREM LevelsIncrease ==
  Spec => []AcceptedLevelsIncrease
<1>1. Inv => AcceptedLevelsIncrease
  <2> SUFFICES ASSUME Inv, at = "live", ~HasNaN(levels)
               PROVE  /\ Last(levels_) = PosInf
                      /\ \A k \in 1..(Len(levels_) - 1) :
                           LE(levels_[k], levels_[k + 1]) /\ levels_[k] # levels_[k + 1]
    BY DEF AcceptedLevelsIncrease
  <2>1. levels \in Lists /\ levels_ = add_inf(levels) /\ ~Unsorted(levels)
    BY DEF Inv, CallsReturnLists, Constructed
  <2> QED BY <2>1, InfAdded, SortedIncrease DEF Last
<1> QED BY <1>1, InvHolds, PTL

\* The builders return the lists that values.hh documents, or throw where it
\* says, and a histogram refuses only those that stall.
THEOREM BuildersAreDocumented ==
  Spec => []BuiltAsDocumented
<1>1. Inv => BuiltAsDocumented
  <2> SUFFICES ASSUME Inv PROVE BuiltAsDocumented
    OBVIOUS
  <2>1. /\ call \in Calls /\ levels = Returned /\ (at = "threw" => Unsorted(levels))
        /\ call.by = "powers_of" \/ call.by = "linear" => call.count \in Int
    BY ReturnedByCall, HistogramLevelsAssumption DEF Inv, CallsReturnLists, Constructed
  <2>2. ASSUME call.by = "powers_of"
        PROVE  IF call.count <= 0 \/ LE(call.base, Zero) THEN levels = Refused
               ELSE /\ Len(levels) = call.count + 2
                    /\ levels[1] = Zero /\ levels[2] = Pow(call.base, call.exponent)
                    /\ Last(levels) = PosInf
                    /\ at = "threw" => LE(call.base, One) \/ Stalls(levels)
    <3>1. /\ call.base \in Bases /\ call.count \in Counts /\ call.exponent \in Exponents
          /\ levels = histogram_levels_powers_of(call.base, call.count, call.exponent)
      BY <2>1, <2>2, ReturnedByCall
    <3> QED BY <2>1, <3>1, PowersReturned, PowersStall DEF Last
  <2>3. ASSUME call.by = "linear"
        PROVE  IF call.count <= 0 \/ LE(call.increment, Zero) THEN levels = Refused
               ELSE /\ Len(levels) = call.count + 1
                    /\ levels[1] = call.start
                    /\ Last(levels) = PosInf
                    /\ at = "threw" => Stalls(levels)
    <3>1. /\ call.start \in Starts /\ call.count \in Counts /\ call.increment \in Increments
          /\ levels = histogram_levels_linear(call.start, call.count, call.increment)
      BY <2>1, <2>3, ReturnedByCall
    <3> QED BY <2>1, <3>1, LinearReturned, LinearStall DEF Last
  <2> QED BY <2>2, <2>3 DEF BuiltAsDocumented
<1> QED BY <1>1, InvHolds, PTL

\* Without a NaN among the observations value(d) answers with the number of
\* those up to the first level that reaches d, for every d but NaN, and
\* value(+Inf) with the number of all.
THEOREM ValuesAreCounts ==
  Spec => []ValueCountsObservations
<1>1. ASSUME Inv, at = "live", NEW d \in Doubles \ {NaN}
      PROVE  \E k \in DOMAIN levels_ :
               /\ LE(d, levels_[k])
               /\ \A j \in 1..(k - 1) : ~LE(d, levels_[j])
               /\ value(d) = CountOf(observed, levels_[k])
  <2> DEFINE wide == {k \in DOMAIN levels_ : LE(d, levels_[k])}
             first == CHOOSE k \in wide : \A j \in wide : k <= j
  <2>1. levels \in Lists /\ levels_ = add_inf(levels)
    BY <1>1 DEF Inv, CallsReturnLists, Constructed
  <2>2. /\ Len(levels_) \in Nat \ {0} /\ DOMAIN levels_ = 1..Len(levels_)
        /\ levels_[Len(levels_)] = PosInf
    BY <2>1, InfAdded
  <2>3. Len(levels_) \in wide /\ wide \subseteq Nat
    BY <1>1, <2>2, DoubleAssumption
  <2>4. first \in wide /\ \A j \in wide : first <= j
    <3>1. \E k \in wide : \A j \in wide : k <= j
      <4> HIDE DEF wide
      <4> QED BY <2>3, LeastNumber
    <3> QED BY <3>1
  <2>5. value(d) = values_[first]
    BY <2>3 DEF value
  <2>6. \A j \in 1..(first - 1) : ~LE(d, levels_[j])
    <3>1. \A j \in 1..(first - 1) : j \in DOMAIN levels_ /\ ~(first <= j)
      BY <2>2, <2>4
    <3> QED BY <2>4, <3>1
  <2> HIDE DEF first
  <2>7. values_[first] = CountOf(observed, levels_[first])
    BY <1>1, <2>4 DEF Inv, BucketsCount
  <2> QED BY <2>4, <2>5, <2>6, <2>7
<1>2. ASSUME Inv, at = "live", ~HasNaN(observed)
      PROVE  value(PosInf) = Len(observed)
  <2> DEFINE wide == {k \in DOMAIN levels_ : LE(PosInf, levels_[k])}
             first == CHOOSE k \in wide : \A j \in wide : k <= j
  <2>1. /\ levels \in Lists /\ levels_ = add_inf(levels)
        /\ values_ \in [DOMAIN levels_ -> Int] /\ observed \in Seq(Observations)
    BY <1>2 DEF Inv, CallsReturnLists, Constructed
  <2>2. /\ Len(levels_) \in Nat \ {0} /\ DOMAIN levels_ = 1..Len(levels_)
        /\ levels_[Len(levels_)] = PosInf
    BY <2>1, InfAdded
  <2>3. \A k \in DOMAIN levels_ : levels_[k] \in Doubles
    <3>1. levels_ \in Seq(Doubles)
      BY <2>1, InfAdded DEF Lists
    <3> QED BY <3>1
  <2>4. \A k \in wide : levels_[k] = PosInf /\ k \in DOMAIN levels_
    BY <2>3, DoubleAssumption
  <2>5. \A k \in DOMAIN levels_ :
          levels_[k] = PosInf => values_[k] = CountOf(observed, PosInf)
    BY <1>2 DEF Inv, BucketsCount
  <2>6. Len(values_) = Len(levels_)
    BY <2>1, <2>2
  <2>7. value(PosInf) = CountOf(observed, PosInf)
    <3>1. CASE wide = {}
      <4>1. value(PosInf) = values_[Len(values_)]
        BY <3>1 DEF value
      <4> QED BY <2>2, <2>5, <2>6, <4>1
    <3>2. CASE wide # {}
      <4>1. value(PosInf) = values_[first]
        BY <3>2 DEF value
      <4>2. first \in wide
        <5>1. wide \subseteq Nat
          BY <2>2
        <5>2. \E k \in wide : \A j \in wide : k <= j
          <6> HIDE DEF wide
          <6> QED BY <3>2, <5>1, LeastNumber
        <5> HIDE DEF wide
        <5> QED BY <5>2
      <4> HIDE DEF first
      <4> QED BY <2>4, <2>5, <4>1, <4>2
    <3> QED BY <3>1, <3>2
  <2>8. {i \in DOMAIN observed : LE(observed[i], PosInf)} = 1..Len(observed)
    <3>1. DOMAIN observed = 1..Len(observed)
      BY <2>1
    <3>2. ASSUME NEW i \in 1..Len(observed)
          PROVE  LE(observed[i], PosInf)
      <4>1. observed[i] \in Doubles
        BY <2>1, HistogramLevelsAssumption
      <4>2. observed[i] # NaN
        BY <1>2, <2>1 DEF HasNaN, ToSet
      <4> QED BY <4>1, <4>2, DoubleAssumption
    <3> QED BY <3>1, <3>2
  <2>9. Len(observed) \in Nat /\ Cardinality(1..Len(observed)) = Len(observed)
    <3>1. Len(observed) \in Nat
      BY <2>1
    <3>2. Cardinality(1..Len(observed)) = IF 1 > Len(observed) THEN 0 ELSE Len(observed) - 1 + 1
      BY <3>1, FS_Interval
    <3> QED BY <3>1, <3>2
  <2> QED BY <2>7, <2>8, <2>9 DEF CountOf
<1>3. Inv => ValueCountsObservations
  BY <1>1, <1>2 DEF ValueCountsObservations, CountOf
<1> QED BY <1>3, InvHolds, PTL

-----------------------------------------------------------------------------
(* The exceptions of the formatter. *)

\* A metric x that the text format refuses in the family f.
Refuses(f, x) ==
  \/ f.type = "SUMMARY"
  \/ /\ f.type = "HISTOGRAM"
     /\ \/ ~HasBuckets(x)
        \/ \E k \in DOMAIN x.value : ~BucketComplete(x.value[k])
  \/ f.type \notin {"SUMMARY", "HISTOGRAM"} /\ ~HasScalar(x, f.type)

\* The iterators of the loops; what each has passed was complete.
Passed ==
  /\ fam \in Nat \ {0} /\ met \in Nat \ {0} /\ bkt \in Nat \ {0}
  /\ \A i \in DOMAIN collection : i < fam => ~Malformed(collection[i])
  /\ stage \in {"metric", "bucket"} =>
       /\ fam <= Len(collection) /\ HeaderComplete(collection[fam])
       /\ \A j \in DOMAIN collection[fam].metric :
            j < met => ~Refuses(collection[fam], collection[fam].metric[j])
  /\ stage = "bucket" =>
       LET f == collection[fam] IN
       /\ met <= Len(f.metric) /\ f.type = "HISTOGRAM"
       /\ HasBuckets(f.metric[met])
       /\ \A k \in DOMAIN f.metric[met].value :
            k < bkt => BucketComplete(f.metric[met].value[k])

FormatterInv ==
  /\ IsCollection(collection)
  /\ format \in {"fmt_text", "fmt_proto"}
  /\ stage \in {"family", "metric", "bucket", "returned", "threw"}
  /\ format = "fmt_proto" => stage \in {"family", "returned"}
  /\ format = "fmt_text" => (stage \in {"family", "metric", "bucket"} => Passed)
  /\ ThrowsIffMalformed

-----------------------------------------------------------------------------

\* A family is malformed exactly if its header is incomplete or a metric of it
\* is refused.
LEMMA MalformedParts ==
  ASSUME NEW f
  PROVE  Malformed(f) <=>
           \/ ~HeaderComplete(f)
           \/ \E j \in DOMAIN f.metric : Refuses(f, f.metric[j])
<1>1. ASSUME NEW x
      PROVE  Refuses(f, x) <=>
               CASE f.type = "SUMMARY" -> TRUE
                 [] f.type = "HISTOGRAM" ->
                      ~HasBuckets(x) \/ \E k \in DOMAIN x.value :
                        Unset \in {x.value[k].upper_bound, x.value[k].cumulative_count}
                 [] OTHER -> ~HasScalar(x, f.type)
  <2>1. CASE f.type = "SUMMARY"
    BY <2>1 DEF Refuses
  <2>2. CASE f.type = "HISTOGRAM"
    BY <2>2 DEF Refuses, BucketComplete
  <2>3. CASE f.type \notin {"SUMMARY", "HISTOGRAM"}
    BY <2>3 DEF Refuses
  <2> QED BY <2>1, <2>2, <2>3
<1> QED BY <1>1 DEF Malformed, HeaderComplete

\* The domains of the three loops.
LEMMA Loops ==
  ASSUME IsCollection(collection)
  PROVE  /\ Len(collection) \in Nat /\ DOMAIN collection = 1..Len(collection)
         /\ \A i \in DOMAIN collection :
              /\ collection[i].type \in Types \union {Unset}
              /\ Len(collection[i].metric) \in Nat
              /\ DOMAIN collection[i].metric = 1..Len(collection[i].metric)
              /\ \A j \in DOMAIN collection[i].metric :
                   LET x == collection[i].metric[j] IN
                   x.type = "HISTOGRAM" => /\ Len(x.value) \in Nat
                                           /\ DOMAIN x.value = 1..Len(x.value)
<1>1. ASSUME NEW s, IsSequence(s)
      PROVE  Len(s) \in Nat /\ DOMAIN s = 1..Len(s)
  BY <1>1, LenProperties DEF IsSequence
<1>2. /\ IsSequence(collection)
      /\ \A i \in DOMAIN collection :
           /\ collection[i].type \in Types \union {Unset}
           /\ IsSequence(collection[i].metric)
           /\ \A j \in DOMAIN collection[i].metric :
                collection[i].metric[j].type = "HISTOGRAM" =>
                  IsSequence(collection[i].metric[j].value)
  BY DEF IsCollection
<1> QED BY <1>1, <1>2

\* Nothing has been passed before the first family.
LEMMA FormatterInitInv ==
  RenderInit => FormatterInv
<1> SUFFICES ASSUME RenderInit PROVE FormatterInv
  OBVIOUS
<1>1. /\ collection \in Collections /\ format \in {"fmt_text", "fmt_proto"}
      /\ fam = 1 /\ met = 1 /\ bkt = 1 /\ stage = "family" /\ result = Nothing
  BY DEF RenderInit
<1>2. IsCollection(collection)
  BY <1>1, OutputFormatterAssumption
<1>3. Passed
  BY <1>1, <1>2, Loops DEF Passed
<1> QED BY <1>1, <1>2, <1>3 DEF FormatterInv, ThrowsIffMalformed

\* The families, metrics and buckets that a step of the text format reaches.
LEMMA InPlace ==
  ASSUME FormatterInv, format = "fmt_text", stage \in {"metric", "bucket"}
  PROVE  /\ Passed /\ fam \in DOMAIN collection
         /\ family = collection[fam]
         /\ metric = collection[fam].metric[met]
         /\ Len(family.metric) \in Nat
         /\ DOMAIN family.metric = 1..Len(family.metric)
         /\ HeaderComplete(family)
         /\ family.type \in Types
<1>1. Passed /\ IsCollection(collection)
  BY DEF FormatterInv
<1>2. fam \in DOMAIN collection /\ HeaderComplete(collection[fam])
  BY <1>1, Loops DEF Passed
<1>3. /\ family = collection[fam]
      /\ metric = collection[fam].metric[met]
  BY DEF family, metric
<1> QED BY <1>1, <1>2, <1>3, Loops DEF HeaderComplete

\* A step that throws has found a malformed family.
LEMMA ThrowInv ==
  ASSUME FormatterInv, format = "fmt_text", Throw,
         UNCHANGED <<collection, format, to_string, reserved>>,
         stage \in {"family", "metric", "bucket"},
         NEW i \in DOMAIN collection, Malformed(collection[i])
  PROVE  FormatterInv'
<1>1. stage' = "threw" /\ UNCHANGED <<fam, met, bkt, os, result>>
  BY DEF Throw
<1>2. IsCollection(collection)'
  BY DEF FormatterInv, IsCollection, IsSequence, Types
<1>3. result = Nothing
  BY DEF FormatterInv, ThrowsIffMalformed
<1>4. ThrowsIffMalformed'
  BY <1>1, <1>3 DEF ThrowsIffMalformed, Malformed, HasBuckets,
     HasScalar
<1> QED BY <1>1, <1>2, <1>4 DEF FormatterInv

\* A step that goes on, in the text format, after what it has passed.
LEMMA GoesOn ==
  ASSUME FormatterInv, format = "fmt_text",
         stage \in {"family", "metric", "bucket"},
         stage' \in {"family", "metric", "bucket"}, Passed',
         UNCHANGED <<collection, format, to_string, reserved, result>>
  PROVE  FormatterInv'
<1>1. IsCollection(collection)'
  BY DEF FormatterInv, IsCollection, IsSequence, Types
<1>2. result = Nothing
  BY DEF FormatterInv, ThrowsIffMalformed
<1>3. ThrowsIffMalformed'
  BY <1>2 DEF ThrowsIffMalformed
<1> QED BY <1>1, <1>3 DEF FormatterInv

\* An incomplete header is refused, and only that.
LEMMA WriteHeaderInv ==
  ASSUME FormatterInv, WriteHeader,
         UNCHANGED <<collection, format, to_string, reserved>>
  PROVE  FormatterInv'
<1>1. /\ stage = "family" /\ format = "fmt_text" /\ fam <= Len(collection)
      /\ Passed /\ IsCollection(collection)
  BY DEF FormatterInv, WriteHeader
<1>2. fam \in DOMAIN collection /\ family = collection[fam]
  BY <1>1, Loops DEF Passed, family
<1>3. CASE HeaderComplete(collection[fam])
  <2>1. /\ stage' = "metric" /\ met' = 1 /\ UNCHANGED <<fam, bkt, result, collection>>
    BY <1>2, <1>3 DEF WriteHeader
  <2>2. Passed'
    BY <1>1, <1>2, <1>3, <2>1, Loops DEF Passed, HeaderComplete
  <2> QED BY <1>1, <2>1, <2>2, GoesOn
<1>4. CASE ~HeaderComplete(collection[fam])
  <2>1. Throw
    BY <1>2, <1>4 DEF WriteHeader
  <2>2. Malformed(collection[fam])
    BY <1>4, MalformedParts
  <2> QED BY <1>1, <1>2, <2>1, <2>2, ThrowInv
<1> QED BY <1>3, <1>4

\* A metric that is refused makes its family malformed.
LEMMA RefusedInv ==
  ASSUME FormatterInv, format = "fmt_text", stage \in {"metric", "bucket"},
         met <= Len(family.metric),
         Refuses(family, metric), Throw,
         UNCHANGED <<collection, format, to_string, reserved>>
  PROVE  FormatterInv'
<1>1. fam \in DOMAIN collection /\ met \in DOMAIN collection[fam].metric
  BY InPlace DEF Passed
<1>2. Malformed(collection[fam])
  BY <1>1, InPlace, MalformedParts
<1> QED BY <1>1, <1>2, ThrowInv

\* A metric that is not refused is passed.
LEMMA NextMetricInv ==
  ASSUME FormatterInv, format = "fmt_text", stage \in {"metric", "bucket"},
         met <= Len(family.metric),
         ~Refuses(family, metric),
         stage' = "metric", met' = met + 1,
         UNCHANGED <<collection, format, to_string, reserved, fam, bkt, result>>
  PROVE  FormatterInv'
<1>1. /\ Passed /\ fam \in DOMAIN collection
      /\ family = collection[fam]
      /\ metric = collection[fam].metric[met]
      /\ DOMAIN collection[fam].metric = 1..Len(collection[fam].metric)
      /\ Len(collection[fam].metric) \in Nat
  BY InPlace
<1>2. \A j \in DOMAIN collection[fam].metric :
        j < met + 1 => ~Refuses(collection[fam], collection[fam].metric[j])
  <2>1. \A j \in DOMAIN collection[fam].metric : j < met + 1 => j < met \/ j = met
    BY <1>1 DEF Passed
  <2> QED BY <1>1, <2>1 DEF Passed
<1>3. Passed'
  BY <1>1, <1>2 DEF Passed
<1> QED BY <1>3, GoesOn

\* A scalar or a histogram is entered or refused, a summary always refused.
LEMMA WriteMetricInv ==
  ASSUME FormatterInv,
         WriteScalar \/ WriteSummary \/ WriteHistogram,
         format = "fmt_text",
         UNCHANGED <<collection, format, to_string, reserved>>
  PROVE  FormatterInv'
<1> DEFINE f == family
           x == metric
<1>1. stage = "metric" /\ met <= Len(f.metric)
  BY DEF WriteScalar, WriteSummary, WriteHistogram
<1>2. ASSUME Throw, Refuses(f, x)
      PROVE  FormatterInv'
  BY <1>1, <1>2, RefusedInv
<1>3. CASE WriteScalar
  <2>1. f.type \in {"COUNTER", "GAUGE", "UNTYPED"}
    BY <1>3 DEF WriteScalar
  <2>2. CASE HasScalar(x, f.type)
    <3>1. met' = met + 1 /\ UNCHANGED <<fam, bkt, stage, result>>
      BY <1>3, <2>2 DEF WriteScalar
    <3>2. ~Refuses(f, x)
      BY <2>1, <2>2 DEF Refuses
    <3> QED BY <1>1, <3>1, <3>2, NextMetricInv
  <2>3. CASE ~HasScalar(x, f.type)
    <3>1. Throw
      BY <1>3, <2>3 DEF WriteScalar
    <3>2. Refuses(f, x)
      BY <2>1, <2>3 DEF Refuses
    <3> QED BY <1>2, <3>1, <3>2
  <2> QED BY <2>2, <2>3
<1>4. CASE WriteSummary
  BY <1>2, <1>4 DEF WriteSummary, Refuses
<1>5. CASE WriteHistogram
  <2>1. f.type = "HISTOGRAM"
    BY <1>5 DEF WriteHistogram
  <2>2. CASE HasBuckets(x)
    <3>1. stage' = "bucket" /\ bkt' = 1 /\ UNCHANGED <<fam, met, os, result, collection>>
      BY <1>5, <2>2 DEF WriteHistogram
    <3>2. /\ Passed /\ f = collection[fam] /\ x = collection[fam].metric[met]
          /\ fam \in DOMAIN collection /\ met \in DOMAIN collection[fam].metric
      BY <1>1, InPlace DEF Passed
    <3>3. \A k \in DOMAIN x.value : ~(k < 1)
      <4>1. DOMAIN collection[fam].metric[met].value
              = 1..Len(collection[fam].metric[met].value)
            /\ Len(collection[fam].metric[met].value) \in Nat
        BY <2>2, <3>2, Loops DEF FormatterInv, HasBuckets
      <4> QED BY <3>2, <4>1
    <3> HIDE DEF f, x
    <3>4. Passed'
      BY <1>1, <2>1, <2>2, <3>1, <3>2, <3>3 DEF Passed, HasBuckets,
         HeaderComplete, BucketComplete
    <3> QED BY <1>1, <3>1, <3>4, GoesOn
  <2>3. CASE ~HasBuckets(x)
    <3>1. Throw
      BY <1>5, <2>3 DEF WriteHistogram
    <3>2. Refuses(f, x)
      BY <2>1, <2>3 DEF Refuses
    <3> QED BY <1>2, <3>1, <3>2
  <2> QED BY <2>2, <2>3
<1> QED BY <1>3, <1>4, <1>5

\* A bucket is written or refused, and a histogram passed after its last one.
LEMMA BucketsInv ==
  ASSUME FormatterInv, WriteBucket \/ NextMetric,
         format = "fmt_text",
         UNCHANGED <<collection, format, to_string, reserved>>
  PROVE  FormatterInv'
<1> DEFINE f == family
           x == metric
<1>1. stage = "bucket"
  BY DEF WriteBucket, NextMetric
<1>2. /\ Passed /\ f = collection[fam] /\ x = collection[fam].metric[met]
      /\ fam \in DOMAIN collection /\ met <= Len(f.metric)
      /\ met \in DOMAIN collection[fam].metric
      /\ f.type = "HISTOGRAM" /\ HasBuckets(x)
      /\ \A k \in DOMAIN x.value : k < bkt => BucketComplete(x.value[k])
  BY <1>1, InPlace DEF Passed
<1>3. /\ DOMAIN collection[fam].metric[met].value
           = 1..Len(collection[fam].metric[met].value)
      /\ Len(collection[fam].metric[met].value) \in Nat
  BY <1>2, Loops DEF FormatterInv, HasBuckets
<1>4. DOMAIN x.value = 1..Len(x.value) /\ Len(x.value) \in Nat /\ bkt \in Nat \ {0}
  BY <1>2, <1>3 DEF Passed
<1>5. CASE WriteBucket
  <2>1. bkt \in DOMAIN x.value
    BY <1>4, <1>5 DEF WriteBucket
  <2>2. CASE BucketComplete(x.value[bkt])
    <3>1. bkt' = bkt + 1 /\ UNCHANGED <<fam, met, stage, result, collection>>
      BY <1>5, <2>2 DEF WriteBucket
    <3>2. \A k \in DOMAIN x.value : k < bkt + 1 => BucketComplete(x.value[k])
      <4>1. \A k \in DOMAIN x.value : k < bkt + 1 => k < bkt \/ k = bkt
        BY <1>4
      <4> QED BY <1>2, <2>2, <4>1
    <3> HIDE DEF f, x
    <3>3. Passed'
      BY <1>1, <1>2, <1>4, <3>1, <3>2 DEF Passed
    <3> QED BY <1>1, <3>1, <3>3, GoesOn
  <2>3. CASE ~BucketComplete(x.value[bkt])
    <3>1. Throw
      BY <1>5, <2>3 DEF WriteBucket
    <3>2. Refuses(f, x)
      BY <1>2, <2>1, <2>3 DEF Refuses
    <3> QED BY <1>1, <1>2, <3>1, <3>2, RefusedInv
  <2> QED BY <2>2, <2>3
<1>6. CASE NextMetric
  <2>1. /\ bkt > Len(x.value) /\ stage' = "metric" /\ met' = met + 1
        /\ UNCHANGED <<fam, bkt, result>>
    BY <1>6 DEF NextMetric
  <2>2. \A k \in DOMAIN x.value : BucketComplete(x.value[k])
    BY <1>2, <1>4, <2>1
  <2>3. ~Refuses(f, x)
    BY <1>2, <2>2 DEF Refuses
  <2> QED BY <1>1, <1>2, <2>1, <2>3, NextMetricInv
<1> QED BY <1>5, <1>6

\* A family is passed after its last metric.
LEMMA NextFamilyInv ==
  ASSUME FormatterInv, NextFamily, format = "fmt_text",
         UNCHANGED <<collection, format, to_string, reserved>>
  PROVE  FormatterInv'
<1>1. /\ stage = "metric" /\ stage' = "family" /\ met > Len(family.metric)
      /\ fam' = fam + 1 /\ UNCHANGED <<met, bkt, result>>
  BY DEF NextFamily
<1>2. /\ Passed /\ fam \in DOMAIN collection /\ family = collection[fam]
      /\ HeaderComplete(collection[fam])
      /\ DOMAIN collection[fam].metric = 1..Len(collection[fam].metric)
      /\ Len(collection[fam].metric) \in Nat
  BY <1>1, InPlace
<1>3. \A j \in DOMAIN collection[fam].metric :
        ~Refuses(collection[fam], collection[fam].metric[j])
  BY <1>1, <1>2 DEF Passed
<1>4. ~Malformed(collection[fam])
  BY <1>2, <1>3, MalformedParts
<1>5. \A i \in DOMAIN collection : i < fam + 1 => ~Malformed(collection[i])
  <2>1. \A i \in DOMAIN collection : i < fam + 1 => i < fam \/ i = fam
    BY <1>2, Loops DEF FormatterInv, Passed
  <2> QED BY <1>2, <1>4, <2>1 DEF Passed
<1>6. Passed'
  BY <1>1, <1>2, <1>5 DEF Passed
<1> QED BY <1>1, <1>6, GoesOn

\* The end of the text format, and the messages and the end of the other.
LEMMA EndsInv ==
  ASSUME FormatterInv, WriteFrame \/ Return,
         UNCHANGED <<collection, format, to_string, reserved>>
  PROVE  FormatterInv'
<1>1. IsCollection(collection)'
  BY DEF FormatterInv, IsCollection, IsSequence, Types
<1>2. result = Nothing \/ stage = "returned"
  BY DEF FormatterInv, ThrowsIffMalformed
<1>3. CASE WriteFrame
  <2>1. stage = "family" /\ format = "fmt_proto" /\ UNCHANGED <<stage, result>>
    BY <1>3 DEF WriteFrame
  <2>2. ThrowsIffMalformed'
    BY <1>2, <2>1 DEF ThrowsIffMalformed
  <2> QED BY <1>1, <2>1, <2>2 DEF FormatterInv
<1>4. CASE Return
  <2>1. /\ stage = "family" /\ fam > Len(collection) /\ stage' = "returned"
        /\ result' = (IF to_string THEN os ELSE Nothing) /\ UNCHANGED os
    BY <1>4 DEF Return
  <2>2. format = "fmt_text" => \A i \in DOMAIN collection : ~Malformed(collection[i])
    <3> SUFFICES ASSUME format = "fmt_text", NEW i \in DOMAIN collection
                 PROVE  ~Malformed(collection[i])
      OBVIOUS
    <3>1. Passed /\ i \in 1..Len(collection) /\ Len(collection) \in Nat
      BY <2>1, Loops DEF FormatterInv
    <3> QED BY <2>1, <3>1 DEF Passed
  <2>3. ThrowsIffMalformed'
    BY <2>1, <2>2 DEF ThrowsIffMalformed
  <2> QED BY <1>1, <2>1, <2>3 DEF FormatterInv
<1> QED BY <1>3, <1>4

\* Every step of render() preserves the invariant.
LEMMA FormatterStepInv == FormatterInv /\ [RenderNext]_renderVars => FormatterInv'
<1> SUFFICES ASSUME FormatterInv, [RenderNext]_renderVars PROVE FormatterInv'
  OBVIOUS
<1>1. CASE UNCHANGED renderVars
  BY <1>1 DEF renderVars, FormatterInv, Passed, IsCollection,
     IsSequence, Types, ThrowsIffMalformed
<1>2. CASE RenderNext
  <2>1. UNCHANGED <<collection, format, to_string, reserved>>
    BY <1>2 DEF RenderNext
  <2>2. stage \in {"metric", "bucket"} => format = "fmt_text"
    BY DEF FormatterInv
  <2>3. ASSUME WriteScalar \/ WriteSummary \/ WriteHistogram
        PROVE  FormatterInv'
    <3>1. stage = "metric"
      BY <2>3 DEF WriteScalar, WriteSummary, WriteHistogram
    <3> QED BY <2>1, <2>2, <2>3, <3>1, WriteMetricInv
  <2>4. ASSUME WriteBucket \/ NextMetric
        PROVE  FormatterInv'
    <3>1. stage = "bucket"
      BY <2>4 DEF WriteBucket, NextMetric
    <3> QED BY <2>1, <2>2, <2>4, <3>1, BucketsInv
  <2>5. ASSUME NextFamily
        PROVE  FormatterInv'
    <3>1. stage = "metric"
      BY <2>5 DEF NextFamily
    <3> QED BY <2>1, <2>2, <2>5, <3>1, NextFamilyInv
  <2> QED BY <1>2, <2>1, <2>3, <2>4, <2>5, WriteHeaderInv, EndsInv DEF RenderNext
<1> QED BY <1>1, <1>2

\* render() throws exactly if it is asked for text and a family lacks a required
\* field or is a summary, however far it has come by then, and a string is
\* returned whole or not at all (output_formatter.cc:40-45, 131-235).
THEOREM RefusedIffMalformed ==
  RenderSpec => []ThrowsIffMalformed
<1>1. RenderInit => FormatterInv
  BY FormatterInitInv
<1>2. FormatterInv => ThrowsIffMalformed
  BY DEF FormatterInv
<1> QED BY <1>1, <1>2, FormatterStepInv, PTL DEF RenderSpec

-----------------------------------------------------------------------------
(* Delimited protobuf. *)

\* Numbers split into a low digit and the rest.
LEMMA DigitSplit ==
  ASSUME NEW n \in Nat
  PROVE  /\ n % VarintBase \in Nat /\ n % VarintBase < VarintBase
         /\ n \div VarintBase \in Nat
         /\ n = VarintBase * (n \div VarintBase) + (n % VarintBase)
         /\ n >= VarintBase => n \div VarintBase < n
         /\ n < VarintBase => n % VarintBase = n /\ (VarintBase + n) % VarintBase = n
<1> DEFINE q == n \div VarintBase
           r == n % VarintBase
<1>0. VarintBase \in Nat \ {0, 1}
  BY OutputFormatterAssumption
<1>1. r \in Nat /\ r < VarintBase /\ q \in Nat /\ n = VarintBase * q + r
  BY <1>0
<1>2. n >= VarintBase => q < n
  <2> HIDE DEF q, r
  <2> QED BY <1>0, <1>1
<1>3. n < VarintBase => n % VarintBase = n /\ (VarintBase + n) % VarintBase = n
  BY <1>0
<1> QED BY <1>1, <1>2, <1>3

\* What is left of a number after a digit is less than the number.
LEMMA DigitsDescend ==
  Descends(Nat, {n \in Nat : n < VarintBase}, [n \in Nat |-> n \div VarintBase])
<1> DEFINE small == {n \in Nat : n < VarintBase}
           rest == [n \in Nat |-> n \div VarintBase]
           measure == [n \in Nat |-> n]
<1>1. VarintBase \in Nat \ {0, 1}
  BY OutputFormatterAssumption
<1>2. /\ measure \in [Nat -> Nat]
      /\ \A n \in Nat : n \notin small => rest[n] \in Nat /\ measure[rest[n]] < measure[n]
  BY <1>1, DigitSplit
<1> HIDE DEF measure, rest, small
<1>3. Descends(Nat, small, rest)
  BY <1>2 DEF Descends
<1> QED BY <1>3 DEF rest, small

\* The bytes of a varint are bytes, and the recursion of Varint is sound.
LEMMA VarintUnfolds ==
  \A n \in Nat :
    /\ Varint(n) \in Seq(Byte)
    /\ Varint(n) =
         IF n < VarintBase THEN <<n>>
         ELSE <<VarintBase + (n % VarintBase)>> \o Varint(n \div VarintBase)
<1> DEFINE Bytes == Seq(Byte)
           small == {n \in Nat : n < VarintBase}
           next == [n \in Nat |-> n \div VarintBase]
           base == [n \in Nat |-> IF n < VarintBase THEN <<n>> ELSE <<>>]
           step == [p \in Nat \X Bytes |-> <<VarintBase + (p[1] % VarintBase)>> \o p[2]]
<1>0. VarintBase \in Nat \ {0, 1}
  BY OutputFormatterAssumption
<1>1. \A n \in Nat : /\ n < VarintBase => n \in Byte
                     /\ VarintBase + (n % VarintBase) \in Byte
  BY <1>0, DigitSplit DEF Byte
<1>2. base \in [Nat -> Bytes]
  BY <1>1
<1>3. step \in [Nat \X Bytes -> Bytes]
  <2> SUFFICES ASSUME NEW n \in Nat, NEW s \in Bytes
               PROVE  <<VarintBase + (n % VarintBase)>> \o s \in Bytes
    OBVIOUS
  <2>1. <<VarintBase + (n % VarintBase)>> \in Bytes
    BY <1>1
  <2> QED BY <2>1
<1>4. Descends(Nat, small, next)
  BY DigitsDescend
<1>5. \A n \in Nat : /\ next[n] = n \div VarintBase
                     /\ n < VarintBase => base[n] = <<n>>
                     /\ \A s \in Bytes :
                          step[<<n, s>>] = <<VarintBase + (n % VarintBase)>> \o s
                     /\ n \in small <=> n < VarintBase
  OBVIOUS
<1> HIDE DEF next, base, step, small
<1>7. \E f \in [Nat -> Bytes] : IsDescent(f, Nat, small, base, next, step)
  <2> HIDE DEF Bytes
  <2> QED BY <1>2, <1>3, <1>4, DescentExists, Zenon
<1>8. PICK f \in [Nat -> Bytes] :
        f = [n \in Nat |-> IF n \in small THEN base[n] ELSE step[<<n, f[next[n]]>>]]
  BY <1>7, Zenon DEF IsDescent
<1>9. \A n \in Nat : next[n] \in Nat
  <2>1. \A n \in Nat : next[n] = n \div VarintBase
    BY <1>5
  <2>2. \A n \in Nat : n \div VarintBase \in Nat
    BY DigitSplit
  <2> QED BY <2>1, <2>2
<1>10. \A n \in Nat : f[n] = IF n < VarintBase THEN <<n>>
                  ELSE <<VarintBase + (n % VarintBase)>> \o f[n \div VarintBase]
  <2> HIDE DEF Bytes
  <2> SUFFICES ASSUME NEW n \in Nat
               PROVE  f[n] = IF n < VarintBase THEN <<n>>
                        ELSE <<VarintBase + (n % VarintBase)>> \o f[n \div VarintBase]
    OBVIOUS
  <2>1. f[n] = IF n \in small THEN base[n] ELSE step[<<n, f[next[n]]>>]
    BY <1>8
  <2>2. n \notin small => f[next[n]] \in Bytes
    BY <1>9
  <2> QED BY <1>5, <2>1, <2>2
<1>11. f = [n \in Nat |-> f[n]]
  OBVIOUS
<1>12. f = [n \in Nat |-> IF n < VarintBase THEN <<n>>
                  ELSE <<VarintBase + (n % VarintBase)>> \o f[n \div VarintBase]]
  BY <1>10, <1>11
<1>13. PICK g : /\ g = [n \in Nat |-> IF n < VarintBase THEN <<n>>
                         ELSE <<VarintBase + (n % VarintBase)>> \o g[n \div VarintBase]]
                /\ \A n : Varint(n) = g[n]
  BY <1>12, Zenon DEF Varint
<1> DEFINE T == {n \in Nat : g[n] = f[n]}
<1>14. ASSUME NEW n \in Nat, n \notin small => next[n] \in T
       PROVE  n \in T
  <2>1. g[n] = IF n < VarintBase THEN <<n>>
               ELSE <<VarintBase + (n % VarintBase)>> \o g[n \div VarintBase]
    BY <1>13
  <2>2. ~(n < VarintBase) => g[n \div VarintBase] = f[n \div VarintBase]
    BY <1>5, <1>14
  <2> QED BY <1>10, <2>1, <2>2
<1>15. \A n \in Nat : n \in T
  <2> HIDE DEF T
  <2>1. \A n \in Nat : (n \notin small => next[n] \in T) => n \in T
    BY <1>14
  <2> QED BY <1>4, <2>1, DescentInduction
<1>16. \A n \in Nat : Varint(n) = f[n] /\ n \div VarintBase \in Nat
  BY <1>13, <1>15, DigitSplit
<1> QED BY <1>10, <1>16

\* So is that of ReadNumber, which comes out after the number.
LEMMA NumberUnfolds ==
  ASSUME NEW chars \in Seq(Byte)
  PROVE  \A p \in 1..Len(chars) :
           /\ ReadNumber(chars, p).value \in Nat
           /\ ReadNumber(chars, p).next \in (p + 1)..(Len(chars) + 1)
           /\ ReadNumber(chars, p) =
                IF chars[p] < VarintBase \/ p = Len(chars)
                THEN [value |-> chars[p] % VarintBase, next |-> p + 1]
                ELSE [value |-> (chars[p] % VarintBase)
                                  + VarintBase * ReadNumber(chars, p + 1).value,
                      next |-> ReadNumber(chars, p + 1).next]
<1> DEFINE L == Len(chars)
           D == 1..L
           V == [value : Nat, next : Nat]
           ends == {q \in D : chars[q] < VarintBase \/ q = L}
           measure == [q \in D |-> L - q]
           next == [q \in D |-> q + 1]
           base == [q \in D |-> [value |-> chars[q] % VarintBase, next |-> q + 1]]
           step == [x \in D \X V |->
                      [value |-> (chars[x[1]] % VarintBase) + VarintBase * x[2].value,
                       next |-> x[2].next]]
<1>0. /\ VarintBase \in Nat \ {0, 1} /\ L \in Nat
      /\ DOMAIN chars = D /\ \A q \in D : chars[q] \in Nat
  <2>1. VarintBase \in Nat \ {0, 1}
    BY OutputFormatterAssumption
  <2>2. Byte \subseteq Nat
    BY <2>1 DEF Byte
  <2>3. L \in Nat /\ DOMAIN chars = D /\ \A q \in D : chars[q] \in Byte
    BY LenProperties, ElementOfSeq
  <2> HIDE DEF D, L
  <2> QED BY <2>1, <2>2, <2>3
<1>a. L = Len(chars)
  OBVIOUS
<1> HIDE DEF L
<1>1. \A q \in D : chars[q] % VarintBase \in Nat
  BY <1>0, DigitSplit
<1>2. base \in [D -> V]
  BY <1>0, <1>1
<1>3. step \in [D \X V -> V]
  <2>1. \A n \in Nat : VarintBase * n \in Nat
    BY <1>0
  <2>2. \A q \in D, v \in V :
          [value |-> (chars[q] % VarintBase) + VarintBase * v.value, next |-> v.next] \in V
    <3> SUFFICES ASSUME NEW q \in D, NEW v \in V
                 PROVE  (chars[q] % VarintBase) + VarintBase * v.value \in Nat /\ v.next \in Nat
      OBVIOUS
    <3>1. v.value \in Nat /\ v.next \in Nat
      OBVIOUS
    <3> HIDE DEF V, D
    <3>2. chars[q] % VarintBase \in Nat /\ VarintBase * v.value \in Nat
      BY <1>1, <2>1, <3>1
    <3> QED BY <3>1, <3>2
  <2> HIDE DEF V, D
  <2> QED BY <2>2
<1>4. Descends(D, ends, next)
  <2>1. /\ measure \in [D -> Nat]
        /\ \A q \in D : q \notin ends => next[q] \in D /\ measure[next[q]] < measure[q]
    BY <1>0
  <2> HIDE DEF measure, next, ends, D
  <2> QED BY <2>1 DEF Descends
<1>5. \A q \in D : /\ next[q] = q + 1
                   /\ base[q] = [value |-> chars[q] % VarintBase, next |-> q + 1]
                   /\ q \in ends <=> chars[q] < VarintBase \/ q = L
  OBVIOUS
<1>6. \A q \in D, v \in V :
        step[<<q, v>>] = [value |-> (chars[q] % VarintBase) + VarintBase * v.value,
                          next |-> v.next]
  OBVIOUS
<1>7. \A q \in D : q \notin ends => q + 1 \in D
  BY <1>0
<1> HIDE DEF next, base, step, ends
<1>8. \E f \in [D -> V] : IsDescent(f, D, ends, base, next, step)
  <2> HIDE DEF D, V
  <2> QED BY <1>2, <1>3, <1>4, DescentExists, Zenon
<1>9. PICK f \in [D -> V] :
        f = [q \in D |-> IF q \in ends THEN base[q] ELSE step[<<q, f[next[q]]>>]]
  BY <1>8, Zenon DEF IsDescent
<1>10. ASSUME NEW q \in D
       PROVE  f[q] = IF chars[q] < VarintBase \/ q = L
                     THEN [value |-> chars[q] % VarintBase, next |-> q + 1]
                     ELSE [value |-> (chars[q] % VarintBase) + VarintBase * f[q + 1].value,
                           next |-> f[q + 1].next]
  <2> HIDE DEF D, V, L
  <2>1. f[q] = IF q \in ends THEN base[q] ELSE step[<<q, f[next[q]]>>]
    BY <1>9
  <2>2. next[q] = q + 1 /\ (q \notin ends => f[q + 1] \in V)
    BY <1>5, <1>7
  <2>3. q \notin ends =>
          step[<<q, f[q + 1]>>] =
            [value |-> (chars[q] % VarintBase) + VarintBase * f[q + 1].value,
             next |-> f[q + 1].next]
    BY <1>6, <2>2
  <2> QED BY <1>5, <2>1, <2>2, <2>3
<1>11. f = [q \in DOMAIN chars |-> f[q]]
  BY <1>0
<1>12. f = [q \in DOMAIN chars |->
              IF chars[q] < VarintBase \/ q = Len(chars)
              THEN [value |-> chars[q] % VarintBase, next |-> q + 1]
              ELSE [value |-> (chars[q] % VarintBase) + VarintBase * f[q + 1].value,
                    next |-> f[q + 1].next]]
  <2> HIDE DEF D
  <2> QED BY <1>a, <1>0, <1>10, <1>11
<1>13. PICK g :
         /\ g = [q \in DOMAIN chars |->
              IF chars[q] < VarintBase \/ q = Len(chars)
              THEN [value |-> chars[q] % VarintBase, next |-> q + 1]
              ELSE [value |-> (chars[q] % VarintBase) + VarintBase * g[q + 1].value,
                    next |-> g[q + 1].next]]
         /\ \A p : ReadNumber(chars, p) = g[p]
  BY <1>12, Zenon DEF ReadNumber
<1> DEFINE T == {q \in D : g[q] = f[q] /\ f[q].next \in (q + 1)..(L + 1)}
<1>14. ASSUME NEW q \in D, q \notin ends => next[q] \in T
       PROVE  q \in T
  <2>1. g[q] = IF chars[q] < VarintBase \/ q = L
               THEN [value |-> chars[q] % VarintBase, next |-> q + 1]
               ELSE [value |-> (chars[q] % VarintBase) + VarintBase * g[q + 1].value,
                     next |-> g[q + 1].next]
    BY <1>a, <1>0, <1>13
  <2>2. CASE q \in ends
    <3>1. g[q] = f[q] /\ f[q].next = q + 1
      BY <1>5, <1>10, <2>1, <2>2
    <3>2. q + 1 \in (q + 1)..(L + 1)
      BY <1>0
    <3> QED BY <3>1, <3>2
  <2>3. CASE q \notin ends
    <3>1. q + 1 \in T
      BY <1>5, <1>14, <2>3
    <3>2. g[q] = f[q] /\ f[q].next = f[q + 1].next
      BY <1>5, <1>10, <2>1, <2>3, <3>1
    <3>3. f[q + 1].next \in (q + 1)..(L + 1)
      BY <1>0, <3>1
    <3> QED BY <3>2, <3>3
  <2> QED BY <2>2, <2>3
<1>15. \A q \in D : q \in T
  <2> HIDE DEF D, T
  <2>1. \A q \in D : (q \notin ends => next[q] \in T) => q \in T
    BY <1>14
  <2> QED BY <1>4, <2>1, DescentInduction
<1>16. ASSUME NEW p \in D
       PROVE  /\ g[p] = f[p] /\ f[p].value \in Nat /\ f[p].next \in (p + 1)..(L + 1)
              /\ ~(chars[p] < VarintBase \/ p = L) => g[p + 1] = f[p + 1]
  <2>1. f[p].value \in Nat
    OBVIOUS
  <2> QED BY <1>5, <1>7, <1>15, <2>1
<1> HIDE DEF D
<1>17. \A p \in D :
         /\ g[p].value \in Nat /\ g[p].next \in (p + 1)..(L + 1)
         /\ g[p] = IF chars[p] < VarintBase \/ p = L
                   THEN [value |-> chars[p] % VarintBase, next |-> p + 1]
                   ELSE [value |-> (chars[p] % VarintBase) + VarintBase * g[p + 1].value,
                         next |-> g[p + 1].next]
  BY <1>10, <1>16
<1>18. D = 1..Len(chars)
  BY <1>a DEF D
<1> QED BY <1>a, <1>13, <1>17, <1>18

\* The text s stands in chars from position p on.
Spells(chars, p, s) ==
  /\ p \in Nat \ {0} /\ p + Len(s) <= Len(chars) + 1
  /\ \A k \in 1..Len(s) : chars[p + k - 1] = s[k]

\* A varint reads back.
LEMMA NumberReadBack ==
  ASSUME NEW chars \in Seq(Byte)
  PROVE  \A n \in Nat : \A p \in Nat : Spells(chars, p, Varint(n)) =>
           ReadNumber(chars, p)
             = [value |-> n, next |-> p + Len(Varint(n))]
<1> DEFINE V(n) == Varint(n)
           R(p) == ReadNumber(chars, p)
           T == {n \in Nat : \A p \in Nat : Spells(chars, p, V(n)) =>
                   R(p) = [value |-> n, next |-> p + Len(V(n))]}
<1>0. VarintBase \in Nat \ {0, 1} /\ Len(chars) \in Nat
  <2>1. Len(chars) \in Nat
    BY LenProperties
  <2> QED BY <2>1, OutputFormatterAssumption
<1>1. \A p \in 1..Len(chars) :
        R(p) = IF chars[p] < VarintBase \/ p = Len(chars)
               THEN [value |-> chars[p] % VarintBase, next |-> p + 1]
               ELSE [value |-> (chars[p] % VarintBase) + VarintBase * R(p + 1).value,
                     next |-> R(p + 1).next]
  BY NumberUnfolds
<1>2. \A n \in Nat : /\ V(n) \in Seq(Byte)
                     /\ V(n) = IF n < VarintBase THEN <<n>>
                               ELSE <<VarintBase + (n % VarintBase)>> \o V(n \div VarintBase)
  BY VarintUnfolds
<1> HIDE DEF V, R
<1>3. ASSUME NEW n \in Nat, n < VarintBase
      PROVE  n \in T
  <2> SUFFICES ASSUME NEW p \in Nat, Spells(chars, p, V(n))
               PROVE  R(p) = [value |-> n, next |-> p + Len(V(n))]
    OBVIOUS
  <2>1. V(n) = <<n>> /\ Len(V(n)) = 1 /\ V(n)[1] = n
    <3>1. V(n) = <<n>>
      BY <1>2, <1>3
    <3> QED BY <3>1
  <2>2. p \in 1..Len(chars) /\ chars[p + 1 - 1] = n /\ p + 1 - 1 = p
    BY <1>0, <2>1 DEF Spells
  <2>3. n % VarintBase = n
    BY <1>3, DigitSplit
  <2> QED BY <1>1, <1>3, <2>1, <2>2, <2>3
<1>4. ASSUME NEW n \in Nat, ~(n < VarintBase), n \div VarintBase \in T
      PROVE  n \in T
  <2> DEFINE q == n \div VarintBase
             d == n % VarintBase
  <2>1. /\ q \in Nat /\ d \in Nat /\ d < VarintBase /\ n = VarintBase * q + d
        /\ (VarintBase + d) % VarintBase = d
    BY DigitSplit
  <2> SUFFICES ASSUME NEW p \in Nat, Spells(chars, p, V(n))
               PROVE  R(p) = [value |-> n, next |-> p + Len(V(n))]
    OBVIOUS
  <2>2. V(n) = <<VarintBase + d>> \o V(q)
    BY <1>2, <1>4
  <2>3. V(q) \in Seq(Byte)
    BY <1>2, <2>1
  <2>4. q \in T
    BY <1>4
  <2> HIDE DEF q, d
  <2>5. /\ Len(V(q)) \in Nat \ {0} /\ Len(V(n)) = Len(V(q)) + 1
        /\ V(n)[1] = VarintBase + d
        /\ \A k \in 1..Len(V(q)) : V(n)[k + 1] = V(q)[k]
    <3>1. Len(V(q)) \in Nat \ {0}
      <4>1. V(q) = <<q>> \/ V(q) = <<VarintBase + (q % VarintBase)>> \o V(q \div VarintBase)
        BY <1>2, <2>1
      <4>2. q \div VarintBase \in Nat
        BY <2>1, DigitSplit
      <4>3. V(q \div VarintBase) \in Seq(Byte)
        BY <1>2, <4>2
      <4>4. CASE V(q) = <<q>>
        BY <4>4
      <4>5. CASE V(q) = <<VarintBase + (q % VarintBase)>> \o V(q \div VarintBase)
        <5> DEFINE x == VarintBase + (q % VarintBase)
                   s == V(q \div VarintBase)
        <5>1. Len(s) \in Nat /\ V(q) = <<x>> \o s
          BY <4>3, <4>5
        <5> HIDE DEF x, s
        <5>2. s \in Seq(Byte)
          BY <4>3 DEF s
        <5>3. Len(<<x>> \o s) = 1 + Len(s)
          BY <5>2
        <5> QED BY <5>1, <5>3
      <4> QED BY <4>1, <4>4, <4>5
    <3> QED BY <2>2, <2>3, <3>1
  <2>6. p \in 1..Len(chars) /\ p # Len(chars) /\ chars[p] = VarintBase + d
    <3>1. 1 \in 1..Len(V(n)) /\ p + 1 - 1 = p
      BY <2>5
    <3>2. chars[p + 1 - 1] = V(n)[1] /\ p \in Nat \ {0} /\ p + Len(V(n)) <= Len(chars) + 1
      BY <3>1 DEF Spells
    <3> QED BY <1>0, <2>5, <3>1, <3>2
  <2>7. Spells(chars, p + 1, V(q))
    <3>1. p + 1 \in Nat \ {0} /\ (p + 1) + Len(V(q)) <= Len(chars) + 1
      BY <1>0, <2>5 DEF Spells
    <3>2. ASSUME NEW k \in 1..Len(V(q))
          PROVE  chars[(p + 1) + k - 1] = V(q)[k]
      <4>1. k + 1 \in 1..Len(V(n)) /\ (p + 1) + k - 1 = p + (k + 1) - 1
        BY <2>5
      <4> QED BY <2>5, <4>1 DEF Spells
    <3> QED BY <3>1, <3>2 DEF Spells
  <2>8. R(p + 1) = [value |-> q, next |-> (p + 1) + Len(V(q))]
    BY <2>4, <2>7
  <2>9. R(p) = [value |-> (chars[p] % VarintBase) + VarintBase * R(p + 1).value,
                next |-> R(p + 1).next]
    <3>1. ~(chars[p] < VarintBase)
      BY <1>0, <2>1, <2>6
    <3> QED BY <1>1, <2>6, <3>1
  <2>10. chars[p] % VarintBase = d
    BY <2>1, <2>6
  <2>11. d + VarintBase * q = n /\ (p + 1) + Len(V(q)) = p + Len(V(n))
    <3>1. VarintBase * q \in Nat
      BY <1>0, <2>1
    <3>2. d + VarintBase * q = n
      BY <2>1, <3>1
    <3>3. (p + 1) + Len(V(q)) = p + Len(V(n))
      BY <2>5
    <3> QED BY <3>2, <3>3
  <2> QED BY <2>8, <2>9, <2>10, <2>11
<1> DEFINE small == {n \in Nat : n < VarintBase}
           rest == [n \in Nat |-> n \div VarintBase]
<1>5. \A n \in Nat : n \in T
  <2>1. \A n \in Nat : (n \notin small => rest[n] \in T) => n \in T
    <3> HIDE DEF T
    <3> QED BY <1>3, <1>4
  <2>2. Descends(Nat, small, rest)
    BY DigitsDescend
  <2> HIDE DEF T, small, rest
  <2> QED BY <2>1, <2>2, DescentInduction
<1> QED BY <1>5 DEF V, R

\* The recursion of ReadFrames is sound as well.
LEMMA FramesUnfold ==
  ASSUME NEW chars \in Seq(Byte)
  PROVE  \E g : /\ ReadFrames(chars) = g[1]
                /\ \A p \in 1..(Len(chars) + 1) :
                     g[p] = IF p > Len(chars) \/ NextAt(chars, p) > Len(chars) + 1
                            THEN <<>>
                            ELSE <<SubSeq(chars, MessageAt(chars, p),
                                          NextAt(chars, p) - 1)>>
                                   \o g[NextAt(chars, p)]
<1> DEFINE L == Len(chars)
           D == 1..(L + 1)
           V == Seq(Seq(Byte))
           N(p) == NextAt(chars, p)
           M(p) == SubSeq(chars, MessageAt(chars, p), N(p) - 1)
           ends == {p \in D : p > L \/ N(p) > L + 1}
           next == [p \in D |-> N(p)]
           base == [p \in D |-> <<>>]
           step == [x \in D \X V |-> IF x[1] \in ends THEN <<>> ELSE <<M(x[1])>> \o x[2]]
           measure == [p \in D |-> (L + 1) - p]
<1>0. L \in Nat
  BY LenProperties
<1>1. ASSUME NEW p \in D, p \notin ends
      PROVE  /\ MessageAt(chars, p) \in (p + 1)..(L + 1)
             /\ N(p) \in (p + 1)..(L + 1)
             /\ M(p) \in Seq(Byte)
  <2>1. p \in 1..L /\ ~(N(p) > L + 1)
    BY <1>0, <1>1
  <2> DEFINE v == ReadNumber(chars, p).value
             m == ReadNumber(chars, p).next
  <2>2. v \in Nat /\ m \in (p + 1)..(L + 1)
    BY <2>1, NumberUnfolds
  <2>3. N(p) = m + v /\ MessageAt(chars, p) = m
    BY DEF NextAt, MessageAt
  <2> HIDE DEF v, m, N, L
  <2>4. N(p) \in (p + 1)..(L + 1)
    BY <1>0, <2>1, <2>2, <2>3
  <2>5. SubSeq(chars, m, N(p) - 1) \in Seq(Byte)
    <3>1. \A k \in m..(N(p) - 1) : chars[k] \in Byte
      <4> SUFFICES ASSUME NEW k \in m..(N(p) - 1) PROVE chars[k] \in Byte
        OBVIOUS
      <4>1. k \in 1..L
        BY <1>0, <2>1, <2>2, <2>4
      <4> QED BY <4>1, ElementOfSeq DEF L
    <3>2. m \in Int /\ N(p) - 1 \in Int
      BY <1>0, <2>1, <2>2, <2>4
    <3> QED BY <3>1, <3>2, SubSeqProperties
  <2> QED BY <2>2, <2>3, <2>4, <2>5
<1>2. Descends(D, ends, next)
  <2>1. /\ measure \in [D -> Nat]
        /\ \A p \in D : p \notin ends => next[p] \in D /\ measure[next[p]] < measure[p]
    <3>1. \A p \in D : p \notin ends => next[p] \in (p + 1)..(L + 1)
      BY <1>1
    <3> HIDE DEF ends, next, L
    <3> QED BY <1>0, <3>1
  <2> HIDE DEF measure, next, ends, D
  <2> QED BY <2>1 DEF Descends
<1>3. base \in [D -> V]
  OBVIOUS
<1>4. step \in [D \X V -> V]
  <2> SUFFICES ASSUME NEW p \in D, NEW s \in V, p \notin ends
               PROVE  <<M(p)>> \o s \in V
    <3> HIDE DEF V, ends, D, M
    <3>1. \A p \in D, s \in V : p \notin ends => <<M(p)>> \o s \in V
      OBVIOUS
    <3>2. <<>> \in V
      BY DEF V
    <3> QED BY <3>1, <3>2
  <2>1. M(p) \in Seq(Byte)
    BY <1>1
  <2> HIDE DEF M
  <2>2. <<M(p)>> \in V
    BY <2>1
  <2> QED BY <2>2
<1>5. \A p \in D : next[p] = N(p) /\ base[p] = <<>>
  OBVIOUS
<1>6. \A p \in D, s \in V : p \notin ends => step[<<p, s>>] = <<M(p)>> \o s
  OBVIOUS
<1>7. \A p \in D : p \in ends <=> p > L \/ N(p) > L + 1
  OBVIOUS
<1>8. \A p \in D : p \notin ends => N(p) \in D
  <2>1. \A p \in D : p \notin ends => N(p) \in (p + 1)..(L + 1)
    BY <1>1
  <2> HIDE DEF ends, N, L
  <2> QED BY <1>0, <2>1
<1> HIDE DEF next, base, step, ends, D, V
<1>9. \E f \in [D -> V] : IsDescent(f, D, ends, base, next, step)
  BY <1>2, <1>3, <1>4, DescentExists, Zenon
<1>10. PICK f \in [D -> V] :
        f = [p \in D |-> IF p \in ends THEN base[p] ELSE step[<<p, f[next[p]]>>]]
  BY <1>9, Zenon DEF IsDescent
<1>11. ASSUME NEW p \in D
       PROVE  f[p] = IF p > L \/ N(p) > L + 1 THEN <<>> ELSE <<M(p)>> \o f[N(p)]
  <2> HIDE DEF N, M, L
  <2>1. f[p] = IF p \in ends THEN base[p] ELSE step[<<p, f[next[p]]>>]
    BY <1>10
  <2>2. p \notin ends => f[N(p)] \in V
    BY <1>8
  <2> QED BY <1>5, <1>6, <1>7, <2>1, <2>2
<1>12. f = [p \in D |-> f[p]]
  OBVIOUS
<1>13. f = [p \in D |-> IF p > L \/ N(p) > L + 1 THEN <<>> ELSE <<M(p)>> \o f[N(p)]]
  <2> HIDE DEF N, M, L
  <2> QED BY <1>11, <1>12
<1>14. PICK g : /\ g = [p \in D |-> IF p > L \/ N(p) > L + 1 THEN <<>>
                                   ELSE <<M(p)>> \o g[N(p)]]
                /\ ReadFrames(chars) = g[1]
  BY <1>13, Zenon DEF ReadFrames, D
<1>15. \A p \in D : g[p] = IF p > L \/ N(p) > L + 1 THEN <<>> ELSE <<M(p)>> \o g[N(p)]
  <2> HIDE DEF N, M, L
  <2> QED BY <1>14
<1> QED BY <1>14, <1>15 DEF D

\* A stream of the frames of c[1] to c[n], the i-th of them at position start[i].
InFrames(chars, c, n, start) ==
  /\ start \in [1..(n + 1) -> Nat]
  /\ start[1] = 1 /\ start[n + 1] = Len(chars) + 1
  /\ \A i \in 1..n : /\ start[i + 1] = start[i] + Len(Frame(c[i]))
                     /\ Spells(chars, start[i], Frame(c[i]))

\* What a frame consists of.
LEMMA FrameParts ==
  ASSUME NEW f, Serialize(f) \in Seq(Byte)
  PROVE  LET v == Varint(Len(Serialize(f)))
             s == Serialize(f)
         IN  /\ Frame(f) \in Seq(Byte)
             /\ Len(v) \in Nat \ {0} /\ Len(s) \in Nat
             /\ Len(Frame(f)) = Len(v) + Len(s)
             /\ \A k \in 1..Len(v) : Frame(f)[k] = v[k]
             /\ \A k \in 1..Len(s) : Frame(f)[Len(v) + k] = s[k]
<1> DEFINE s == Serialize(f)
           n == Len(s)
           v == Varint(n)
<1>1. s \in Seq(Byte) /\ n \in Nat /\ n = Len(s)
  BY LenProperties
<1>2. Frame(f) = v \o s
  BY DEF Frame
<1> HIDE DEF s, n
<1>3. v \in Seq(Byte) /\ v # <<>>
  <2>1. /\ v \in Seq(Byte)
        /\ v = <<n>> \/ v = <<VarintBase + (n % VarintBase)>> \o Varint(n \div VarintBase)
    BY <1>1, VarintUnfolds
  <2>2. n \div VarintBase \in Nat
    BY <1>1, DigitSplit
  <2> DEFINE w == Varint(n \div VarintBase)
             x == VarintBase + (n % VarintBase)
  <2>3. w \in Seq(Byte)
    BY <2>2, VarintUnfolds
  <2>4. v = <<n>> \/ v = <<x>> \o w
    BY <2>1
  <2> HIDE DEF w, x, v
  <2>5. <<x>> \o w # <<>> /\ <<n>> # <<>>
    BY <2>3
  <2>6. v # <<>>
    BY <2>4, <2>5, Zenon
  <2> QED BY <2>1, <2>6
<1> HIDE DEF v
<1>4. /\ Len(v) \in Nat \ {0} /\ v \o s \in Seq(Byte) /\ Len(v \o s) = Len(v) + n
      /\ \A k \in 1..Len(v) : (v \o s)[k] = v[k]
      /\ \A k \in 1..n : (v \o s)[Len(v) + k] = s[k]
  BY <1>1, <1>3, ConcatProperties, EmptySeq
<1> QED BY <1>1, <1>2, <1>4 DEF s, n, v

\* A reader that has come to a frame finds its message and the next frame.
LEMMA FrameReadBack ==
  ASSUME NEW chars \in Seq(Byte),
         NEW f, Serialize(f) \in Seq(Byte),
         NEW p \in Nat, Spells(chars, p, Frame(f))
  PROVE  /\ p \in 1..Len(chars)
         /\ NextAt(chars, p) = p + Len(Frame(f))
         /\ NextAt(chars, p) \in (p + 1)..(Len(chars) + 1)
         /\ SubSeq(chars, MessageAt(chars, p), NextAt(chars, p) - 1)
              = Serialize(f)
<1> DEFINE s == Serialize(f)
           n == Len(s)
           v == Varint(n)
           fr == Frame(f)
           L == Len(chars)
<1>1. /\ L \in Nat /\ n \in Nat /\ Len(v) \in Nat \ {0}
      /\ Len(fr) = Len(v) + n
      /\ \A k \in 1..Len(v) : fr[k] = v[k]
      /\ \A k \in 1..n : fr[Len(v) + k] = s[k]
  BY FrameParts, LenProperties
<1>2. /\ p \in Nat \ {0} /\ p + Len(fr) <= L + 1
      /\ \A k \in 1..Len(fr) : chars[p + k - 1] = fr[k]
  BY DEF Spells
<1>3. s \in Seq(Byte) /\ n = Len(s) /\ L = Len(chars)
  OBVIOUS
<1>4. ReadNumber(chars, p) = [value |-> n, next |-> p + Len(v)]
  <2>1. Spells(chars, p, v)
    <3> HIDE DEF v, fr, n, s, L
    <3>1. p + Len(v) <= Len(chars) + 1
      BY <1>1, <1>2, <1>3
    <3>2. \A k \in 1..Len(v) : k \in 1..Len(fr)
      BY <1>1
    <3> QED BY <1>1, <1>2, <3>1, <3>2 DEF Spells
  <2> QED BY <1>1, <2>1, NumberReadBack
<1>5. MessageAt(chars, p) = p + Len(v) /\ NextAt(chars, p) = p + Len(v) + n
  BY <1>4 DEF MessageAt, NextAt
<1> HIDE DEF v, fr, n, s, L
<1>6. p \in 1..L /\ p + Len(v) + n = p + Len(fr) /\ p + Len(v) + n \in (p + 1)..(L + 1)
  BY <1>1, <1>2
<1> DEFINE m == p + Len(v)
           e == m + n - 1
<1>7. SubSeq(chars, m, e) = s
  <2>1. m \in Int /\ e \in Int /\ (IF m <= e THEN e - m + 1 ELSE 0) = n /\ e - m + 1 = n
    BY <1>1, <1>2
  <2>2. \A k \in 1..n : m + k - 1 = p + (Len(v) + k) - 1 /\ Len(v) + k \in 1..Len(fr)
    BY <1>1, <1>2
  <2>3. \A k \in 1..n : chars[m + k - 1] = s[k]
    BY <1>1, <1>2, <2>2
  <2>4. \A k \in m..e : chars[k] \in Byte
    <3>1. \A k \in m..e : k \in 1..L
      BY <1>1, <1>2, <1>6
    <3> HIDE DEF m, e
    <3> QED BY <1>3, <3>1, ElementOfSeq
  <2> DEFINE t == SubSeq(chars, m, e)
  <2> HIDE DEF m, e
  <2>5. /\ t \in Seq(Byte) /\ Len(t) = IF m <= e THEN e - m + 1 ELSE 0
        /\ \A k \in 1..(e - m + 1) : t[k] = chars[m + k - 1]
    BY <2>1, <2>4, SubSeqProperties
  <2> HIDE DEF t
  <2>6. Len(t) = n /\ \A k \in 1..n : t[k] = s[k]
    BY <2>1, <2>3, <2>5
  <2>7. t = s
    BY <1>3, <2>5, <2>6, SeqEqual
  <2> QED BY <2>7 DEF t
<1> QED BY <1>3, <1>5, <1>6, <1>7 DEF fr, s

\* So it finds all messages of such a stream.
LEMMA StreamReadBack ==
  ASSUME NEW chars \in Seq(Byte),
         NEW c, IsSequence(c),
         \A i \in DOMAIN c : Serialize(c[i]) \in Seq(Byte),
         NEW start, InFrames(chars, c, Len(c), start)
  PROVE  ReadFrames(chars) = [i \in DOMAIN c |-> Serialize(c[i])]
<1> DEFINE n == Len(c)
           L == Len(chars)
           S == Seq(Byte)
           m == [i \in 1..n |-> Serialize(c[i])]
           After(j) == [k \in 1..j |-> m[n - j + k]]
<1>1. n \in Nat /\ DOMAIN c = 1..n /\ L \in Nat
  BY LenProperties DEF IsSequence
<1>2. \A i \in 1..n : m[i] = Serialize(c[i]) /\ m[i] \in S
  BY <1>1
<1>3. /\ \A i \in 1..(n + 1) : start[i] \in Nat
      /\ start[1] = 1 /\ start[n + 1] = L + 1
      /\ \A i \in 1..n : /\ start[i + 1] = start[i] + Len(Frame(c[i]))
                         /\ Spells(chars, start[i], Frame(c[i]))
  BY DEF InFrames
<1>4. PICK g : /\ ReadFrames(chars) = g[1]
               /\ \A p \in 1..(L + 1) :
                    g[p] = IF p > L \/ NextAt(chars, p) > L + 1
                           THEN <<>>
                           ELSE <<SubSeq(chars, MessageAt(chars, p),
                                         NextAt(chars, p) - 1)>>
                                  \o g[NextAt(chars, p)]
  BY FramesUnfold
<1> HIDE DEF n, L, m, S
<1>5. ASSUME NEW i \in 1..n
      PROVE  g[start[i]] = <<m[i]>> \o g[start[i + 1]]
  <2> DEFINE p == start[i]
             N == NextAt(chars, p)
  <2>1. /\ p \in Nat /\ start[i + 1] = p + Len(Frame(c[i]))
        /\ Spells(chars, p, Frame(c[i]))
    BY <1>1, <1>3
  <2>2. Serialize(c[i]) \in Seq(Byte) /\ m[i] = Serialize(c[i])
    BY <1>1, <1>2
  <2>3. /\ p \in 1..L /\ N = start[i + 1] /\ N \in (p + 1)..(L + 1)
        /\ SubSeq(chars, MessageAt(chars, p), N - 1) = m[i]
    BY <2>1, <2>2, FrameReadBack DEF L
  <2> HIDE DEF p, N
  <2>4. p \in 1..(L + 1) /\ ~(p > L) /\ ~(N > L + 1)
    BY <1>1, <2>3
  <2>5. g[p] = <<SubSeq(chars, MessageAt(chars, p), N - 1)>> \o g[N]
    BY <1>4, <2>4 DEF N
  <2> QED BY <2>3, <2>5 DEF p
<1> DEFINE T == {j \in Nat : j <= n => g[start[(n + 1) - j]] = After(j)}
<1>6. 0 \in T
  <2>1. L + 1 \in 1..(L + 1) /\ L + 1 > L /\ (n + 1) - 0 = n + 1 /\ 1..0 = {}
    BY <1>1
  <2>2. g[L + 1] = <<>>
    BY <1>4, <2>1
  <2>3. After(0) = <<>>
    BY <2>1
  <2> QED BY <1>3, <2>1, <2>2, <2>3
<1>7. ASSUME NEW j \in Nat, j \in T
      PROVE  j + 1 \in T
  <2> SUFFICES ASSUME j + 1 <= n PROVE g[start[(n + 1) - (j + 1)]] = After(j + 1)
    OBVIOUS
  <2> DEFINE i == (n + 1) - (j + 1)
  <2>1. i \in 1..n /\ i + 1 = (n + 1) - j /\ i = n - j /\ j <= n
    BY <1>1
  <2>2. g[start[i]] = <<m[i]>> \o g[start[i + 1]]
    BY <1>5, <2>1
  <2>3. g[start[i + 1]] = After(j)
    BY <1>7, <2>1
  <2>4. <<m[i]>> \o After(j) = After(j + 1)
    <3>1. \A k \in 1..j : After(j)[k] = m[n - j + k] /\ n - j + k \in 1..n
      BY <1>1, <2>1
    <3>2. \A k \in 1..(j + 1) : /\ After(j + 1)[k] = m[n - (j + 1) + k]
                                /\ n - (j + 1) + k \in 1..n
      BY <1>1, <2>1
    <3>3. After(j) \in Seq(S) /\ Len(After(j)) = j
      BY <1>2, <3>1
    <3>4. After(j + 1) \in Seq(S) /\ Len(After(j + 1)) = j + 1
      BY <1>2, <3>2
    <3>5. m[i] \in S
      BY <1>2, <2>1
    <3>6. n - (j + 1) + 1 = i /\ \A k \in 1..j : n - (j + 1) + (k + 1) = n - j + k
      BY <1>1, <2>1
    <3>7. After(j + 1)[1] = m[i] /\ \A k \in 1..j : After(j + 1)[k + 1] = After(j)[k]
      <4>1. 1 \in 1..(j + 1) /\ \A k \in 1..j : k + 1 \in 1..(j + 1)
        OBVIOUS
      <4> QED BY <3>1, <3>2, <3>6, <4>1
    <3> DEFINE a == After(j)
               b == After(j + 1)
               d == <<m[i]>> \o a
    <3> HIDE DEF a, b
    <3>8. a \in Seq(S) /\ Len(a) = j /\ b \in Seq(S) /\ Len(b) = j + 1 /\ b[1] = m[i]
          /\ \A k \in 1..j : b[k + 1] = a[k]
      BY <3>3, <3>4, <3>7 DEF a, b
    <3> HIDE DEF After, i
    <3>9. /\ d \in Seq(S) /\ Len(d) = j + 1 /\ d[1] = m[i]
          /\ \A k \in 1..j : d[k + 1] = a[k]
      BY <3>5, <3>8
    <3> HIDE DEF d
    <3>10. \A k \in 1..(j + 1) : d[k] = b[k]
      <4> SUFFICES ASSUME NEW k \in 1..(j + 1) PROVE d[k] = b[k]
        OBVIOUS
      <4>1. CASE k = 1
        BY <3>8, <3>9, <4>1
      <4>2. CASE k # 1
        <5>1. k - 1 \in 1..j /\ (k - 1) + 1 = k
          BY <4>2
        <5> QED BY <3>8, <3>9, <5>1
      <4> QED BY <4>1, <4>2
    <3>11. d = b
      BY <3>8, <3>9, <3>10, SeqEqual
    <3> QED BY <3>11 DEF a, b, d
  <2> QED BY <2>2, <2>3, <2>4
<1>8. n \in T
  <2> HIDE DEF T
  <2> QED BY <1>1, <1>6, <1>7, NumberInduction
<1>9. g[start[1]] = After(n)
  <2>1. (n + 1) - n = 1 /\ n <= n
    BY <1>1
  <2> HIDE DEF After
  <2> QED BY <1>8, <2>1
<1>10. After(n) = m
  <2>1. \A k \in 1..n : n - n + k = k
    BY <1>1
  <2> QED BY <2>1 DEF m
<1>11. m = [i \in DOMAIN c |-> Serialize(c[i])]
  BY <1>1 DEF m
<1> QED BY <1>3, <1>4, <1>9, <1>10, <1>11

\* The length of the frames of all families before the k-th.
Written(k) ==
  SumFunction([i \in DOMAIN collection |->
                 IF i < k THEN Len(Frame(collection[i])) ELSE 0])

\* What has been written so far is the frames of the families passed so far.
FramesInv ==
  /\ IsSequence(collection)
  /\ \A i \in DOMAIN collection : Serialize(collection[i]) \in Seq(Byte)
  /\ format = "fmt_proto" =>
       /\ stage \in {"family", "returned"}
       /\ fam \in 1..(Len(collection) + 1)
       /\ stage = "returned" => fam = Len(collection) + 1
       /\ os \in Seq(Byte) /\ Len(os) = Written(fam)
       /\ \E start : InFrames(os, collection, fam - 1, start)
       /\ to_string => reserved = calculate_proto_delimited_size(collection)

\* An empty stream holds no frame.
LEMMA FramesInitInv ==
  ASSUME RenderInit
  PROVE  FramesInv
<1>1. /\ collection \in Collections /\ format \in {"fmt_text", "fmt_proto"}
      /\ fam = 1 /\ stage = "family" /\ os = <<>>
      /\ reserved = IF format = "fmt_proto" /\ to_string
                    THEN calculate_proto_delimited_size(collection) ELSE 0
  BY DEF RenderInit
<1>2. /\ IsSequence(collection)
      /\ \A i \in DOMAIN collection : Serialize(collection[i]) \in Seq(Byte)
  BY <1>1, OutputFormatterAssumption DEF IsCollection
<1>3. DOMAIN collection = 1..Len(collection) /\ Len(collection) \in Nat
  BY <1>2, LenProperties DEF IsSequence
<1>4. Written(fam) = 0
  <2> DEFINE D == DOMAIN collection
             w == [i \in D |-> IF i < fam THEN Len(Frame(collection[i])) ELSE 0]
  <2>1. IsFiniteSet(D)
    BY <1>3, FS_Interval
  <2>2. w = [i \in D |-> 0]
    BY <1>1, <1>3
  <2> HIDE DEF D
  <2>3. SumFunction([i \in D |-> 0]) = 0
    BY <2>1, SumFunctionZero
  <2> QED BY <2>2, <2>3 DEF Written, D
<1>5. InFrames(os, collection, fam - 1, [i \in 1..1 |-> 1])
  <2>1. fam - 1 = 0 /\ Len(os) = 0
    BY <1>1
  <2> QED BY <2>1 DEF InFrames
<1>6. os \in Seq(Byte) /\ Len(os) = 0
  BY <1>1
<1> QED BY <1>1, <1>2, <1>3, <1>4, <1>5, <1>6 DEF FramesInv

\* Another frame at the end of the stream.
LEMMA FrameAppended ==
  ASSUME NEW chars \in Seq(Byte), NEW c, NEW n \in Nat, NEW start,
         InFrames(chars, c, n, start),
         NEW fr \in Seq(Byte), fr = Frame(c[n + 1]),
         \A i \in 1..n : Frame(c[i]) \in Seq(Byte)
  PROVE  \E next : InFrames(chars \o fr, c, n + 1, next)
<1> DEFINE L == Len(chars)
           l == Len(fr)
           all == chars \o fr
           next == [i \in 1..((n + 1) + 1) |-> IF i <= n + 1 THEN start[i] ELSE L + l + 1]
           F(i) == Frame(c[i])
<1>1. /\ L \in Nat /\ l \in Nat /\ Len(all) = L + l
      /\ \A k \in 1..L : all[k] = chars[k]
      /\ \A k \in 1..l : all[L + k] = fr[k]
      /\ L = Len(chars) /\ l = Len(fr)
  BY ConcatProperties, LenProperties
<1>2. /\ \A i \in 1..(n + 1) : start[i] \in Nat
      /\ start[1] = 1 /\ start[n + 1] = L + 1
      /\ \A i \in 1..n : start[i + 1] = start[i] + Len(F(i)) /\ Spells(chars, start[i], F(i))
  BY DEF InFrames
<1>3. \A i \in 1..n : Len(F(i)) \in Nat
  BY LenProperties
<1>4. fr = F(n + 1)
  OBVIOUS
<1>5. /\ next \in [1..((n + 1) + 1) -> Nat]
      /\ next[(n + 1) + 1] = L + l + 1
      /\ \A i \in 1..(n + 1) : next[i] = start[i]
  BY <1>1, <1>2
<1> HIDE DEF L, l, all, next, F
<1>6. ASSUME NEW i \in 1..(n + 1)
      PROVE  next[i + 1] = next[i] + Len(F(i)) /\ Spells(all, next[i], F(i))
  <2>1. CASE i = n + 1
    <3>1. next[i] = L + 1 /\ next[i + 1] = L + l + 1 /\ Len(F(i)) = l /\ F(i) = fr
      BY <1>1, <1>2, <1>4, <1>5, <2>1
    <3>2. \A k \in 1..l : (L + 1) + k - 1 = L + k
      BY <1>1
    <3>3. Spells(all, L + 1, fr)
      BY <1>1, <3>2 DEF Spells
    <3> QED BY <1>1, <3>1, <3>3
  <2>2. CASE i # n + 1
    <3>1. /\ i \in 1..n /\ i + 1 \in 1..(n + 1)
          /\ next[i] = start[i] /\ next[i + 1] = start[i + 1]
      BY <1>5, <2>2
    <3>2. Spells(chars, start[i], F(i)) /\ Len(F(i)) \in Nat
      BY <1>2, <1>3, <3>1
    <3> DEFINE p == start[i]
               s == F(i)
    <3>3. /\ p \in Nat \ {0} /\ p + Len(s) <= L + 1 /\ Len(s) \in Nat
          /\ \A k \in 1..Len(s) : chars[p + k - 1] = s[k]
      BY <1>1, <3>2 DEF Spells
    <3> HIDE DEF p, s
    <3>4. \A k \in 1..Len(s) : p + k - 1 \in 1..L
      BY <1>1, <3>3
    <3>5. p + Len(s) <= Len(all) + 1
      BY <1>1, <3>3
    <3>6. Spells(all, p, s)
      BY <1>1, <3>3, <3>4, <3>5 DEF Spells
    <3> QED BY <1>2, <3>1, <3>6 DEF p, s
  <2> QED BY <2>1, <2>2
<1>7. 1 \in 1..(n + 1) /\ next[1] = 1
  BY <1>2, <1>5
<1>8. InFrames(all, c, n + 1, next)
  BY <1>1, <1>5, <1>6, <1>7 DEF InFrames, F
<1> QED BY <1>8 DEF all

\* One message more.
LEMMA WriteFrameFramesInv ==
  ASSUME FramesInv, WriteFrame,
         UNCHANGED <<collection, format, to_string, reserved>>
  PROVE  FramesInv'
<1> DEFINE c == collection
           n == Len(c)
           D == 1..n
           Size(i) == Len(Frame(c[i]))
           fr == Frame(c[fam])
<1>1. /\ stage = "family" /\ format = "fmt_proto" /\ fam <= n
      /\ os' = os \o fr /\ fam' = fam + 1 /\ stage' = stage
  BY DEF WriteFrame, Write, family
<1>2. /\ IsSequence(c) /\ DOMAIN c = D /\ n \in Nat
      /\ \A i \in D : Serialize(c[i]) \in Seq(Byte)
  BY LenProperties DEF FramesInv, IsSequence
<1>3. /\ fam \in 1..(n + 1) /\ os \in Seq(Byte) /\ Len(os) = Written(fam)
      /\ \E start : InFrames(os, c, fam - 1, start)
      /\ to_string => reserved = calculate_proto_delimited_size(c)
  BY <1>1 DEF FramesInv
<1>4. \A i \in D : Frame(c[i]) \in Seq(Byte) /\ Size(i) \in Nat
  BY <1>2, FrameParts, LenProperties
<1>5. fam \in D /\ fam - 1 \in Nat /\ (fam - 1) + 1 = fam /\ fam' - 1 = fam /\ fam' \in 1..(n + 1)
  BY <1>1, <1>2, <1>3
<1>6. \E start : InFrames(os', c, fam, start)
  <2>1. PICK start : InFrames(os, c, fam - 1, start)
    BY <1>3
  <2>2. \A i \in 1..(fam - 1) : Frame(c[i]) \in Seq(Byte)
    BY <1>2, <1>4, <1>5
  <2>3. fr \in Seq(Byte) /\ fr = Frame(c[(fam - 1) + 1])
    BY <1>4, <1>5
  <2> DEFINE k == fam - 1
  <2>4. /\ k \in Nat /\ InFrames(os, c, k, start) /\ fr = Frame(c[k + 1])
        /\ \A i \in 1..k : Frame(c[i]) \in Seq(Byte)
    BY <1>5, <2>1, <2>2, <2>3
  <2> HIDE DEF k, fr
  <2>5. \E next : InFrames(os \o fr, c, k + 1, next)
    BY <1>3, <2>3, <2>4, FrameAppended
  <2> QED BY <1>1, <1>5, <2>5 DEF k
<1>7. os' \in Seq(Byte) /\ Len(os') = Len(os) + Size(fam)
  <2>1. fr \in Seq(Byte) /\ Len(fr) = Size(fam)
    BY <1>4, <1>5
  <2> HIDE DEF fr, Size
  <2>2. os \o fr \in Seq(Byte) /\ Len(os \o fr) = Len(os) + Len(fr)
    BY <1>3, <2>1, ConcatProperties
  <2> QED BY <1>1, <2>1, <2>2
<1>8. Len(os') = Written(fam + 1)
  <2> DEFINE f == [i \in D |-> IF i < fam THEN Size(i) ELSE 0]
             e == [i \in D |-> IF i < fam + 1 THEN Size(i) ELSE 0]
  <2>1. IsFiniteSet(D)
    BY <1>2, FS_Interval
  <2>2. f \in [D -> Int] /\ e \in [D -> Int] /\ f[fam] = 0 /\ e[fam] = Size(fam)
    BY <1>4, <1>5
  <2>3. \A i \in D \ {fam} : e[i] = f[i]
    BY <1>5
  <2> HIDE DEF f, e, D, Size
  <2>4. SumFunction(e) = SumFunction(f) - f[fam] + e[fam]
    BY <1>5, <2>1, <2>2, <2>3, SumFunctionUpdate
  <2>5. Written(fam) = SumFunction(f) /\ Written(fam + 1) = SumFunction(e)
    BY <1>2 DEF Written, f, e, Size
  <2>6. SumFunction(f) \in Int
    BY <2>1, <2>2, SumFunctionType
  <2>7. Size(fam) \in Nat
    BY <1>4, <1>5
  <2> QED BY <1>3, <1>7, <2>2, <2>4, <2>5, <2>6, <2>7
<1> QED BY <1>1, <1>2, <1>3, <1>5, <1>6, <1>7, <1>8 DEF FramesInv, Written

\* Every step of either format.
LEMMA FramesStepInv ==
  ASSUME FramesInv, [RenderNext]_renderVars
  PROVE  FramesInv'
<1>1. CASE UNCHANGED renderVars
  <2>1. UNCHANGED <<collection, format, to_string, fam, stage, os, reserved>>
    BY <1>1 DEF renderVars
  <2> QED BY <2>1 DEF FramesInv, Written
<1>2. CASE RenderNext
  <2>1. UNCHANGED <<collection, format, to_string, reserved>>
    BY <1>2 DEF RenderNext
  <2>2. CASE format # "fmt_proto"
    BY <2>1, <2>2 DEF FramesInv
  <2>3. CASE format = "fmt_proto"
    <3>1. stage \in {"family", "returned"}
      BY <2>3 DEF FramesInv
    <3>2. WriteFrame \/ Return
      BY <1>2, <2>3, <3>1
      DEF RenderNext, WriteHeader, WriteScalar,
          WriteSummary, WriteHistogram, WriteBucket,
          NextMetric, NextFamily
    <3>3. CASE WriteFrame
      BY <2>1, <3>3, WriteFrameFramesInv
    <3>4. CASE Return
      <4>1. fam > Len(collection) /\ stage' = "returned" /\ UNCHANGED <<fam, os>>
        BY <3>4 DEF Return
      <4>2. Len(collection) \in Nat
        BY LenProperties DEF FramesInv, IsSequence
      <4>3. fam = Len(collection) + 1
        BY <2>3, <4>1, <4>2 DEF FramesInv
      <4> QED BY <2>1, <4>1, <4>3 DEF FramesInv, Written
    <3> QED BY <3>2, <3>3, <3>4
  <2> QED BY <2>2, <2>3
<1> QED BY <1>1, <1>2

\* A string is reserved at the length that the frames turn out to have.
LEMMA ReservedExactly ==
  ASSUME FramesInv
  PROVE  calculate_proto_delimited_size(collection)
           = Written(Len(collection) + 1)
<1> DEFINE n == Len(collection)
           D == DOMAIN collection
           Part(i) == Len(Serialize(collection[i]))
                        + Len(Varint(Len(Serialize(collection[i]))))
           Size(i) == Len(Frame(collection[i]))
<1>1. D = 1..n /\ n \in Nat /\ \A i \in D : Serialize(collection[i]) \in Seq(Byte)
  BY LenProperties DEF FramesInv, IsSequence
<1>2. \A i \in D : Part(i) = Size(i)
  <2> SUFFICES ASSUME NEW i \in D PROVE Part(i) = Size(i)
    OBVIOUS
  <2> DEFINE s == Serialize(collection[i])
             v == Varint(Len(s))
  <2>1. Len(v) \in Nat /\ Len(s) \in Nat /\ Size(i) = Len(v) + Len(s)
    BY <1>1, FrameParts
  <2>2. Part(i) = Len(s) + Len(v)
    OBVIOUS
  <2> HIDE DEF s, v, Part, Size
  <2> QED BY <2>1, <2>2
<1>3. \A i \in D : i < n + 1
  BY <1>1
<1> HIDE DEF Part, Size, D
<1>4. [i \in D |-> Part(i)] = [i \in D |-> IF i < n + 1 THEN Size(i) ELSE 0]
  BY <1>2, <1>3
<1>5. calculate_proto_delimited_size(collection)
        = SumFunction([i \in D |-> Part(i)])
  BY DEF calculate_proto_delimited_size, D, Part
<1> QED BY <1>4, <1>5 DEF Written, D, Size

\* A reader of the delimited protobuf finds the messages of the collection,
\* whatever bytes they are of and however many each length takes, and the string
\* is reserved at its final size (output_formatter.cc:54-83).
THEOREM MessagesReadBack ==
  RenderSpec => []FramesReadBack
<1>1. RenderInit => FramesInv
  BY FramesInitInv
<1>2. FramesInv /\ [RenderNext]_renderVars => FramesInv'
  BY FramesStepInv
<1>3. FramesInv => FramesReadBack
  <2> SUFFICES ASSUME FramesInv, stage = "returned", format = "fmt_proto"
               PROVE  /\ ReadFrames(os)
                           = [i \in DOMAIN collection |-> Serialize(collection[i])]
                      /\ to_string => Len(os) = reserved
    BY DEF FramesReadBack
  <2>1. /\ fam = Len(collection) + 1 /\ os \in Seq(Byte)
        /\ Len(os) = Written(fam)
        /\ \E start : InFrames(os, collection, fam - 1, start)
        /\ to_string => reserved = calculate_proto_delimited_size(collection)
    BY DEF FramesInv
  <2>2. /\ IsSequence(collection)
        /\ \A i \in DOMAIN collection : Serialize(collection[i]) \in Seq(Byte)
    BY DEF FramesInv
  <2>3. fam - 1 = Len(collection)
    BY <2>1, <2>2, LenProperties DEF IsSequence
  <2>4. PICK start : InFrames(os, collection, Len(collection), start)
    BY <2>1, <2>3
  <2>5. ReadFrames(os) = [i \in DOMAIN collection |-> Serialize(collection[i])]
    BY <2>1, <2>2, <2>4, StreamReadBack
  <2> QED BY <2>1, <2>5, ReservedExactly
<1> QED BY <1>1, <1>2, <1>3, PTL DEF RenderSpec

-----------------------------------------------------------------------------
(* Sequences of anything, as the characters of a text are. *)

Single(c) == <<c>>
Two(c, d) == <<c, d>>

\* A sequence is the function of its elements.
LEMMA Elements ==
  ASSUME NEW s, IsSequence(s)
  PROVE  Len(s) \in Nat /\ DOMAIN s = 1..Len(s) /\ s = [i \in 1..Len(s) |-> s[i]]
<1>1. s \in Seq(ToSet(s))
  BY DEF IsSequence
<1> QED BY <1>1, LenProperties

\* A function on 1..n is a sequence.
LEMMA Listed ==
  ASSUME NEW n \in Nat, NEW s, s = [i \in 1..n |-> s[i]]
  PROVE  IsSequence(s) /\ Len(s) = n /\ DOMAIN s = 1..n
<1>1. DOMAIN s = 1..n
  OBVIOUS
<1>2. s \in [1..n -> ToSet(s)]
  BY <1>1 DEF ToSet
<1>3. s \in Seq(ToSet(s))
  BY <1>2
<1>4. DOMAIN s = 1..Len(s) /\ Len(s) \in Nat
  BY <1>3, LenProperties
<1> QED BY <1>1, <1>3, <1>4 DEF IsSequence

\* A sequence over some set is one over its own elements.
LEMMA Typed ==
  ASSUME NEW S, NEW s \in Seq(S)
  PROVE  IsSequence(s)
<1>1. /\ Len(s) \in Nat /\ s \in [1..Len(s) -> S]
  BY LenProperties
<1>2. s = [i \in 1..Len(s) |-> s[i]]
  BY <1>1
<1> QED BY <1>1, <1>2, Listed

\* A sequence over the elements it has is one over any set that has them.
LEMMA Widened ==
  ASSUME NEW s, IsSequence(s), NEW S, ToSet(s) \subseteq S
  PROVE  s \in Seq(S)
BY SeqMonotonic DEF IsSequence

\* The elements of two sequences, one after the other.
LEMMA Joined ==
  ASSUME NEW s, IsSequence(s), NEW t, IsSequence(t)
  PROVE  /\ IsSequence(s \o t)
         /\ Len(s \o t) = Len(s) + Len(t)
         /\ \A i \in 1..Len(s) : (s \o t)[i] = s[i]
         /\ \A i \in 1..Len(t) : (s \o t)[Len(s) + i] = t[i]
<1> DEFINE S == ToSet(s) \union ToSet(t)
<1>1. s \in Seq(S) /\ t \in Seq(S)
  BY Widened
<1> HIDE DEF S
<1>2. /\ s \o t \in Seq(S)
      /\ Len(s \o t) = Len(s) + Len(t)
      /\ \A i \in 1 .. Len(s) + Len(t) : (s \o t)[i] =
           IF i <= Len(s) THEN s[i] ELSE t[i - Len(s)]
  BY <1>1, ConcatProperties
<1>3. IsSequence(s \o t)
  BY <1>2, Typed
<1>4. Len(s) \in Nat /\ Len(t) \in Nat
  BY Elements
<1>5. ASSUME NEW i \in 1..Len(t)
      PROVE  (s \o t)[Len(s) + i] = t[i]
  <2>1. /\ Len(s) + i \in 1 .. Len(s) + Len(t) /\ ~(Len(s) + i <= Len(s))
        /\ Len(s) + i - Len(s) = i
    BY <1>4
  <2> QED BY <1>2, <2>1
<1>6. ASSUME NEW i \in 1..Len(s)
      PROVE  (s \o t)[i] = s[i]
  BY <1>2, <1>4
<1> QED BY <1>2, <1>3, <1>5, <1>6

\* Sequences of the same elements are the same.
LEMMA SameElements ==
  ASSUME NEW s, IsSequence(s), NEW t, IsSequence(t), Len(s) = Len(t),
         \A i \in 1..Len(s) : s[i] = t[i]
  PROVE  s = t
BY Elements

\* Nothing before or after a sequence.
LEMMA JoinedEmpty ==
  ASSUME NEW s, IsSequence(s)
  PROVE  IsSequence(<<>>) /\ s \o <<>> = s /\ <<>> \o s = s
<1>1. s \in Seq(ToSet(s))
  BY DEF IsSequence
<1>2. <<>> \in Seq({})
  OBVIOUS
<1> QED BY <1>1, <1>2, ConcatEmptySeq, Typed

\* Concatenation is associative.
LEMMA JoinedThrice ==
  ASSUME NEW s, IsSequence(s), NEW t, IsSequence(t), NEW u, IsSequence(u)
  PROVE  (s \o t) \o u = s \o (t \o u)
<1> DEFINE S == ToSet(s) \union ToSet(t) \union ToSet(u)
<1>1. s \in Seq(S) /\ t \in Seq(S) /\ u \in Seq(S)
  BY Widened
<1> HIDE DEF S
<1> QED BY <1>1, ConcatAssociative

\* The elements of a sequence and one more.
LEMMA Appended ==
  ASSUME NEW s, IsSequence(s), NEW x
  PROVE  /\ IsSequence(Append(s, x))
         /\ Len(Append(s, x)) = Len(s) + 1
         /\ Append(s, x) = s \o Single(x)
         /\ \A i \in 1..Len(s) : Append(s, x)[i] = s[i]
         /\ Append(s, x)[Len(s) + 1] = x
<1> DEFINE S == ToSet(s) \union {x}
<1>1. s \in Seq(S) /\ x \in S
  BY Widened
<1> HIDE DEF S
<1>2. /\ Append(s, x) \in Seq(S)
      /\ Len(Append(s, x)) = Len(s) + 1
      /\ \A i \in 1..Len(s) : Append(s, x)[i] = s[i]
      /\ Append(s, x)[Len(s) + 1] = x
  BY <1>1, AppendProperties
<1>3. Append(s, x) = s \o Single(x)
  BY <1>1, AppendIsConcat DEF Single
<1> QED BY <1>2, <1>3, Typed

\* A text of one character.
LEMMA OneCharacter ==
  ASSUME NEW x
  PROVE  IsSequence(Single(x)) /\ Len(Single(x)) = 1 /\ Single(x)[1] = x
<1>1. <<x>> \in Seq({x}) /\ Len(<<x>>) = 1 /\ <<x>>[1] = x
  OBVIOUS
<1> QED BY <1>1, Typed DEF Single

\* A text of two characters.
LEMMA TwoCharacters ==
  ASSUME NEW x, NEW y
  PROVE  IsSequence(Two(x, y)) /\ Two(x, y) = Single(x) \o Single(y)
<1> DEFINE a == Single(x)
           b == Single(y)
           p == Two(x, y)
<1>1. p \in Seq({x, y}) /\ Len(p) = 2 /\ p[1] = x /\ p[2] = y
  BY DEF Two
<1>2. IsSequence(a) /\ Len(a) = 1 /\ a[1] = x /\ IsSequence(b) /\ Len(b) = 1 /\ b[1] = y
  BY OneCharacter
<1> HIDE DEF a, b, p
<1>3. /\ IsSequence(a \o b) /\ Len(a \o b) = 2
      /\ (a \o b)[1] = x /\ (a \o b)[2] = y
  <2>1. /\ IsSequence(a \o b) /\ Len(a \o b) = Len(a) + Len(b)
        /\ \A i \in 1..Len(a) : (a \o b)[i] = a[i]
        /\ \A i \in 1..Len(b) : (a \o b)[Len(a) + i] = b[i]
    <3>1. IsSequence(a) /\ IsSequence(b)
      BY <1>2
    <3> QED BY ONLY <3>1, Joined
  <2>2. 1 \in 1..1 /\ 1 + 1 = 2
    OBVIOUS
  <2> QED BY <1>2, <2>1, <2>2
<1>4. IsSequence(p)
  BY <1>1, Typed
<1>5. \A i \in 1..Len(p) : i = 1 \/ i = 2
  BY <1>1
<1>6. p = a \o b
  BY <1>1, <1>3, <1>4, <1>5, SameElements
<1> QED BY <1>4, <1>6 DEF a, b, p

\* Two characters after a text, at once or one after the other.
LEMMA JoinedTwo ==
  ASSUME NEW s, IsSequence(s), NEW x, NEW y
  PROVE  IsSequence(s \o Single(x)) /\ (s \o Single(x)) \o Single(y) = s \o Two(x, y)
<1>1. IsSequence(Single(x)) /\ IsSequence(Single(y)) /\ Two(x, y) = Single(x) \o Single(y)
  BY OneCharacter, TwoCharacters
<1>2. IsSequence(s \o Single(x))
  BY <1>1, Joined
<1>3. (s \o Single(x)) \o Single(y) = s \o (Single(x) \o Single(y))
  BY <1>1, JoinedThrice
<1> QED BY <1>1, <1>2, <1>3

-----------------------------------------------------------------------------
(* FlattenSeq, one piece more at a time. *)

\* The function that FlattenSeq defines exists.
LEMMA FlattenExists ==
  ASSUME NEW f, NEW n \in Nat
  PROVE  \E h : h = [i \in 1..n |-> IF i = 1 THEN f[i] ELSE h[i - 1] \o f[i]]
<1> DEFINE Good(h, k) == h = [i \in 1..k |-> IF i = 1 THEN f[i] ELSE h[i - 1] \o f[i]]
           T == {k \in Nat : \E h : Good(h, k)}
<1>1. 0 \in T
  <2>1. Good([i \in 1..0 |-> i], 0)
    BY \A i \in 1..0 : FALSE
  <2> HIDE DEF Good
  <2> QED BY <2>1
<1>2. ASSUME NEW k \in Nat, k \in T
      PROVE  k + 1 \in T
  <2>1. PICK h : Good(h, k)
    BY <1>2
  <2> DEFINE e == [i \in 1..(k + 1) |->
                     IF i = 1 THEN f[i]
                     ELSE IF i = k + 1 THEN h[k] \o f[i] ELSE h[i]]
  <2>2. \A i \in 1..k : e[i] = h[i]
    <3> SUFFICES ASSUME NEW i \in 1..k PROVE e[i] = h[i]
      OBVIOUS
    <3>1. i \in 1..(k + 1) /\ i # k + 1
      OBVIOUS
    <3>2. h[i] = IF i = 1 THEN f[i] ELSE h[i - 1] \o f[i]
      BY <2>1
    <3> QED BY <3>1, <3>2
  <2>3. \A i \in 1..(k + 1) : e[i] = IF i = 1 THEN f[i] ELSE e[i - 1] \o f[i]
    <3> SUFFICES ASSUME NEW i \in 1..(k + 1), i # 1
                 PROVE  e[i] = e[i - 1] \o f[i]
      OBVIOUS
    <3>1. i - 1 \in 1..k
      OBVIOUS
    <3>2. e[i - 1] = h[i - 1]
      BY <2>2, <3>1
    <3>3. CASE i = k + 1
      <4>1. i - 1 = k
        BY <3>3
      <4>2. i = k + 1 /\ i # 1 /\ i \in 1..(k + 1)
        BY <3>3
      <4>3. e[i] = h[k] \o f[i]
        BY <4>2, Zenon
      <4> QED BY <3>2, <4>1, <4>3, <2>2, <3>1
    <3>4. CASE i # k + 1
      <4>1. i \in 1..k
        BY <3>4
      <4>2. h[i] = h[i - 1] \o f[i]
        BY <2>1, <4>1
      <4> QED BY <2>2, <3>2, <4>1, <4>2
    <3> QED BY <3>3, <3>4
  <2>4. e = [i \in 1..(k + 1) |-> e[i]]
    OBVIOUS
  <2> HIDE DEF e
  <2>5. Good(e, k + 1)
    BY <2>3, <2>4
  <2> HIDE DEF Good
  <2> QED BY <2>5
<1> HIDE DEF T
<1>3. n \in T
  BY <1>1, <1>2, NumberInduction
<1> QED BY <1>3 DEF T

\* FlattenSeq of n pieces, n not 0.
LEMMA FlattenValue ==
  ASSUME NEW f, NEW n \in Nat \ {0}, f = [i \in 1..n |-> f[i]]
  PROVE  \E h : /\ h = [i \in 1..n |-> IF i = 1 THEN f[i] ELSE h[i - 1] \o f[i]]
                /\ FlattenSeq(f) = h[n]
<1>1. Len(f) = n
  BY Listed
<1>2. \E h : h = [i \in 1..n |-> IF i = 1 THEN f[i] ELSE h[i - 1] \o f[i]]
  BY FlattenExists
<1>3. FlattenSeq(f) =
        LET flatten[i \in 1..n] == IF i = 1 THEN f[i] ELSE flatten[i - 1] \o f[i]
        IN  flatten[n]
  BY <1>1 DEF FlattenSeq
<1> QED BY <1>2, <1>3, Zenon

\* Nothing to flatten.
LEMMA FlattenNone == FlattenSeq(<<>>) = <<>>
BY DEF FlattenSeq

\* One more sequence to flatten comes last.
LEMMA FlattenNext ==
  ASSUME NEW n \in Nat,
         NEW f, f = [i \in 1..n |-> f[i]],
         NEW g, g = [i \in 1..(n + 1) |-> g[i]],
         \A i \in 1..n : g[i] = f[i], IsSequence(g[1])
  PROVE  FlattenSeq(g) = FlattenSeq(f) \o g[n + 1]
<1>1. PICK hg : /\ hg = [i \in 1..(n + 1) |-> IF i = 1 THEN g[i] ELSE hg[i - 1] \o g[i]]
                /\ FlattenSeq(g) = hg[n + 1]
  <2>1. n + 1 \in Nat \ {0}
    OBVIOUS
  <2> QED BY <2>1, FlattenValue, Zenon
<1>2. CASE n = 0
  <2>1. FlattenSeq(f) = <<>>
    <3>1. f = <<>>
      BY <1>2
    <3> QED BY <3>1, FlattenNone
  <2>2. hg[1] = g[1]
    BY <1>1, <1>2
  <2>3. FlattenSeq(g) = g[1] /\ n + 1 = 1
    BY <1>1, <1>2, <2>2
  <2> QED BY <2>1, <2>3, JoinedEmpty
<1>3. CASE n # 0
  <2>1. PICK hf : /\ hf = [i \in 1..n |-> IF i = 1 THEN f[i] ELSE hf[i - 1] \o f[i]]
                  /\ FlattenSeq(f) = hf[n]
    BY <1>3, FlattenValue
  <2> DEFINE T == {k \in Nat : k \in 1..n => hg[k] = hf[k]}
  <2>2. 0 \in T
    OBVIOUS
  <2>3. ASSUME NEW k \in Nat, k \in T
        PROVE  k + 1 \in T
    <3> SUFFICES ASSUME k + 1 \in 1..n PROVE hg[k + 1] = hf[k + 1]
      OBVIOUS
    <3>1. /\ hg[k + 1] = IF k + 1 = 1 THEN g[k + 1] ELSE hg[k] \o g[k + 1]
          /\ hf[k + 1] = IF k + 1 = 1 THEN f[k + 1] ELSE hf[k] \o f[k + 1]
      <4>1. k + 1 \in 1..(n + 1) /\ (k + 1) - 1 = k
        OBVIOUS
      <4> QED BY <1>1, <2>1, <4>1, ZenonT(60)
    <3>2. k # 0 => hg[k] = hf[k]
      BY <2>3
    <3>3. k + 1 = 1 <=> k = 0
      OBVIOUS
    <3>4. g[k + 1] = f[k + 1]
      OBVIOUS
    <3> QED BY <3>1, <3>2, <3>3, <3>4
  <2> HIDE DEF T
  <2>4. n \in T
    BY <2>2, <2>3, NumberInduction
  <2>5. hg[n] = hf[n]
    BY <1>3, <2>4 DEF T
  <2>6. hg[n + 1] = hg[n] \o g[n + 1]
    <3>1. n + 1 \in 1..(n + 1) /\ n + 1 # 1 /\ (n + 1) - 1 = n
      BY <1>3
    <3> QED BY <1>1, <3>1
  <2> QED BY <1>1, <2>1, <2>5, <2>6
<1> QED BY <1>2, <1>3

\* The pieces of a longer list begin with those of a shorter one.
LEMMA FlattenSequence ==
  ASSUME NEW n \in Nat, NEW f, f = [i \in 1..n |-> f[i]],
         \A i \in 1..n : IsSequence(f[i])
  PROVE  IsSequence(FlattenSeq(f))
<1>1. CASE n = 0
  <2>1. f = <<>>
    BY <1>1
  <2>2. <<>> = [i \in 1..0 |-> <<>>[i]]
    OBVIOUS
  <2> QED BY <2>1, FlattenNone, Typed, <<>> \in Seq({})
<1>2. CASE n # 0
  <2>1. PICK h : /\ h = [i \in 1..n |-> IF i = 1 THEN f[i] ELSE h[i - 1] \o f[i]]
                 /\ FlattenSeq(f) = h[n]
    BY <1>2, FlattenValue
  <2> DEFINE T == {k \in Nat : k \in 1..n => IsSequence(h[k])}
  <2>2. 0 \in T
    OBVIOUS
  <2>3. ASSUME NEW k \in Nat, k \in T
        PROVE  k + 1 \in T
    <3> SUFFICES ASSUME k + 1 \in 1..n PROVE IsSequence(h[k + 1])
      OBVIOUS
    <3>1. h[k + 1] = IF k + 1 = 1 THEN f[k + 1] ELSE h[k] \o f[k + 1]
      <4>1. (k + 1) - 1 = k
        OBVIOUS
      <4> QED BY <2>1, <4>1
    <3>2. k # 0 => IsSequence(h[k])
      BY <2>3
    <3>3. k + 1 = 1 <=> k = 0
      OBVIOUS
    <3>4. IsSequence(f[k + 1])
      OBVIOUS
    <3> QED BY <3>1, <3>2, <3>3, <3>4, Joined
  <2> HIDE DEF T
  <2>4. n \in T
    BY <2>2, <2>3, NumberInduction
  <2>5. IsSequence(h[n])
    BY <1>2, <2>4 DEF T
  <2> QED BY <2>1, <2>5
<1> QED BY <1>1, <1>2

-----------------------------------------------------------------------------
(* A reader goes through a text one character at a time. *)

\* The states of a reader that is at r, before and after each character.
Reading(after, r, chars, n) ==
  after = [i \in 0..n |-> IF i = 0 THEN r ELSE ReadChar(after[i - 1], chars[i])]

\* The states of a reader, one character after the other, are a function.
LEMMA ReadingExists ==
  ASSUME NEW r, NEW chars, NEW n \in Nat
  PROVE  \E h : Reading(h, r, chars, n)
<1> DEFINE T == {k \in Nat : \E h : Reading(h, r, chars, k)}
<1>1. 0 \in T
  <2> DEFINE e == [i \in 0..0 |-> r]
  <2>1. \A i \in 0..0 : i = 0 /\ e[i] = r
    OBVIOUS
  <2>2. e = [i \in 0..0 |-> e[i]]
    OBVIOUS
  <2> HIDE DEF e
  <2>3. e = [i \in 0..0 |-> IF i = 0 THEN r ELSE ReadChar(e[i - 1], chars[i])]
    BY <2>1, <2>2
  <2>4. Reading(e, r, chars, 0)
    BY <2>3, Zenon DEF Reading
  <2> QED BY <2>4
<1>2. ASSUME NEW k \in Nat, k \in T
      PROVE  k + 1 \in T
  <2>1. PICK h : Reading(h, r, chars, k)
    BY <1>2
  <2>2. \A i \in 0..k : h[i] = IF i = 0 THEN r ELSE ReadChar(h[i - 1], chars[i])
    BY <2>1 DEF Reading
  <2> DEFINE e == [i \in 0..(k + 1) |->
                     IF i = k + 1 THEN ReadChar(h[k], chars[i]) ELSE h[i]]
  <2>3. \A i \in 0..(k + 1) : e[i] = IF i = k + 1 THEN ReadChar(h[k], chars[i]) ELSE h[i]
    BY Zenon
  <2>4. e = [i \in 0..(k + 1) |-> e[i]]
    OBVIOUS
  <2> HIDE DEF e
  <2>5. \A i \in 0..(k + 1) : e[i] = IF i = 0 THEN r ELSE ReadChar(e[i - 1], chars[i])
    <3> SUFFICES ASSUME NEW i \in 0..(k + 1)
                 PROVE  e[i] = IF i = 0 THEN r ELSE ReadChar(e[i - 1], chars[i])
      OBVIOUS
    <3>1. CASE i = 0
      <4>1. 0 \in 0..(k + 1) /\ 0 \in 0..k /\ 0 # k + 1
        OBVIOUS
      <4> QED BY <2>2, <2>3, <3>1, <4>1
    <3>2. CASE i # 0
      <4>1. i - 1 \in 0..k /\ i - 1 \in 0..(k + 1) /\ i - 1 # k + 1
        BY <3>2
      <4>2. e[i - 1] = h[i - 1]
        BY <2>3, <4>1
      <4>3. CASE i = k + 1
        <5>1. i - 1 = k
          BY <4>3
        <5> QED BY <2>3, <3>2, <4>2, <4>3, <5>1
      <4>4. CASE i # k + 1
        <5>1. i \in 0..k
          BY <4>4
        <5>2. h[i] = ReadChar(h[i - 1], chars[i])
          BY <2>2, <3>2, <5>1
        <5> QED BY <2>3, <3>2, <4>2, <4>4, <5>2
      <4> QED BY <4>3, <4>4
    <3> QED BY <3>1, <3>2
  <2>6. e = [i \in 0..(k + 1) |-> IF i = 0 THEN r ELSE ReadChar(e[i - 1], chars[i])]
    BY <2>4, <2>5
  <2>7. Reading(e, r, chars, k + 1)
    BY <2>6, Zenon DEF Reading
  <2> QED BY <2>7
<1> HIDE DEF T
<1>3. n \in T
  BY <1>1, <1>2, NumberInduction
<1> QED BY <1>3 DEF T

\* Where a reader is after some characters, from such a function.
LEMMA ReadOnUnfolds ==
  ASSUME NEW r, NEW chars, IsSequence(chars)
  PROVE  \E h : /\ h[0] = r
                /\ \A i \in 1..Len(chars) : h[i] = ReadChar(h[i - 1], chars[i])
                /\ ReadOn(r, chars) = h[Len(chars)]
<1>1. Len(chars) \in Nat
  BY Elements
<1>2. \E h : h = [i \in 0..Len(chars) |->
                    IF i = 0 THEN r ELSE ReadChar(h[i - 1], chars[i])]
  <2>1. \E h : Reading(h, r, chars, Len(chars))
    BY <1>1, ReadingExists
  <2> QED BY <2>1, Zenon DEF Reading
<1>3. PICK h : /\ h = [i \in 0..Len(chars) |->
                         IF i = 0 THEN r ELSE ReadChar(h[i - 1], chars[i])]
               /\ ReadOn(r, chars) = h[Len(chars)]
  BY <1>2, Zenon DEF ReadOn
<1>4. h[0] = r
  BY <1>1, <1>3
<1>5. \A i \in 1..Len(chars) : h[i] = ReadChar(h[i - 1], chars[i])
  <2> SUFFICES ASSUME NEW i \in 1..Len(chars) PROVE h[i] = ReadChar(h[i - 1], chars[i])
    OBVIOUS
  <2>1. i \in 0..Len(chars) /\ i # 0
    BY <1>1
  <2> QED BY <1>3, <2>1
<1> QED BY <1>3, <1>4, <1>5

\* A reader of no character stays where it is.
LEMMA ReadNothing ==
  ASSUME NEW r PROVE ReadOn(r, <<>>) = r
<1>1. IsSequence(<<>>) /\ Len(<<>>) = 0
  BY Typed, <<>> \in Seq({})
<1> QED BY <1>1, ReadOnUnfolds

\* A reader of one character.
LEMMA ReadOne ==
  ASSUME NEW r, NEW c PROVE ReadOn(r, Single(c)) = ReadChar(r, c)
<1>1. IsSequence(Single(c)) /\ Len(Single(c)) = 1 /\ Single(c)[1] = c
  BY OneCharacter
<1>2. PICK h : /\ h[0] = r
               /\ \A i \in 1..1 : h[i] = ReadChar(h[i - 1], Single(c)[i])
               /\ ReadOn(r, Single(c)) = h[1]
  BY <1>1, ReadOnUnfolds
<1>3. 1 \in 1..1 /\ 1 - 1 = 0
  OBVIOUS
<1>4. h[1] = ReadChar(h[0], Single(c)[1])
  BY <1>2, <1>3
<1> QED BY <1>1, <1>2, <1>4

\* To read two texts in a row is to read the one, then the other.
LEMMA ReadJoined ==
  ASSUME NEW r, NEW s, IsSequence(s), NEW t, IsSequence(t)
  PROVE  ReadOn(r, s \o t) = ReadOn(ReadOn(r, s), t)
<1>0. Len(s) \in Nat /\ Len(t) \in Nat
  BY Elements
<1>1. /\ IsSequence(s \o t) /\ Len(s \o t) = Len(s) + Len(t)
      /\ \A i \in 1..Len(s) : (s \o t)[i] = s[i]
      /\ \A i \in 1..Len(t) : (s \o t)[Len(s) + i] = t[i]
  BY Joined
<1> DEFINE st == s \o t
<1>2. PICK h : /\ h[0] = r
               /\ \A i \in 1..Len(st) : h[i] = ReadChar(h[i - 1], st[i])
               /\ ReadOn(r, st) = h[Len(st)]
  <2>1. IsSequence(st)
    BY <1>1
  <2> HIDE DEF st
  <2> QED BY <2>1, ReadOnUnfolds
<1>3. PICK g : /\ g[0] = r
               /\ \A i \in 1..Len(s) : g[i] = ReadChar(g[i - 1], s[i])
               /\ ReadOn(r, s) = g[Len(s)]
  BY ReadOnUnfolds
<1>4. PICK k : /\ k[0] = ReadOn(r, s)
               /\ \A i \in 1..Len(t) : k[i] = ReadChar(k[i - 1], t[i])
               /\ ReadOn(ReadOn(r, s), t) = k[Len(t)]
  BY ReadOnUnfolds
<1> DEFINE T == {i \in Nat : i <= Len(s) => h[i] = g[i]}
<1>5. 0 \in T
  BY <1>2, <1>3
<1>6. ASSUME NEW i \in Nat, i \in T
      PROVE  i + 1 \in T
  <2> SUFFICES ASSUME i + 1 <= Len(s) PROVE h[i + 1] = g[i + 1]
    OBVIOUS
  <2>1. i + 1 \in 1..Len(s) /\ i + 1 \in 1..Len(st) /\ (i + 1) - 1 = i /\ i <= Len(s)
    BY <1>0, <1>1
  <2>2. h[i + 1] = ReadChar(h[i], st[i + 1]) /\ g[i + 1] = ReadChar(g[i], s[i + 1])
    BY <1>2, <1>3, <2>1
  <2>3. st[i + 1] = s[i + 1]
    BY <1>1, <2>1
  <2>4. h[i] = g[i]
    BY <1>6, <2>1
  <2> QED BY <2>2, <2>3, <2>4
<1>7. h[Len(s)] = g[Len(s)]
  <2> HIDE DEF T
  <2>1. Len(s) \in T
    BY <1>0, <1>5, <1>6, NumberInduction
  <2> QED BY <1>0, <2>1 DEF T
<1> DEFINE U == {i \in Nat : i <= Len(t) => h[Len(s) + i] = k[i]}
<1>8. 0 \in U
  <2>1. Len(s) + 0 = Len(s)
    BY <1>0
  <2> QED BY <1>3, <1>4, <1>7, <2>1
<1>9. ASSUME NEW i \in Nat, i \in U
      PROVE  i + 1 \in U
  <2> SUFFICES ASSUME i + 1 <= Len(t) PROVE h[Len(s) + (i + 1)] = k[i + 1]
    OBVIOUS
  <2>1. /\ i + 1 \in 1..Len(t) /\ Len(s) + (i + 1) \in 1..Len(st)
        /\ (i + 1) - 1 = i /\ (Len(s) + (i + 1)) - 1 = Len(s) + i /\ i <= Len(t)
    BY <1>0, <1>1
  <2>2. h[Len(s) + (i + 1)] = ReadChar(h[Len(s) + i], st[Len(s) + (i + 1)])
    BY <1>2, <2>1
  <2>3. k[i + 1] = ReadChar(k[i], t[i + 1])
    BY <1>4, <2>1
  <2>4. st[Len(s) + (i + 1)] = t[i + 1]
    BY <1>1, <2>1
  <2>5. h[Len(s) + i] = k[i]
    BY <1>9, <2>1
  <2> QED BY <2>2, <2>3, <2>4, <2>5
<1>10. h[Len(s) + Len(t)] = k[Len(t)]
  <2> HIDE DEF U
  <2>1. Len(t) \in U
    BY <1>0, <1>8, <1>9, NumberInduction
  <2> QED BY <1>0, <2>1 DEF U
<1> QED BY <1>1, <1>2, <1>4, <1>10

-----------------------------------------------------------------------------
(* One character. *)

\* The characters of the format are different, and the others words.
LEMMA Marks ==
  /\ Backslash \notin {Quote, Newline, LetterN}
  /\ Quote \notin {Newline, LetterN} /\ Newline # LetterN
  /\ {Help, Type, Equals} \intersect {Backslash, Quote, Newline} = {}
  /\ Equals \notin {Help, Type} /\ Type # Help
  /\ \A c \in {Comma, Open, Close, le} : IsWord(c)
<1> DEFINE m == <<Backslash, Quote, Newline, LetterN, Comma, Help, Type, Open,
                  Close, Equals, le>>
<1>1. /\ DOMAIN m = 1..11
      /\ m[1] = Backslash /\ m[2] = Quote /\ m[3] = Newline /\ m[4] = LetterN
      /\ m[5] = Comma /\ m[6] = Help /\ m[7] = Type /\ m[8] = Open
      /\ m[9] = Close /\ m[10] = Equals /\ m[11] = le
  OBVIOUS
<1>2. IsInjective(m)
  BY TextAssumption
<1> HIDE DEF m
<1>3. \A a, b \in 1..11 : m[a] = m[b] => a = b
  BY <1>1, <1>2 DEF IsInjective
<1> QED BY <1>1, <1>3 DEF IsWord

\* The states of a reader, and that after a backslash.
At(lines, line, mode, text) ==
  [lines |-> lines, line |-> line, mode |-> mode, text |-> text, escaped |-> FALSE]
Escaping(lines, line, mode, text) ==
  [lines |-> lines, line |-> line, mode |-> mode, text |-> text, escaped |-> TRUE]

\* The character after a backslash is text, or stands for a newline.
LEMMA ReadAfterBackslash ==
  ASSUME NEW lines, NEW line, NEW mode, NEW text, NEW c
  PROVE  ReadChar(Escaping(lines, line, mode, text), c)
           = At(lines, line, mode,
                Append(text, IF c = LetterN THEN Newline ELSE c))
BY DEF At, Escaping, ReadChar

\* A newline ends the line, and a help text with it.
LEMMA ReadNewline ==
  ASSUME NEW lines, NEW line, NEW mode, NEW text
  PROVE  ReadChar(At(lines, line, mode, text), Newline)
           = At(Append(lines, IF mode = "help" THEN Append(line, text) ELSE line),
                <<>>, "line", <<>>)
BY Marks DEF At, Escaping, ReadChar, ReadStart

\* A backslash in a text waits for the next character.
LEMMA ReadBackslash ==
  ASSUME NEW lines, NEW line, NEW mode \in {"help", "quoted"}, NEW text
  PROVE  ReadChar(At(lines, line, mode, text), Backslash)
           = Escaping(lines, line, mode, text)
BY Marks DEF At, Escaping, ReadChar

\* A quote begins a label value or ends it.
LEMMA ReadQuote ==
  ASSUME NEW lines, NEW line, NEW text
  PROVE  /\ ReadChar(At(lines, line, "line", text), Quote)
              = At(lines, line, "quoted", <<>>)
         /\ ReadChar(At(lines, line, "quoted", text), Quote)
              = At(lines, Append(line, text), "line", text)
BY Marks DEF At, Escaping, ReadChar

\* Any other character of a text is itself.
LEMMA ReadText ==
  ASSUME NEW lines, NEW line, NEW mode, NEW text, NEW c,
         \/ mode = "help" /\ c \notin {Backslash, Newline}
         \/ mode = "quoted" /\ c \notin {Backslash, Newline, Quote}
  PROVE  ReadChar(At(lines, line, mode, text), c)
           = At(lines, line, mode, Append(text, c))
BY Marks DEF At, Escaping, ReadChar

\* A character of a line that begins no text.
LEMMA ReadToken ==
  ASSUME NEW lines, NEW line, NEW text, NEW c, c \notin {Quote, Newline}
  PROVE  ReadChar(At(lines, line, "line", text), c)
           = At(lines, Append(line, c), IF c = Help THEN "name" ELSE "line", text)
BY DEF At, Escaping, ReadChar

\* The name after HELP; the help text follows it.
LEMMA ReadName ==
  ASSUME NEW lines, NEW line, NEW text, NEW c, c # Newline
  PROVE  ReadChar(At(lines, line, "name", text), c)
           = At(lines, Append(line, c), "help", text)
BY DEF At, Escaping, ReadChar

-----------------------------------------------------------------------------
(* The escape functions, one character at a time. *)

\* The first n characters of a text.
Start(s, n) == [i \in 1..n |-> s[i]]

\* The beginnings of a text grow by a character at a time.
LEMMA StartGrows ==
  ASSUME NEW s, IsSequence(s)
  PROVE  /\ Start(s, 0) = <<>>
         /\ Start(s, Len(s)) = s
         /\ \A n \in Nat : IsSequence(Start(s, n)) /\ Len(Start(s, n)) = n
         /\ \A n \in Nat : Start(s, n + 1) = Append(Start(s, n), s[n + 1])
<1>1. Len(s) \in Nat /\ s = [i \in 1..Len(s) |-> s[i]]
  BY Elements
<1>2. Start(s, 0) = <<>>
  BY DEF Start
<1>3. \A n \in Nat : \A i \in 1..n : Start(s, n)[i] = s[i]
  BY DEF Start
<1>4. ASSUME NEW n \in Nat
      PROVE  IsSequence(Start(s, n)) /\ Len(Start(s, n)) = n
  <2>1. Start(s, n) = [i \in 1..n |-> Start(s, n)[i]]
    BY DEF Start
  <2> QED BY <2>1, Listed
<1>5. ASSUME NEW n \in Nat
      PROVE  Start(s, n + 1) = Append(Start(s, n), s[n + 1])
  <2> DEFINE a == Append(Start(s, n), s[n + 1])
  <2>0. IsSequence(Start(s, n)) /\ Len(Start(s, n)) = n
    BY <1>4
  <2>1. /\ IsSequence(a) /\ Len(a) = n + 1 /\ a[n + 1] = s[n + 1]
        /\ \A i \in 1..n : a[i] = Start(s, n)[i]
    <3> DEFINE b == Start(s, n)
    <3>1. /\ IsSequence(Append(b, s[n + 1]))
          /\ Len(Append(b, s[n + 1])) = Len(b) + 1
          /\ \A i \in 1..Len(b) : Append(b, s[n + 1])[i] = b[i]
          /\ Append(b, s[n + 1])[Len(b) + 1] = s[n + 1]
      <4> HIDE DEF b
      <4>1. IsSequence(b)
        BY <2>0 DEF b
      <4> QED BY <4>1, Appended
    <3>2. Len(b) = n
      BY <2>0
    <3> HIDE DEF b
    <3> QED BY <3>1, <3>2 DEF b
  <2>2. a = [i \in 1..(n + 1) |-> a[i]]
    BY <2>1, Elements
  <2> HIDE DEF a
  <2>3. \A i \in 1..(n + 1) : a[i] = s[i]
    BY <1>3, <2>1
  <2>4. a = [i \in 1..(n + 1) |-> s[i]]
    BY <2>2, <2>3
  <2> QED BY <2>4 DEF Start, a
<1> QED BY <1>1, <1>2, <1>4, <1>5 DEF Start

\* Replacing goes through a text one character at a time.
LEMMA ReplaceNext ==
  ASSUME NEW s, IsSequence(s), NEW c, NEW new, IsSequence(new)
  PROVE  /\ findAndReplace(<<>>, c, new) = <<>>
         /\ IsSequence(findAndReplace(s, c, new))
         /\ \A x : findAndReplace(Append(s, x), c, new)
                     = findAndReplace(s, c, new) \o (IF x = c THEN new ELSE Single(x))
<1> DEFINE Pieces(t) == [i \in DOMAIN t |-> IF t[i] = c THEN new ELSE Single(t[i])]
<1>1. \A t : findAndReplace(t, c, new) = FlattenSeq(Pieces(t))
  BY DEF findAndReplace, Single
<1>2. findAndReplace(<<>>, c, new) = <<>>
  <2>1. Pieces(<<>>) = <<>>
    OBVIOUS
  <2> QED BY <1>1, <2>1, FlattenNone
<1>3. Len(s) \in Nat /\ DOMAIN s = 1..Len(s)
  BY Elements
<1>4. \A x : IsSequence(Single(x))
  BY OneCharacter
<1>5. /\ Pieces(s) = [i \in 1..Len(s) |-> Pieces(s)[i]]
      /\ \A i \in 1..Len(s) : IsSequence(Pieces(s)[i])
  BY <1>3, <1>4
<1>6. IsSequence(findAndReplace(s, c, new))
  <2> HIDE DEF Pieces
  <2>1. IsSequence(FlattenSeq(Pieces(s)))
    BY <1>3, <1>5, FlattenSequence
  <2> QED BY <1>1, <2>1
<1>7. ASSUME NEW x
      PROVE  findAndReplace(Append(s, x), c, new)
               = findAndReplace(s, c, new) \o (IF x = c THEN new ELSE Single(x))
  <2> DEFINE t == Append(s, x)
  <2>1. /\ IsSequence(t) /\ Len(t) = Len(s) + 1 /\ t[Len(s) + 1] = x
        /\ \A i \in 1..Len(s) : t[i] = s[i]
    BY Appended
  <2>2. DOMAIN t = 1..(Len(s) + 1)
    BY <2>1, Elements
  <2> HIDE DEF t
  <2>3. /\ Pieces(t) = [i \in 1..(Len(s) + 1) |-> Pieces(t)[i]]
        /\ \A i \in 1..(Len(s) + 1) :
             Pieces(t)[i] = IF t[i] = c THEN new ELSE Single(t[i])
    BY <2>2
  <2>4. \A i \in 1..Len(s) : Pieces(s)[i] = IF s[i] = c THEN new ELSE Single(s[i])
    BY <1>3
  <2> HIDE DEF Pieces
  <2>5. /\ \A i \in 1..Len(s) : Pieces(t)[i] = Pieces(s)[i]
        /\ Pieces(t)[Len(s) + 1] = IF x = c THEN new ELSE Single(x)
        /\ IsSequence(Pieces(t)[1])
    <3>1. /\ \A i \in 1..Len(s) : i \in 1..(Len(s) + 1)
          /\ Len(s) + 1 \in 1..(Len(s) + 1) /\ 1 \in 1..(Len(s) + 1)
      BY <1>3
    <3>2. IsSequence(Pieces(t)[1])
      BY <1>4, <2>3, <3>1
    <3> QED BY <2>1, <2>3, <2>4, <3>1, <3>2
  <2>6. FlattenSeq(Pieces(t)) = FlattenSeq(Pieces(s)) \o Pieces(t)[Len(s) + 1]
    BY <1>3, <1>5, <2>3, <2>5, FlattenNext
  <2> QED BY <1>1, <2>5, <2>6 DEF t
<1> QED BY <1>2, <1>6, <1>7

\* A text of which one character has been escaped already.
LEMMA ReplaceAfter ==
  ASSUME NEW s, IsSequence(s), NEW c, NEW new, IsSequence(new)
  PROVE  /\ \A x : findAndReplace(s \o Single(x), c, new)
                     = findAndReplace(s, c, new) \o (IF x = c THEN new ELSE Single(x))
         /\ \A x, y : c \notin {x, y} =>
              findAndReplace(s \o Two(x, y), c, new)
                = findAndReplace(s, c, new) \o Two(x, y)
<1>1. ASSUME NEW x
      PROVE  findAndReplace(s \o Single(x), c, new)
                     = findAndReplace(s, c, new) \o (IF x = c THEN new ELSE Single(x))
  <2>1. findAndReplace(Append(s, x), c, new)
                     = findAndReplace(s, c, new) \o (IF x = c THEN new ELSE Single(x))
    BY ReplaceNext
  <2>2. Append(s, x) = s \o Single(x)
    BY Appended
  <2> QED BY <2>1, <2>2
<1>2. ASSUME NEW x, NEW y, c \notin {x, y}
      PROVE  findAndReplace(s \o Two(x, y), c, new)
                = findAndReplace(s, c, new) \o Two(x, y)
  <2>1. IsSequence(Single(x)) /\ IsSequence(Single(y)) /\ Single(x) \o Single(y) = Two(x, y)
    BY OneCharacter, TwoCharacters
  <2>2. IsSequence(s \o Single(x)) /\ (s \o Single(x)) \o Single(y) = s \o Two(x, y)
    BY <2>1, JoinedTwo
  <2> DEFINE sx == s \o Single(x)
             r == findAndReplace(s, c, new)
  <2>3. findAndReplace(Append(sx, y), c, new) = findAndReplace(sx, c, new) \o Single(y)
    <3> HIDE DEF sx
    <3>1. IsSequence(sx)
      BY <2>2 DEF sx
    <3> QED BY <1>2, <3>1, ReplaceNext
  <2>4. findAndReplace(sx, c, new) = r \o Single(x)
    BY <1>1, <1>2
  <2>5. Append(sx, y) = sx \o Single(y)
    <3> HIDE DEF sx
    <3>1. IsSequence(sx)
      BY <2>2 DEF sx
    <3> QED BY <3>1, Appended
  <2>6. IsSequence(r)
    BY ReplaceNext
  <2> HIDE DEF r
  <2>7. (r \o Single(x)) \o Single(y) = r \o Two(x, y)
    BY <2>6, JoinedTwo
  <2> QED BY <2>2, <2>3, <2>4, <2>5, <2>7 DEF r
<1> QED BY <1>1, <1>2

\* What is written for the text u, as a help text or between quotes.
HelpBody(u) ==
  findAndReplace(findAndReplace(u, Backslash, Two(Backslash, Backslash)),
                 Newline, Two(Backslash, LetterN))

QuotedBody(u) ==
  findAndReplace(findAndReplace(findAndReplace(u, Backslash, Two(Backslash, Backslash)),
                                Quote, Two(Backslash, Quote)),
                 Newline, Two(Backslash, LetterN))

\* What is written for one character.
Escape(mode, x) ==
  IF x = Backslash THEN Two(Backslash, Backslash)
  ELSE IF x = Newline THEN Two(Backslash, LetterN)
  ELSE IF x = Quote /\ mode = "quoted" THEN Two(Backslash, Quote)
  ELSE Single(x)

\* The same, one case at a time.
LEMMA ReplaceNone ==
  ASSUME NEW s, IsSequence(s), NEW c, NEW new, IsSequence(new)
  PROVE  /\ findAndReplace(<<>>, c, new) = <<>>
         /\ IsSequence(findAndReplace(s, c, new))
BY ReplaceNext

\* The character to replace.
LEMMA ReplaceThat ==
  ASSUME NEW s, IsSequence(s), NEW c, NEW new, IsSequence(new)
  PROVE  /\ findAndReplace(Append(s, c), c, new) = findAndReplace(s, c, new) \o new
         /\ findAndReplace(s \o Single(c), c, new) = findAndReplace(s, c, new) \o new
BY ReplaceNext, ReplaceAfter

\* Another character.
LEMMA ReplaceOther ==
  ASSUME NEW s, IsSequence(s), NEW c, NEW new, IsSequence(new), NEW x, x # c
  PROVE  /\ findAndReplace(Append(s, x), c, new) = findAndReplace(s, c, new) \o Single(x)
         /\ findAndReplace(s \o Single(x), c, new) = findAndReplace(s, c, new) \o Single(x)
BY ReplaceNext, ReplaceAfter

\* Two other characters.
LEMMA ReplacePair ==
  ASSUME NEW s, IsSequence(s), NEW c, NEW new, IsSequence(new), NEW x, NEW y, x # c, y # c
  PROVE  findAndReplace(s \o Two(x, y), c, new) = findAndReplace(s, c, new) \o Two(x, y)
BY ReplaceAfter

\* A help text is escaped one character at a time: what replaces a
\* backslash is not replaced again.
LEMMA HelpBodyNext ==
  ASSUME NEW u, IsSequence(u)
  PROVE  /\ HelpBody(<<>>) = <<>> /\ IsSequence(HelpBody(u))
         /\ \A x : HelpBody(Append(u, x)) = HelpBody(u) \o Escape("help", x)
<1> DEFINE BB == Two(Backslash, Backslash)
           BN == Two(Backslash, LetterN)
           v == findAndReplace(u, Backslash, BB)
<1>1. IsSequence(BB) /\ IsSequence(BN)
  BY TwoCharacters
<1>2. \A s : HelpBody(s) = findAndReplace(findAndReplace(s, Backslash, BB), Newline, BN)
  BY DEF HelpBody
<1>3. /\ Escape("help", Backslash) = BB /\ Escape("help", Newline) = BN
      /\ \A x : x \notin {Backslash, Newline} => Escape("help", x) = Single(x)
  BY Marks DEF Escape
<1>4. ASSUME NEW s, IsSequence(s)
      PROVE  findAndReplace(s \o BB, Newline, BN) = findAndReplace(s, Newline, BN) \o BB
  BY <1>1, <1>4, ReplacePair, Marks
<1> HIDE DEF BB, BN
<1>5. IsSequence(v) /\ HelpBody(u) = findAndReplace(v, Newline, BN)
  BY <1>1, <1>2, ReplaceNone
<1>6. HelpBody(<<>>) = <<>>
  <2>1. findAndReplace(<<>>, Backslash, BB) = <<>>
    BY <1>1, ReplaceNone
  <2>2. findAndReplace(<<>>, Newline, BN) = <<>>
    BY <1>1, ReplaceNone
  <2> QED BY <1>2, <2>1, <2>2
<1>7. ASSUME NEW x
      PROVE  HelpBody(Append(u, x)) = HelpBody(u) \o Escape("help", x)
  <2>1. CASE x = Backslash
    <3>1. findAndReplace(Append(u, x), Backslash, BB) = v \o BB
      BY <1>1, <2>1, ReplaceThat
    <3> HIDE DEF v
    <3>2. findAndReplace(v \o BB, Newline, BN) = findAndReplace(v, Newline, BN) \o BB
      BY <1>4, <1>5
    <3> QED BY <1>2, <1>3, <1>5, <2>1, <3>1, <3>2
  <2>2. CASE x # Backslash
    <3>1. findAndReplace(Append(u, x), Backslash, BB) = v \o Single(x)
      BY <1>1, <2>2, ReplaceOther
    <3> HIDE DEF v
    <3>2. CASE x = Newline
      <4>1. findAndReplace(v \o Single(x), Newline, BN) = findAndReplace(v, Newline, BN) \o BN
        BY <1>1, <1>5, <3>2, ReplaceThat
      <4> QED BY <1>2, <1>3, <1>5, <3>1, <3>2, <4>1
    <3>3. CASE x # Newline
      <4>1. findAndReplace(v \o Single(x), Newline, BN) = findAndReplace(v, Newline, BN) \o Single(x)
        BY <1>1, <1>5, <3>3, ReplaceOther, SMTT(30)
      <4>2. Escape("help", x) = Single(x)
        BY <1>3, <2>2, <3>3
      <4> QED BY <1>2, <1>5, <3>1, <4>1, <4>2
    <3> QED BY <3>2, <3>3
  <2> QED BY <2>1, <2>2
<1>8. IsSequence(HelpBody(u))
  BY <1>1, <1>5, ReplaceNone
<1> QED BY <1>6, <1>7, <1>8

\* A label value is escaped one character at a time, likewise.
LEMMA QuotedBodyNext ==
  ASSUME NEW u, IsSequence(u)
  PROVE  /\ QuotedBody(<<>>) = <<>> /\ IsSequence(QuotedBody(u))
         /\ \A x : QuotedBody(Append(u, x)) = QuotedBody(u) \o Escape("quoted", x)
<1> DEFINE BB == Two(Backslash, Backslash)
           BQ == Two(Backslash, Quote)
           BN == Two(Backslash, LetterN)
           first(s) == findAndReplace(s, Backslash, BB)
           second(s) == findAndReplace(s, Quote, BQ)
           third(s) == findAndReplace(s, Newline, BN)
           v == first(u)
           w == second(v)
<1>1. IsSequence(BB) /\ IsSequence(BQ) /\ IsSequence(BN)
  BY TwoCharacters
<1>2. \A s : QuotedBody(s) = third(second(first(s)))
  BY DEF QuotedBody
<1>3. /\ Escape("quoted", Backslash) = BB /\ Escape("quoted", Quote) = BQ
      /\ Escape("quoted", Newline) = BN
      /\ \A x : x \notin {Backslash, Quote, Newline} => Escape("quoted", x) = Single(x)
  BY Marks DEF Escape
<1>4. ASSUME NEW s, IsSequence(s)
      PROVE  /\ second(s \o BB) = second(s) \o BB
             /\ third(s \o BB) = third(s) \o BB
             /\ third(s \o BQ) = third(s) \o BQ
  BY <1>1, <1>4, ReplacePair, Marks, SMTT(30)
<1> HIDE DEF BB, BQ, BN
<1>5. ASSUME NEW s, IsSequence(s), NEW x
      PROVE  /\ IsSequence(first(s))
             /\ x = Backslash => first(Append(s, x)) = first(s) \o BB
             /\ x # Backslash => first(Append(s, x)) = first(s) \o Single(x)
  <2>1. IsSequence(first(s))
    BY <1>1, <1>5, ReplaceNone
  <2>2. ASSUME x = Backslash PROVE first(Append(s, x)) = first(s) \o BB
    BY <1>1, <1>5, <2>2, ReplaceThat
  <2>3. ASSUME x # Backslash PROVE first(Append(s, x)) = first(s) \o Single(x)
    BY <1>1, <1>5, <2>3, ReplaceOther
  <2> HIDE DEF first
  <2> QED BY <2>1, <2>2, <2>3
<1>6. ASSUME NEW s, IsSequence(s), NEW x
      PROVE  /\ IsSequence(second(s))
             /\ x = Quote => second(s \o Single(x)) = second(s) \o BQ
             /\ x # Quote => second(s \o Single(x)) = second(s) \o Single(x)
  <2>1. IsSequence(second(s))
    BY <1>1, <1>6, ReplaceNone
  <2>2. ASSUME x = Quote PROVE second(s \o Single(x)) = second(s) \o BQ
    BY <1>1, <1>6, <2>2, ReplaceThat
  <2>3. ASSUME x # Quote PROVE second(s \o Single(x)) = second(s) \o Single(x)
    BY <1>1, <1>6, <2>3, ReplaceOther
  <2> HIDE DEF second
  <2> QED BY <2>1, <2>2, <2>3
<1>7. ASSUME NEW s, IsSequence(s), NEW x
      PROVE  /\ IsSequence(third(s))
             /\ x = Newline => third(s \o Single(x)) = third(s) \o BN
             /\ x # Newline => third(s \o Single(x)) = third(s) \o Single(x)
  <2>1. IsSequence(third(s))
    BY <1>1, <1>7, ReplaceNone
  <2>2. ASSUME x = Newline PROVE third(s \o Single(x)) = third(s) \o BN
    BY <1>1, <1>7, <2>2, ReplaceThat
  <2>3. ASSUME x # Newline PROVE third(s \o Single(x)) = third(s) \o Single(x)
    BY <1>1, <1>7, <2>3, ReplaceOther
  <2> HIDE DEF third
  <2> QED BY <2>1, <2>2, <2>3
<1>8. first(<<>>) = <<>> /\ second(<<>>) = <<>> /\ third(<<>>) = <<>>
  BY <1>1, JoinedEmpty, ReplaceNone
<1> HIDE DEF first, second, third
<1>9. /\ IsSequence(v) /\ IsSequence(w) /\ IsSequence(QuotedBody(u))
      /\ QuotedBody(u) = third(w) /\ QuotedBody(<<>>) = <<>>
  BY <1>2, <1>5, <1>6, <1>7, <1>8
<1>10. ASSUME NEW x
       PROVE  QuotedBody(Append(u, x)) = QuotedBody(u) \o Escape("quoted", x)
  <2>0. QuotedBody(Append(u, x)) = third(second(first(Append(u, x))))
    BY <1>2
  <2>1. CASE x = Backslash
    <3>1. first(Append(u, x)) = v \o BB
      BY <1>5, <2>1
    <3>2. second(v \o BB) = w \o BB /\ third(w \o BB) = third(w) \o BB
      BY <1>4, <1>9
    <3> HIDE DEF v, w
    <3> QED BY <1>3, <1>9, <2>0, <2>1, <3>1, <3>2
  <2>2. CASE x # Backslash
    <3>1. first(Append(u, x)) = v \o Single(x)
      BY <1>5, <2>2
    <3>2. CASE x = Quote
      <4>1. second(v \o Single(x)) = w \o BQ /\ third(w \o BQ) = third(w) \o BQ
        BY <1>4, <1>6, <1>9, <3>2
      <4> HIDE DEF v, w
      <4> QED BY <1>3, <1>9, <2>0, <3>1, <3>2, <4>1
    <3>3. CASE x # Quote
      <4>1. second(v \o Single(x)) = w \o Single(x)
        BY <1>6, <1>9, <3>3
      <4>2. third(w \o Single(x)) = third(w) \o Escape("quoted", x)
        <5> HIDE DEF v, w
        <5>1. CASE x = Newline
          BY <1>3, <1>7, <1>9, <5>1
        <5>2. CASE x # Newline
          BY <1>3, <1>7, <1>9, <2>2, <3>3, <5>2
        <5> QED BY <5>1, <5>2
      <4> HIDE DEF v, w
      <4> QED BY <1>9, <2>0, <3>1, <4>1, <4>2
    <3> QED BY <3>2, <3>3
  <2> QED BY <2>1, <2>2
<1> QED BY <1>9, <1>10

\* A reader of a help text, or between quotes, finds the character.
LEMMA ReadEscape ==
  ASSUME NEW lines, NEW line, NEW mode \in {"help", "quoted"}, NEW text, NEW x
  PROVE  ReadOn(At(lines, line, mode, text), Escape(mode, x))
           = At(lines, line, mode, Append(text, x))
<1> DEFINE r == At(lines, line, mode, text)
           e == Escaping(lines, line, mode, text)
<1>1. ASSUME NEW c PROVE ReadOn(r, Single(c)) = ReadChar(r, c)
  BY ReadOne
<1>2. ASSUME NEW c
      PROVE  ReadOn(r, Two(Backslash, c))
               = At(lines, line, mode, Append(text, IF c = LetterN THEN Newline ELSE c))
  <2>1. Two(Backslash, c) = Single(Backslash) \o Single(c)
        /\ IsSequence(Single(Backslash)) /\ IsSequence(Single(c))
    BY OneCharacter, TwoCharacters
  <2>2. ReadOn(r, Single(Backslash)) = e
    BY ReadOne, ReadBackslash
  <2>3. ReadOn(e, Single(c)) = ReadChar(e, c)
    BY ReadOne
  <2>4. ReadChar(e, c)
          = At(lines, line, mode, Append(text, IF c = LetterN THEN Newline ELSE c))
    BY ReadAfterBackslash
  <2> HIDE DEF r, e
  <2>5. ReadOn(r, Single(Backslash) \o Single(c)) = ReadOn(e, Single(c))
    BY <2>1, <2>2, ReadJoined
  <2> QED BY <2>1, <2>3, <2>4, <2>5
<1>3. CASE x = Backslash
  BY <1>2, <1>3, Marks DEF Escape
<1>4. CASE x = Newline
  BY <1>2, <1>4, Marks DEF Escape
<1>5. CASE x = Quote /\ mode = "quoted"
  BY <1>2, <1>5, Marks DEF Escape
<1>6. CASE x \notin {Backslash, Newline} /\ ~(x = Quote /\ mode = "quoted")
  <2>1. Escape(mode, x) = Single(x)
    BY <1>6 DEF Escape
  <2>2. ReadChar(r, x) = At(lines, line, mode, Append(text, x))
    <3>1. \/ mode = "help" /\ x \notin {Backslash, Newline}
          \/ mode = "quoted" /\ x \notin {Backslash, Newline, Quote}
      BY <1>6
    <3> QED BY <3>1, ReadText
  <2> QED BY <1>1, <2>1, <2>2
<1> QED BY <1>3, <1>4, <1>5, <1>6

\* ... and finds the text in what is written for it.
LEMMA ReadBody ==
  ASSUME NEW lines, NEW line, NEW mode \in {"help", "quoted"}, NEW u, IsSequence(u)
  PROVE  ReadOn(At(lines, line, mode, <<>>),
                IF mode = "help" THEN HelpBody(u) ELSE QuotedBody(u))
           = At(lines, line, mode, u)
<1> DEFINE Body(s) == IF mode = "help" THEN HelpBody(s) ELSE QuotedBody(s)
           r == At(lines, line, mode, <<>>)
           T == {n \in Nat : ReadOn(r, Body(Start(u, n)))
                               = At(lines, line, mode, Start(u, n))}
<1>1. ASSUME NEW s, IsSequence(s)
      PROVE  /\ Body(<<>>) = <<>> /\ IsSequence(Body(s))
             /\ \A x : Body(Append(s, x)) = Body(s) \o Escape(mode, x)
  BY <1>1, HelpBodyNext, QuotedBodyNext
<1>2. \A x : IsSequence(Escape(mode, x))
  BY OneCharacter, TwoCharacters DEF Escape
<1>3. 0 \in T
  BY <1>1, StartGrows, ReadNothing
<1>4. ASSUME NEW n \in Nat, n \in T
      PROVE  n + 1 \in T
  <2> HIDE DEF Body, r
  <2> DEFINE s == Start(u, n)
             x == u[n + 1]
  <2>1. IsSequence(s) /\ Start(u, n + 1) = Append(s, x)
    BY StartGrows
  <2>2. ReadOn(r, Body(s)) = At(lines, line, mode, s)
    BY <1>4
  <2> HIDE DEF s, x
  <2>3. ReadOn(r, Body(Append(s, x))) = At(lines, line, mode, Append(s, x))
    <3>1. ReadOn(r, Body(s) \o Escape(mode, x)) = ReadOn(ReadOn(r, Body(s)), Escape(mode, x))
      BY <1>1, <1>2, <2>1, ReadJoined
    <3>2. ReadOn(At(lines, line, mode, s), Escape(mode, x))
            = At(lines, line, mode, Append(s, x))
      BY ReadEscape
    <3>3. Body(Append(s, x)) = Body(s) \o Escape(mode, x)
      BY <1>1, <2>1
    <3> QED BY <2>2, <3>1, <3>2, <3>3
  <2>4. Start(u, n + 1) = Append(s, x)
    BY <2>1
  <2>5. ReadOn(r, Body(Start(u, n + 1))) = At(lines, line, mode, Start(u, n + 1))
    BY <2>3, <2>4
  <2> QED BY <2>5
<1>5. Len(u) \in T
  <2> HIDE DEF T
  <2>1. Len(u) \in Nat
    BY Elements
  <2> QED BY <1>3, <1>4, <2>1, NumberInduction
<1>6. Start(u, Len(u)) = u
  BY StartGrows
<1> QED BY <1>5, <1>6

-----------------------------------------------------------------------------
(* The tokens of a sample. *)

Pairs(line) ==
  {<<line[p - 1], line[p + 1]>> : p \in {q \in DOMAIN line : line[q] = Equals}}

\* A line that begins a sample with this name and, so far, these labels.
InSample(line, name, labels) ==
  /\ IsSequence(line) /\ Len(line) # 0
  /\ line[1] = name /\ name \notin {Help, Type, Equals}
  /\ line[Len(line)] # Equals
  /\ Pairs(line) = labels

\* A word in a sample leaves its labels as they are.
LEMMA TokenAdded ==
  ASSUME NEW line, NEW name, NEW labels, InSample(line, name, labels),
         NEW c, c # Equals
  PROVE  InSample(Append(line, c), name, labels)
<1> DEFINE new == Append(line, c)
           n == Len(line)
<1>1. n \in Nat \ {0} /\ DOMAIN line = 1..n
  BY Elements DEF InSample
<1>2. /\ IsSequence(new) /\ Len(new) = n + 1
      /\ \A i \in 1..n : new[i] = line[i]
      /\ new[n + 1] = c
  BY Appended DEF InSample
<1>3. DOMAIN new = 1..(n + 1)
  BY <1>2, Elements
<1> HIDE DEF new
<1>4. /\ line[1] = name /\ name \notin {Help, Type, Equals}
      /\ line[n] # Equals /\ Pairs(line) = labels
  BY DEF InSample
<1> HIDE DEF n
<1>5. \A q : q \in DOMAIN new /\ new[q] = Equals <=> q \in DOMAIN line /\ line[q] = Equals
  BY <1>1, <1>2, <1>3
<1>6. \A q \in DOMAIN line : line[q] = Equals =>
        /\ q - 1 \in 1..n /\ q + 1 \in 1..n
  <2> SUFFICES ASSUME NEW q \in DOMAIN line, line[q] = Equals
               PROVE  q - 1 \in 1..n /\ q + 1 \in 1..n
    OBVIOUS
  <2>1. q \in 1..n /\ q # 1 /\ q # n
    BY <1>1, <1>4
  <2> QED BY <1>1, <2>1
<1>7. \A q \in DOMAIN line : line[q] = Equals =>
        new[q - 1] = line[q - 1] /\ new[q + 1] = line[q + 1]
  BY <1>2, <1>6
<1>8. Pairs(new) = Pairs(line)
  <2>1. {q \in DOMAIN new : new[q] = Equals} = {q \in DOMAIN line : line[q] = Equals}
    BY <1>5
  <2> QED BY <1>7, <2>1 DEF Pairs
<1>9. new[1] = name /\ Len(new) # 0 /\ new[Len(new)] = c
  BY <1>1, <1>2, <1>4
<1> QED BY <1>2, <1>4, <1>8, <1>9 DEF InSample, new

\* A name, an equals sign and a value in a sample are one more label.
LEMMA LabelAdded ==
  ASSUME NEW line, NEW name, NEW labels, InSample(line, name, labels),
         NEW n, n # Equals, NEW v, v # Equals
  PROVE  InSample(Append(Append(Append(line, n), Equals), v), name,
                  labels \union {<<n, v>>})
<1> DEFINE a == Append(line, n)
           b == Append(a, Equals)
           c == Append(b, v)
           k == Len(a)
<1>1. InSample(a, name, labels)
  BY TokenAdded
<1>2. a[k] = n
  <2>1. IsSequence(line) /\ Len(line) \in Nat
    BY Elements DEF InSample
  <2> QED BY <2>1, Appended
<1> HIDE DEF a
<1>3. /\ IsSequence(a) /\ k \in Nat \ {0} /\ DOMAIN a = 1..k
      /\ a[1] = name /\ name \notin {Help, Type, Equals} /\ Pairs(a) = labels
  BY <1>1, Elements DEF InSample
<1>4. /\ IsSequence(b) /\ Len(b) = k + 1 /\ b[k + 1] = Equals
      /\ \A i \in 1..k : b[i] = a[i]
  BY <1>3, Appended
<1> HIDE DEF b
<1>5. /\ IsSequence(c) /\ Len(c) = k + 2 /\ c[k + 2] = v
      /\ \A i \in 1..(k + 1) : c[i] = b[i]
  <2>1. /\ IsSequence(c) /\ Len(c) = Len(b) + 1 /\ c[Len(b) + 1] = v
        /\ \A i \in 1..Len(b) : c[i] = b[i]
    BY <1>4, Appended
  <2>2. Len(b) + 1 = k + 2
    BY <1>3, <1>4
  <2> QED BY <1>4, <2>1, <2>2
<1>6. DOMAIN c = 1..(k + 2)
  BY <1>5, Elements
<1> HIDE DEF c, k
<1>7. \A i \in 1..k : c[i] = a[i] /\ i \in 1..(k + 1)
  BY <1>3, <1>4, <1>5
<1>8. c[k + 1] = Equals /\ c[k + 2] = v /\ c[k] = n /\ c[1] = name
  <2>1. k + 1 \in 1..(k + 1) /\ k \in 1..k /\ 1 \in 1..k
    BY <1>3
  <2> QED BY <1>2, <1>3, <1>4, <1>5, <1>7, <2>1
<1>9. {q \in DOMAIN c : c[q] = Equals} = {q \in DOMAIN a : a[q] = Equals} \union {k + 1}
  <2>1. \A q : q \in DOMAIN c <=> q \in DOMAIN a \/ q = k + 1 \/ q = k + 2
    BY <1>3, <1>6
  <2>2. k + 1 \notin DOMAIN a /\ k + 2 \notin DOMAIN a
    BY <1>3
  <2> QED BY <1>3, <1>7, <1>8, <2>1, <2>2
<1>10. \A q \in DOMAIN a : a[q] = Equals =>
         c[q - 1] = a[q - 1] /\ c[q + 1] = a[q + 1]
  <2> SUFFICES ASSUME NEW q \in DOMAIN a, a[q] = Equals
               PROVE  c[q - 1] = a[q - 1] /\ c[q + 1] = a[q + 1]
    OBVIOUS
  <2>1. q \in 1..k /\ q # 1 /\ q # k
    BY <1>2, <1>3
  <2>2. q - 1 \in 1..k /\ q + 1 \in 1..k
    BY <1>3, <2>1
  <2> QED BY <1>7, <2>2
<1>11. (k + 1) - 1 = k /\ (k + 1) + 1 = k + 2
  BY <1>3
<1>12. Pairs(c) = Pairs(a) \union {<<n, v>>}
  <2> DEFINE EqC == {q \in DOMAIN c : c[q] = Equals}
             EqA == {q \in DOMAIN a : a[q] = Equals}
  <2>1. /\ EqC = EqA \union {k + 1}
        /\ \A q \in EqA : c[q - 1] = a[q - 1] /\ c[q + 1] = a[q + 1]
    BY <1>9, <1>10
  <2>2. /\ Pairs(c) = {<<c[p - 1], c[p + 1]>> : p \in EqC}
        /\ Pairs(a) = {<<a[p - 1], a[p + 1]>> : p \in EqA}
    BY DEF Pairs
  <2> HIDE DEF EqC, EqA
  <2>3. <<c[(k + 1) - 1], c[(k + 1) + 1]>> = <<n, v>>
    BY <1>8, <1>11
  <2> QED BY <2>1, <2>2, <2>3
<1> QED BY <1>3, <1>5, <1>8, <1>12 DEF InSample, a, b, c

\* What such a line says once its value is there.
LEMMA SampleRead ==
  ASSUME NEW line, NEW name, NEW labels, InSample(line, name, labels),
         NEW v, v # Equals
  PROVE  AsRead(Append(line, v)) = [name |-> name, value |-> v, labels |-> labels]
<1> DEFINE new == Append(line, v)
<1>1. InSample(new, name, labels)
  BY TokenAdded
<1>2. Last(new) = v
  <2>1. IsSequence(line) /\ Len(line) \in Nat
    BY Elements DEF InSample
  <2> QED BY <2>1, Appended DEF Last
<1> HIDE DEF new
<1>3. new[1] = name /\ name \notin {Help, Type} /\ Pairs(new) = labels
  BY <1>1 DEF InSample
<1>4. AsRead(new) = [name |-> new[1], value |-> Last(new), labels |-> Pairs(new)]
  BY <1>3 DEF AsRead, Pairs
<1> QED BY <1>2, <1>3, <1>4 DEF new

-----------------------------------------------------------------------------
(* A reader within a sample. *)

Within(r, lines, name, labels) ==
  \E line, text : r = At(lines, line, "line", text) /\ InSample(line, name, labels)

\* Reading a word of a sample.
LEMMA ReadPlain ==
  ASSUME NEW r, NEW lines, NEW name, NEW labels, Within(r, lines, name, labels),
         NEW c, IsWord(c)
  PROVE  Within(ReadOn(r, Single(c)), lines, name, labels)
<1>1. PICK line, text : r = At(lines, line, "line", text) /\ InSample(line, name, labels)
  BY DEF Within
<1>2. c \notin {Quote, Newline, Help, Equals}
  BY DEF IsWord
<1>3. ReadOn(r, Single(c)) = At(lines, Append(line, c), "line", text)
  BY <1>1, <1>2, ReadOne, ReadToken
<1>4. InSample(Append(line, c), name, labels)
  BY <1>1, <1>2, TokenAdded
<1> QED BY <1>3, <1>4 DEF Within

\* What is written for the label n, u.
LabelChars(n, u) == Two(n, Equals) \o (Single(Quote) \o (QuotedBody(u) \o Single(Quote)))

\* Reading a label of a sample.
LEMMA ReadLabel ==
  ASSUME NEW r, NEW lines, NEW name, NEW labels, Within(r, lines, name, labels),
         NEW n, IsWord(n), NEW u, IsSequence(u), u # Equals
  PROVE  /\ IsSequence(LabelChars(n, u))
         /\ Within(ReadOn(r, LabelChars(n, u)), lines, name, labels \union {<<n, u>>})
<1>1. PICK line, text : r = At(lines, line, "line", text) /\ InSample(line, name, labels)
  BY DEF Within
<1>2. n \notin {Quote, Newline, Help, Equals} /\ Equals \notin {Quote, Newline, Help}
  BY Marks DEF IsWord
<1> DEFINE q == Single(Quote)
           a == Append(line, n)
           b == Append(a, Equals)
           c == Append(b, u)
           body == QuotedBody(u)
           two == Two(n, Equals)
<1>3. IsSequence(q) /\ IsSequence(body) /\ IsSequence(two)
  BY OneCharacter, TwoCharacters, QuotedBodyNext
<1>4. ReadOn(r, two) = At(lines, b, "line", text)
  <2>1. two = Single(n) \o Single(Equals) /\ IsSequence(Single(n)) /\ IsSequence(Single(Equals))
    BY OneCharacter, TwoCharacters
  <2>2. ReadOn(r, Single(n)) = At(lines, a, "line", text)
    BY <1>1, <1>2, ReadOne, ReadToken
  <2>3. ReadOn(At(lines, a, "line", text), Single(Equals)) = At(lines, b, "line", text)
    BY <1>2, ReadOne, ReadToken
  <2> HIDE DEF two, a, b
  <2> QED BY <2>1, <2>2, <2>3, ReadJoined
<1>5. ReadOn(At(lines, b, "line", text), q) = At(lines, b, "quoted", <<>>)
  BY ReadOne, ReadQuote
<1>6. ReadOn(At(lines, b, "quoted", <<>>), body) = At(lines, b, "quoted", u)
  BY ReadBody
<1>7. ReadOn(At(lines, b, "quoted", u), q) = At(lines, c, "line", u)
  BY ReadOne, ReadQuote
<1>8. InSample(c, name, labels \union {<<n, u>>})
  BY <1>1, <1>2, LabelAdded
<1> HIDE DEF q, a, b, c, body, two
<1>9. /\ IsSequence(body \o q) /\ IsSequence(q \o (body \o q))
      /\ IsSequence(two \o (q \o (body \o q)))
  BY <1>3, Joined
<1>10. ReadOn(At(lines, b, "quoted", <<>>), body \o q) = At(lines, c, "line", u)
  BY <1>3, <1>6, <1>7, ReadJoined
<1>11. ReadOn(At(lines, b, "line", text), q \o (body \o q)) = At(lines, c, "line", u)
  BY <1>3, <1>5, <1>9, <1>10, ReadJoined
<1>12. ReadOn(r, two \o (q \o (body \o q))) = At(lines, c, "line", u)
  BY <1>3, <1>4, <1>9, <1>11, ReadJoined
<1> QED BY <1>8, <1>9, <1>12 DEF Within, LabelChars, q, body, two

\* Conversion from UTF-8 yields a text.
LEMMA FromUTF8 ==
  ASSUME NEW s, IsSequence(s)
  PROVE  IsSequence(fromUTF8(s))
<1>1. fromUTF8(s) = [i \in 1..Len(s) |-> fromUTF8(s)[i]] /\ Len(s) \in Nat
  BY Elements DEF fromUTF8
<1> QED BY <1>1, Listed

\* What is written for a label, and for the comma after it.
LEMMA EscapedLabel ==
  ASSUME NEW n, NEW s, IsSequence(s)
  PROVE  <<n, Equals>> \o escape_label_value(s) = LabelChars(n, fromUTF8(s))
<1> DEFINE q == Single(Quote)
           body == QuotedBody(fromUTF8(s))
<1>1. escape_label_value(s) = (q \o body) \o q
  BY DEF escape_label_value, QuotedBody, Single, Two
<1>2. IsSequence(q) /\ IsSequence(body)
  BY FromUTF8, OneCharacter, QuotedBodyNext
<1> HIDE DEF q, body
<1>3. (q \o body) \o q = q \o (body \o q)
  BY <1>2, JoinedThrice
<1> QED BY <1>1, <1>3 DEF LabelChars, Two, q, body

\* The labels of a metric.
LabelsUpTo(label, k) == {<<label[i].name, fromUTF8(label[i].value)>> : i \in 1..k}

\* Reading the labels of a metric, in order, with commas between them.
LEMMA ReadLabels ==
  ASSUME NEW r, NEW lines, NEW name, Within(r, lines, name, {}),
         NEW label, IsSequence(label), \A i \in DOMAIN label : IsLabel(label[i])
  PROVE  /\ IsSequence(LabelList(label))
         /\ Within(ReadOn(r, LabelList(label)), lines, name,
                   LabelsUpTo(label, Len(label)))
<1> DEFINE n == Len(label)
           Piece(i) == <<label[i].name, Equals>> \o escape_label_value(label[i].value)
                         \o IF i < n THEN <<Comma>> ELSE <<>>
           First(k) == [i \in 1..k |-> Piece(i)]
           T == {k \in Nat : k <= n =>
                   Within(ReadOn(r, FlattenSeq(First(k))), lines, name, LabelsUpTo(label, k))}
<1>0. n \in Nat /\ DOMAIN label = 1..n
  BY Elements
<1>1. \A i \in 1..n : /\ IsWord(label[i].name) /\ IsSequence(label[i].value)
                      /\ IsSequence(fromUTF8(label[i].value))
                      /\ fromUTF8(label[i].value) # Equals
  BY <1>0, FromUTF8 DEF IsLabel
<1>2. LabelList(label) = FlattenSeq(First(n))
  BY <1>0 DEF LabelList
<1>3. ASSUME NEW i \in 1..n, NEW s, NEW labels, Within(s, lines, name, labels)
      PROVE  /\ IsSequence(Piece(i))
             /\ Within(ReadOn(s, Piece(i)), lines, name,
                       labels \union {<<label[i].name, fromUTF8(label[i].value)>>})
  <2> DEFINE lab == LabelChars(label[i].name, fromUTF8(label[i].value))
             new == labels \union {<<label[i].name, fromUTF8(label[i].value)>>}
  <2>1. Piece(i) = lab \o (IF i < n THEN Single(Comma) ELSE <<>>)
    BY <1>1, EscapedLabel DEF Single
  <2>2. IsSequence(lab) /\ Within(ReadOn(s, lab), lines, name, new)
    BY <1>1, <1>3, ReadLabel
  <2> HIDE DEF lab, new, Piece
  <2>3. CASE i < n
    <3>1. Piece(i) = lab \o Single(Comma) /\ IsSequence(Single(Comma))
      BY <2>1, <2>3, OneCharacter
    <3>2. IsSequence(Piece(i)) /\ ReadOn(s, Piece(i)) = ReadOn(ReadOn(s, lab), Single(Comma))
      BY <2>2, <3>1, Joined, ReadJoined
    <3>3. IsWord(Comma)
      BY Marks
    <3> QED BY <2>2, <3>2, <3>3, ReadPlain DEF new
  <2>4. CASE ~(i < n)
    <3>1. Piece(i) = lab
      BY <2>1, <2>2, <2>4, JoinedEmpty
    <3> QED BY <2>2, <3>1 DEF new
  <2> QED BY <2>3, <2>4
<1>4. \A k \in Nat : /\ First(k) = [i \in 1..k |-> First(k)[i]]
                     /\ \A i \in 1..k : First(k)[i] = Piece(i)
  BY Zenon
<1>5. 0 \in T
  <2>1. First(0) = <<>>
    OBVIOUS
  <2>2. ReadOn(r, FlattenSeq(First(0))) = r
    BY <2>1, FlattenNone, ReadNothing
  <2>3. LabelsUpTo(label, 0) = {}
    BY DEF LabelsUpTo
  <2> HIDE DEF First
  <2> QED BY <2>2, <2>3
<1> HIDE DEF Piece, First
<1>6. \A k \in Nat : k <= n => IsSequence(FlattenSeq(First(k)))
  <2> SUFFICES ASSUME NEW k \in Nat, k <= n PROVE IsSequence(FlattenSeq(First(k)))
    OBVIOUS
  <2>1. \A i \in 1..k : i \in 1..n
    BY <1>0
  <2>2. \A i \in 1..k : IsSequence(First(k)[i])
    BY <1>3, <1>4, <2>1
  <2> QED BY <1>4, <2>2, FlattenSequence
<1>7. ASSUME NEW k \in Nat, k \in T
      PROVE  k + 1 \in T
  <2> SUFFICES ASSUME k + 1 <= n
               PROVE  Within(ReadOn(r, FlattenSeq(First(k + 1))), lines, name,
                             LabelsUpTo(label, k + 1))
    OBVIOUS
  <2>1. k <= n /\ k + 1 \in 1..n /\ 1 \in 1..n /\ k + 1 \in Nat
    BY <1>0
  <2>2. Within(ReadOn(r, FlattenSeq(First(k))), lines, name, LabelsUpTo(label, k))
    BY <1>7, <2>1
  <2> HIDE DEF T
  <2> DEFINE l == LabelsUpTo(label, k)
             s == ReadOn(r, FlattenSeq(First(k)))
             new == <<label[k + 1].name, fromUTF8(label[k + 1].value)>>
  <2>3. IsSequence(Piece(k + 1)) /\ IsSequence(Piece(1))
    BY <1>3, <2>1, <2>2
  <2>4. Within(ReadOn(s, Piece(k + 1)), lines, name, l \union {new})
    BY <1>3, <2>1, <2>2
  <2>5. FlattenSeq(First(k + 1)) = FlattenSeq(First(k)) \o First(k + 1)[k + 1]
    <3>1. \A i \in 1..k : First(k + 1)[i] = First(k)[i]
      BY <1>4, <2>1
    <3>2. IsSequence(First(k + 1)[1])
      BY <1>4, <2>1, <2>3
    <3> QED BY <1>4, <2>1, <3>1, <3>2, FlattenNext
  <2>6. First(k + 1)[k + 1] = Piece(k + 1)
    BY <1>4, <2>1
  <2>7. ReadOn(r, FlattenSeq(First(k + 1))) = ReadOn(s, Piece(k + 1))
    <3> DEFINE flat == FlattenSeq(First(k))
               piece == Piece(k + 1)
    <3>1. IsSequence(flat) /\ IsSequence(piece)
      BY <1>6, <2>1, <2>3
    <3>2. FlattenSeq(First(k + 1)) = flat \o piece
      BY <2>5, <2>6
    <3> HIDE DEF flat, piece
    <3>3. ReadOn(r, flat \o piece) = ReadOn(ReadOn(r, flat), piece)
      BY <3>1, ReadJoined
    <3> QED BY <3>2, <3>3 DEF flat, piece
  <2>8. LabelsUpTo(label, k + 1) = l \union {new}
    <3>1. \A i : i \in 1..(k + 1) <=> i \in 1..k \/ i = k + 1
      BY <2>1
    <3> QED BY <3>1 DEF LabelsUpTo
  <2> QED BY <2>4, <2>7, <2>8
<1>8. n \in T
  <2> HIDE DEF T
  <2> QED BY <1>0, <1>5, <1>7, NumberInduction
<1> QED BY <1>0, <1>2, <1>6, <1>8

Precedes(u, x, t) == u = Single(x) \o t

\* The elements of a sequence after one in front.
LEMMA Prefixed ==
  ASSUME NEW x, NEW t, IsSequence(t), NEW u, Precedes(u, x, t)
  PROVE  /\ IsSequence(u) /\ Len(u) = Len(t) + 1
         /\ u[1] = x
         /\ \A i \in 2..(Len(t) + 1) : u[i] = t[i - 1]
<1> DEFINE a == Single(x)
<1>1. IsSequence(a) /\ Len(a) = 1 /\ a[1] = x /\ u = a \o t
  BY OneCharacter DEF Precedes
<1> HIDE DEF a
<1>2. Len(t) \in Nat
  BY Elements
<1>3. /\ IsSequence(a \o t) /\ Len(a \o t) = Len(a) + Len(t)
      /\ \A i \in 1..Len(a) : (a \o t)[i] = a[i]
      /\ \A i \in 1..Len(t) : (a \o t)[Len(a) + i] = t[i]
  <2>1. IsSequence(a)
    BY <1>1
  <2> QED BY ONLY <2>1, IsSequence(t), Joined
<1>4. \A i \in 2..(Len(t) + 1) : u[i] = t[i - 1]
  <2> SUFFICES ASSUME NEW i \in 2..(Len(t) + 1) PROVE (a \o t)[i] = t[i - 1]
    BY <1>1
  <2>1. i - 1 \in 1..Len(t) /\ 1 + (i - 1) = i
    BY <1>2
  <2>2. (a \o t)[1 + (i - 1)] = t[i - 1]
    BY <1>1, <1>3, <2>1
  <2> QED BY <2>1, <2>2
<1>5. 1 \in 1..1 /\ 1 + Len(t) = Len(t) + 1
  BY <1>2
<1> QED BY <1>1, <1>3, <1>4, <1>5

\* Lists of characters that are written out.
LEMMA Characters ==
  ASSUME NEW a, NEW b, NEW c
  PROVE  /\ Append(<<>>, a) = Single(a)
         /\ Append(Single(a), b) = Two(a, b)
         /\ Append(Two(a, b), c) = <<a, b, c>>
<1>1. Append(<<>>, a) = Single(a)
  BY DEF Single
<1>2. IsSequence(Single(a)) /\ IsSequence(Two(a, b)) /\ Two(a, b) = Single(a) \o Single(b)
  BY OneCharacter, TwoCharacters
<1>3. Append(Single(a), b) = Two(a, b)
  BY <1>2, Appended
<1> DEFINE two == Two(a, b)
           three == <<a, b, c>>
           new == Append(two, c)
<1>4. Len(two) = 2 /\ two[1] = a /\ two[2] = b
  BY DEF Two
<1>5. three \in Seq({a, b, c}) /\ Len(three) = 3
      /\ three[1] = a /\ three[2] = b /\ three[3] = c
  OBVIOUS
<1>6. IsSequence(three)
  BY <1>5, Typed
<1> HIDE DEF three, two
<1>7. /\ IsSequence(new) /\ Len(new) = Len(two) + 1 /\ new[Len(two) + 1] = c
      /\ \A i \in 1..Len(two) : new[i] = two[i]
  <2>1. IsSequence(two)
    BY <1>2 DEF two
  <2> QED BY <2>1, Appended
<1>8. Len(new) = 3 /\ new[1] = a /\ new[2] = b /\ new[3] = c
  <2>1. 1 \in 1..2 /\ 2 \in 1..2 /\ 2 + 1 = 3
    OBVIOUS
  <2> QED BY <1>4, <1>7, <2>1
<1> HIDE DEF new
<1>9. \A i \in 1..Len(new) : i = 1 \/ i = 2 \/ i = 3
  BY <1>8
<1>10. new = three
  BY <1>5, <1>6, <1>7, <1>8, <1>9, SameElements
<1> QED BY <1>1, <1>3, <1>10 DEF new, two, three

\* The last characters of a bucket's line: the label for its level, the closing
\* brace and its count.
\* What follows the labels in a bucket's line, and the parts it is made of.
BucketTail(n, e, q, u, p, z, c, l) == <<n, e, q, u, p, z, c, l>>
TailParts(n, e, q, u, p, z, c, l) ==
  (Two(n, e) \o (Single(q) \o (Single(u) \o Single(p)))) \o (Single(z) \o Two(c, l))

\* The eight characters are those of the parts.
LEMMA BucketEnd ==
  ASSUME NEW a, NEW b, NEW c, NEW d, NEW e, NEW f, NEW g, NEW h
  PROVE  BucketTail(a, b, c, d, e, f, g, h) = TailParts(a, b, c, d, e, f, g, h)
<1> DEFINE t == <<a, b, c, d, e, f, g, h>>
           t8 == Single(h)
           t7 == Single(g) \o t8
           t6 == Single(f) \o t7
           t5 == Single(e) \o t6
           t4 == Single(d) \o t5
           t3 == Single(c) \o t4
           t2 == Single(b) \o t3
           t1 == Single(a) \o t2
<1>1. /\ t \in Seq({a, b, c, d, e, f, g, h}) /\ Len(t) = 8
      /\ t[1] = a /\ t[2] = b /\ t[3] = c /\ t[4] = d
      /\ t[5] = e /\ t[6] = f /\ t[7] = g /\ t[8] = h
  OBVIOUS
<1>2. IsSequence(t)
  BY <1>1, Typed
<1>0. /\ t8 = Single(h) /\ t7 = Single(g) \o t8 /\ t6 = Single(f) \o t7 /\ t5 = Single(e) \o t6
      /\ t4 = Single(d) \o t5 /\ t3 = Single(c) \o t4 /\ t2 = Single(b) \o t3 /\ t1 = Single(a) \o t2
  OBVIOUS
<1>3. /\ IsSequence(t8) /\ Len(t8) = 1 /\ t8[1] = h
  BY OneCharacter
<1> HIDE DEF t8, t7, t6, t5, t4, t3, t2, t1
<1>4. /\ IsSequence(t7) /\ Len(t7) = Len(t8) + 1 /\ t7[1] = g
      /\ \A i \in 2..(Len(t8) + 1) : t7[i] = t8[i - 1]
  <2>1. IsSequence(t8) /\ Precedes(t7, g, t8)
    BY <1>0, <1>3 DEF Precedes
  <2> QED BY ONLY <2>1, Prefixed
<1>5. /\ IsSequence(t6) /\ Len(t6) = Len(t7) + 1 /\ t6[1] = f
      /\ \A i \in 2..(Len(t7) + 1) : t6[i] = t7[i - 1]
  <2>1. IsSequence(t7) /\ Precedes(t6, f, t7)
    BY <1>0, <1>4 DEF Precedes
  <2> QED BY ONLY <2>1, Prefixed
<1>6. /\ IsSequence(t5) /\ Len(t5) = Len(t6) + 1 /\ t5[1] = e
      /\ \A i \in 2..(Len(t6) + 1) : t5[i] = t6[i - 1]
  <2>1. IsSequence(t6) /\ Precedes(t5, e, t6)
    BY <1>0, <1>5 DEF Precedes
  <2> QED BY ONLY <2>1, Prefixed
<1>7. /\ IsSequence(t4) /\ Len(t4) = Len(t5) + 1 /\ t4[1] = d
      /\ \A i \in 2..(Len(t5) + 1) : t4[i] = t5[i - 1]
  <2>1. IsSequence(t5) /\ Precedes(t4, d, t5)
    BY <1>0, <1>6 DEF Precedes
  <2> QED BY ONLY <2>1, Prefixed
<1>8. /\ IsSequence(t3) /\ Len(t3) = Len(t4) + 1 /\ t3[1] = c
      /\ \A i \in 2..(Len(t4) + 1) : t3[i] = t4[i - 1]
  <2>1. IsSequence(t4) /\ Precedes(t3, c, t4)
    BY <1>0, <1>7 DEF Precedes
  <2> QED BY ONLY <2>1, Prefixed
<1>9. /\ IsSequence(t2) /\ Len(t2) = Len(t3) + 1 /\ t2[1] = b
      /\ \A i \in 2..(Len(t3) + 1) : t2[i] = t3[i - 1]
  <2>1. IsSequence(t3) /\ Precedes(t2, b, t3)
    BY <1>0, <1>8 DEF Precedes
  <2> QED BY ONLY <2>1, Prefixed
<1>10. /\ IsSequence(t1) /\ Len(t1) = Len(t2) + 1 /\ t1[1] = a
      /\ \A i \in 2..(Len(t2) + 1) : t1[i] = t2[i - 1]
  <2>1. IsSequence(t2) /\ Precedes(t1, a, t2)
    BY <1>0, <1>9 DEF Precedes
  <2> QED BY ONLY <2>1, Prefixed
<1>11. /\ Len(t8) = 1 /\ Len(t7) = 2 /\ Len(t6) = 3 /\ Len(t5) = 4
       /\ Len(t4) = 5 /\ Len(t3) = 6 /\ Len(t2) = 7 /\ Len(t1) = 8
  BY <1>3, <1>4, <1>5, <1>6, <1>7, <1>8, <1>9, <1>10
<1>12. \A i \in 1..8 : t1[i] = t[i]
  <2>1. t1[2] = b /\ t1[3] = t3[1]
    BY <1>8, <1>9, <1>10, <1>11
  <2>2. t1[4] = t4[1] /\ t1[5] = t4[2] /\ t1[6] = t4[3] /\ t1[7] = t4[4] /\ t1[8] = t4[5]
    BY <1>8, <1>9, <1>10, <1>11
  <2>3. t4[2] = t5[1] /\ t4[3] = t6[1] /\ t4[4] = t7[1] /\ t4[5] = t8[1]
    BY <1>4, <1>5, <1>6, <1>7, <1>11
  <2>4. \A i \in 1..8 : i = 1 \/ i = 2 \/ i = 3 \/ i = 4 \/ i = 5 \/ i = 6 \/ i = 7 \/ i = 8
    OBVIOUS
  <2> QED BY <1>1, <1>3, <1>4, <1>5, <1>6, <1>7, <1>8, <1>10, <2>1, <2>2, <2>3, <2>4
<1> HIDE DEF t
<1>13. t = t1
  BY <1>1, <1>2, <1>10, <1>11, <1>12, SameElements
<1>14. /\ IsSequence(Single(a)) /\ IsSequence(Single(b)) /\ IsSequence(Single(c))
       /\ IsSequence(Single(d)) /\ IsSequence(Single(e))
       /\ Two(a, b) = Single(a) \o Single(b) /\ Two(g, h) = Single(g) \o Single(h)
  BY OneCharacter, TwoCharacters
<1> DEFINE u == Single(d) \o Single(e)
           v == Single(c) \o u
           w == Two(a, b) \o v
<1>15. IsSequence(u) /\ IsSequence(v) /\ IsSequence(Two(a, b)) /\ IsSequence(t6)
  BY <1>5, <1>14, Joined
<1>16. u \o t6 = t4
  <2>1. IsSequence(Single(d)) /\ IsSequence(Single(e)) /\ IsSequence(t6)
    BY <1>14, <1>15
  <2>2. (Single(d) \o Single(e)) \o t6 = Single(d) \o (Single(e) \o t6)
    BY ONLY <2>1, JoinedThrice, SMTT(30)
  <2> QED BY <2>2 DEF t5, t4
<1>17. v \o t6 = t3
  <2> HIDE DEF u
  <2>1. IsSequence(Single(c)) /\ IsSequence(u) /\ IsSequence(t6)
    BY <1>14, <1>15
  <2>2. (Single(c) \o u) \o t6 = Single(c) \o (u \o t6)
    BY ONLY <2>1, JoinedThrice
  <2> QED BY <1>16, <2>2 DEF t3
<1>18. Two(a, b) \o t3 = t1
  <2>1. IsSequence(Single(a)) /\ IsSequence(Single(b)) /\ IsSequence(t3)
    BY <1>8, <1>14
  <2>2. (Single(a) \o Single(b)) \o t3 = Single(a) \o (Single(b) \o t3)
    BY ONLY <2>1, JoinedThrice
  <2> QED BY <1>14, <2>2 DEF t2, t1
<1>19. w \o t6 = t1
  <2> HIDE DEF v
  <2>1. IsSequence(Two(a, b)) /\ IsSequence(v) /\ IsSequence(t6)
    BY <1>15
  <2>2. (Two(a, b) \o v) \o t6 = Two(a, b) \o (v \o t6)
    BY ONLY <2>1, JoinedThrice
  <2> QED BY <1>17, <1>18, <2>2
<1>20. t = (Two(a, b) \o (Single(c) \o (Single(d) \o Single(e)))) \o (Single(f) \o Two(g, h))
  BY <1>13, <1>14, <1>19 DEF t6, t7, t8
<1> QED BY <1>20 DEF t, BucketTail, TailParts

-----------------------------------------------------------------------------
(* What a text says, wherever in the stream it is. *)

Between(lines) == At(lines, <<>>, "line", <<>>)

\* These lines, and only they, mean M.
AreRead(lines, M) ==
  /\ IsSequence(lines) /\ IsSequence(M) /\ Len(lines) = Len(M)
  /\ \A i \in 1..Len(M) : AsRead(lines[i]) = M[i]

Says(chars, M) ==
  /\ IsSequence(chars)
  /\ \A before : IsSequence(before) =>
       \E lines : /\ AreRead(lines, M)
                  /\ ReadOn(Between(before), chars) = Between(before \o lines)

\* The empty text says nothing.
LEMMA SaysNothing == Says(<<>>, <<>>)
<1>1. IsSequence(<<>>) /\ Len(<<>>) = 0
  BY JoinedEmpty, \A s : s = <<>> => Len(s) = 0, Typed, <<>> \in Seq({})
<1>2. AreRead(<<>>, <<>>)
  BY <1>1 DEF AreRead
<1>3. ASSUME NEW before, IsSequence(before)
      PROVE  ReadOn(Between(before), <<>>) = Between(before \o <<>>)
  BY <1>3, ReadNothing, JoinedEmpty
<1> QED BY <1>1, <1>2, <1>3 DEF Says

\* The meanings of two lists of lines.
LEMMA AreReadJoined ==
  ASSUME NEW s, NEW M, AreRead(s, M), NEW t, NEW N, AreRead(t, N)
  PROVE  AreRead(s \o t, M \o N)
<1> DEFINE st == s \o t
           MN == M \o N
           m == Len(M)
           n == Len(N)
<1>1. /\ IsSequence(s) /\ IsSequence(M) /\ Len(s) = m
      /\ \A i \in 1..m : AsRead(s[i]) = M[i]
      /\ IsSequence(t) /\ IsSequence(N) /\ Len(t) = n
      /\ \A i \in 1..n : AsRead(t[i]) = N[i]
  BY DEF AreRead
<1>2. m \in Nat /\ n \in Nat
  BY <1>1, Elements
<1>3. /\ IsSequence(st) /\ Len(st) = Len(s) + Len(t)
      /\ \A i \in 1..Len(s) : st[i] = s[i]
      /\ \A i \in 1..Len(t) : st[Len(s) + i] = t[i]
  <2>1. IsSequence(s) /\ IsSequence(t)
    BY <1>1
  <2> QED BY ONLY <2>1, Joined
<1>4. /\ IsSequence(MN) /\ Len(MN) = Len(M) + Len(N)
      /\ \A i \in 1..Len(M) : MN[i] = M[i]
      /\ \A i \in 1..Len(N) : MN[Len(M) + i] = N[i]
  <2>1. IsSequence(M) /\ IsSequence(N)
    BY <1>1
  <2> QED BY ONLY <2>1, Joined
<1> HIDE DEF st, MN
<1>5. ASSUME NEW i \in 1..Len(MN)
      PROVE  AsRead(st[i]) = MN[i]
  <2>1. CASE i \in 1..m
    BY <1>1, <1>3, <1>4, <2>1
  <2>2. CASE i \notin 1..m
    <3>1. i - m \in 1..n /\ i = m + (i - m)
      BY <1>2, <1>4, <2>2
    <3>2. st[m + (i - m)] = t[i - m]
      BY <1>1, <1>3, <3>1
    <3>3. MN[m + (i - m)] = N[i - m]
      BY <1>4, <3>1
    <3> QED BY <1>1, <3>1, <3>2, <3>3
  <2> QED BY <2>1, <2>2
<1>6. Len(st) = Len(MN)
  BY <1>1, <1>3, <1>4
<1>7. AreRead(st, MN)
  BY <1>3, <1>4, <1>5, <1>6 DEF AreRead
<1> QED BY <1>7 DEF st, MN

\* Two texts say what each says, in order.
LEMMA SaysJoined ==
  ASSUME NEW a, NEW M, Says(a, M), NEW b, NEW N, Says(b, N)
  PROVE  Says(a \o b, M \o N)
<1>1. IsSequence(a) /\ IsSequence(b)
  BY DEF Says
<1>2. IsSequence(a \o b)
  BY <1>1, Joined
<1>3. ASSUME NEW before, IsSequence(before)
      PROVE  \E lines : /\ AreRead(lines, M \o N)
                        /\ ReadOn(Between(before), a \o b) = Between(before \o lines)
  <2>1. PICK s : /\ AreRead(s, M)
                 /\ ReadOn(Between(before), a) = Between(before \o s)
    BY <1>3 DEF Says
  <2>2. IsSequence(s) /\ IsSequence(before \o s)
    <3>1. IsSequence(s)
      BY <2>1 DEF AreRead
    <3> QED BY ONLY <1>3, <3>1, Joined
  <2>3. PICK t : /\ AreRead(t, N)
                 /\ ReadOn(Between(before \o s), b) = Between((before \o s) \o t)
    BY <2>2 DEF Says
  <2>4. IsSequence(t)
    BY <2>3 DEF AreRead
  <2>5. (before \o s) \o t = before \o (s \o t)
    BY <1>3, <2>2, <2>4, JoinedThrice
  <2>6. ReadOn(Between(before), a \o b) = ReadOn(ReadOn(Between(before), a), b)
    BY <1>1, ReadJoined
  <2>7. ReadOn(Between(before), a \o b) = Between(before \o (s \o t))
    BY <2>1, <2>3, <2>5, <2>6
  <2>8. AreRead(s \o t, M \o N)
    BY <2>1, <2>3, AreReadJoined
  <2> QED BY <2>7, <2>8
<1> QED BY <1>2, <1>3 DEF Says

\* A text that a reader takes for one line.
IsLine(chars, m) ==
  /\ IsSequence(chars)
  /\ \A before : IsSequence(before) =>
       \E line : /\ ReadOn(Between(before), chars) = Between(Append(before, line))
                 /\ AsRead(line) = m

\* A text that is one line says what that line means.
LEMMA SaysLine ==
  ASSUME NEW chars, NEW m, IsLine(chars, m)
  PROVE  Says(chars, Single(m))
<1>1. ASSUME NEW before, IsSequence(before)
      PROVE  \E lines : /\ AreRead(lines, Single(m))
                        /\ ReadOn(Between(before), chars) = Between(before \o lines)
  <2>1. PICK line : /\ ReadOn(Between(before), chars) = Between(Append(before, line))
                    /\ AsRead(line) = m
    BY <1>1 DEF IsLine
  <2>2. Append(before, line) = before \o Single(line)
    BY <1>1, Appended
  <2>3. AreRead(Single(line), Single(m))
    BY <2>1, OneCharacter DEF AreRead
  <2> QED BY <2>1, <2>2, <2>3
<1> QED BY <1>1 DEF Says, IsLine

\* The whole stream, from its beginning.
LEMMA SaysRead ==
  ASSUME NEW chars, NEW M, Says(chars, M)
  PROVE  Read(chars) = M /\ IsSequence(M)
<1>1. ReadStart = Between(<<>>)
  BY DEF ReadStart, Between, At
<1>2. IsSequence(<<>>)
  BY Typed, <<>> \in Seq({})
<1>3. PICK lines : /\ AreRead(lines, M)
                   /\ ReadOn(Between(<<>>), chars) = Between(<<>> \o lines)
  BY <1>2 DEF Says
<1>4. IsSequence(lines) /\ IsSequence(M) /\ Len(lines) = Len(M)
  BY <1>3 DEF AreRead
<1>5. ReadOn(ReadStart, chars).lines = lines
  <2>1. <<>> \o lines = lines
    BY <1>4, JoinedEmpty
  <2>2. Between(lines).lines = lines
    BY DEF Between, At
  <2> QED BY <1>1, <1>3, <2>1, <2>2
<1>6. DOMAIN lines = 1..Len(M) /\ M = [i \in 1..Len(M) |-> M[i]]
  BY <1>4, Elements
<1>7. Read(chars) = [i \in 1..Len(M) |-> AsRead(lines[i])]
  BY <1>5, <1>6 DEF Read
<1>8. \A i \in 1..Len(M) : AsRead(lines[i]) = M[i]
  BY <1>3 DEF AreRead
<1>9. Read(chars) = [i \in 1..Len(M) |-> M[i]]
  BY <1>7, <1>8
<1> QED BY <1>4, <1>6, <1>9

-----------------------------------------------------------------------------
(* The lines of the format. *)

\* A line that is a name so far has no label.
LEMMA SampleBegins ==
  ASSUME NEW name, IsWord(name)
  PROVE  InSample(Single(name), name, {})
<1> DEFINE begin == Single(name)
<1>1. IsSequence(begin) /\ Len(begin) = 1 /\ begin[1] = name
  BY OneCharacter
<1>2. name \notin {Quote, Newline, Help, Type, Equals}
  BY DEF IsWord
<1> HIDE DEF begin
<1>3. DOMAIN begin = {1}
  BY <1>1, Elements
<1>4. Pairs(begin) = {}
  BY <1>1, <1>2, <1>3 DEF Pairs
<1>5. InSample(begin, name, {})
  BY <1>1, <1>2, <1>4 DEF InSample
<1> QED BY <1>5 DEF begin

\* A sample: its name, its labels in whatever form, and its value.
LEMMA SampleSays ==
  ASSUME NEW name, IsWord(name), NEW v, IsWord(v), NEW labels,
         NEW middle, IsSequence(middle),
         \A r, lines : Within(r, lines, name, {}) =>
                         Within(ReadOn(r, middle), lines, name, labels)
  PROVE  /\ IsSequence(Single(name) \o (middle \o Two(v, Newline)))
         /\ Says(Single(name) \o (middle \o Two(v, Newline)),
                 Single([name |-> name, value |-> v, labels |-> labels]))
<1> DEFINE end == Two(v, Newline)
           begin == Single(name)
           sample == [name |-> name, value |-> v, labels |-> labels]
           chars == begin \o (middle \o end)
<1>1. /\ IsSequence(begin) /\ IsSequence(end)
      /\ end = Single(v) \o Single(Newline) /\ IsSequence(Single(v)) /\ IsSequence(Single(Newline))
  BY OneCharacter, TwoCharacters
<1>2. /\ name \notin {Quote, Newline, Help, Type, Equals}
      /\ v \notin {Quote, Newline, Help, Equals}
  BY DEF IsWord
<1> HIDE DEF end, sample
<1>3. IsSequence(middle \o end) /\ IsSequence(chars)
  <2> HIDE DEF begin
  <2> QED BY <1>1, Joined
<1>4. ASSUME NEW before, IsSequence(before)
      PROVE  \E line : /\ ReadOn(Between(before), chars) = Between(Append(before, line))
                       /\ AsRead(line) = sample
  <2> DEFINE r == ReadOn(Between(before), begin)
             s == ReadOn(r, middle)
  <2>1. r = At(before, begin, "line", <<>>)
    <3> DEFINE none == <<>>
    <3>1. Append(none, name) = begin
      BY Characters
    <3>2. ReadOn(Between(before), Single(name)) = ReadChar(Between(before), name)
      BY ReadOne
    <3>3. Between(before) = At(before, none, "line", none)
      BY DEF Between
    <3> HIDE DEF none
    <3>4. ReadChar(At(before, none, "line", none), name)
            = At(before, Append(none, name), IF name = Help THEN "name" ELSE "line", none)
      BY <1>2, ReadToken
    <3> QED BY <1>2, <3>1, <3>2, <3>3, <3>4 DEF none
  <2>2. InSample(begin, name, {})
    BY SampleBegins
  <2>3. Within(r, before, name, {})
    BY <2>1, <2>2 DEF Within
  <2>4. Within(s, before, name, labels)
    BY <2>3
  <2> HIDE DEF r, s
  <2>5. PICK line, text : s = At(before, line, "line", text) /\ InSample(line, name, labels)
    BY <2>4 DEF Within
  <2>6. ReadOn(s, Single(v)) = At(before, Append(line, v), "line", text)
    BY <1>2, <2>5, ReadOne, ReadToken
  <2>7. ReadOn(At(before, Append(line, v), "line", text), Single(Newline))
          = Between(Append(before, Append(line, v)))
    BY ReadOne, ReadNewline DEF Between
  <2>8. ReadOn(s, end) = Between(Append(before, Append(line, v)))
    BY <1>1, <2>6, <2>7, ReadJoined
  <2>9. AsRead(Append(line, v)) = sample
    BY <1>2, <2>5, SampleRead DEF sample
  <2>10. ReadOn(r, middle \o end) = ReadOn(s, end)
    BY <1>1, ReadJoined DEF s
  <2>11. ReadOn(Between(before), chars) = ReadOn(r, middle \o end)
    <3> HIDE DEF begin
    <3> QED BY <1>1, <1>3, ReadJoined DEF r
  <2> QED BY <2>8, <2>9, <2>10, <2>11
<1>5. Says(chars, Single(sample))
  <2> HIDE DEF chars
  <2>1. IsLine(chars, sample)
    BY <1>3, <1>4 DEF IsLine
  <2> QED BY <2>1, SaysLine
<1> QED BY <1>3, <1>5 DEF end, sample

\* A metric whose labels are as TextAssumption has them.
IsLabelled(x) == IsSequence(x.label) /\ \A i \in DOMAIN x.label : IsLabel(x.label[i])

\* The labels of a metric are those up to the last.
LEMMA AllLabels ==
  ASSUME NEW x, IsLabelled(x)
  PROVE  /\ Len(x.label) \in Nat
         /\ LabelSet(x) = LabelsUpTo(x.label, Len(x.label))
         /\ Len(x.label) = 0 => LabelSet(x) = {} /\ LabelList(x.label) = <<>>
<1>1. IsSequence(x.label)
  BY DEF IsLabelled
<1>2. Len(x.label) \in Nat /\ DOMAIN x.label = 1..Len(x.label)
  BY <1>1, Elements
<1>3. LabelSet(x) = LabelsUpTo(x.label, Len(x.label))
  BY <1>2 DEF LabelSet, LabelsUpTo
<1>4. ASSUME Len(x.label) = 0
      PROVE  LabelSet(x) = {} /\ LabelList(x.label) = <<>>
  <2>1. DOMAIN x.label = {}
    BY <1>2, <1>4
  <2>2. LabelSet(x) = {}
    BY <2>1 DEF LabelSet
  <2>3. LabelList(x.label) = FlattenSeq(<<>>)
    BY <2>1 DEF LabelList
  <2> QED BY <2>2, <2>3, FlattenNone
<1> QED BY <1>2, <1>3, <1>4

\* The line of a counter, a gauge or an untyped metric says its sample
\* (output_formatter.cc:109-163).
LEMMA ScalarSays ==
  ASSUME NEW name, IsWord(name), NEW x, IsLabelled(x), IsWord(escape_double(x.value))
  PROVE  Says(ScalarLine(name, x),
              Single([name |-> name, value |-> escape_double(x.value), labels |-> LabelSet(x)]))
<1> DEFINE v == escape_double(x.value)
           list == LabelList(x.label)
           open == Single(Open)
           close == Single(Close)
           middle == IF Len(x.label) > 0 THEN (open \o list) \o close ELSE <<>>
<1>1. ScalarLine(name, x) = (Single(name) \o middle) \o Two(v, Newline)
  BY DEF ScalarLine, Single, Two
<1>2. /\ IsSequence(Single(name)) /\ IsSequence(Two(v, Newline))
      /\ IsSequence(open) /\ IsSequence(close) /\ IsSequence(<<>>)
  BY OneCharacter, TwoCharacters, Typed, <<>> \in Seq({})
<1> HIDE DEF list, open, close
<1>3. ASSUME NEW r, NEW lines, Within(r, lines, name, {})
      PROVE  /\ IsSequence(list)
             /\ Within(ReadOn(r, (open \o list) \o close), lines, name, LabelSet(x))
  <2>1. Within(ReadOn(r, open), lines, name, {})
    BY <1>3, ReadPlain, Marks DEF open
  <2>2. /\ IsSequence(list)
        /\ Within(ReadOn(ReadOn(r, open), list), lines, name, LabelSet(x))
    BY <2>1, ReadLabels, AllLabels DEF IsLabelled, list
  <2>3. Within(ReadOn(ReadOn(ReadOn(r, open), list), close), lines, name, LabelSet(x))
    BY <2>2, ReadPlain, Marks DEF close
  <2>4. IsSequence(open \o list)
    BY <1>2, <2>2, Joined
  <2>5. ReadOn(r, (open \o list) \o close) = ReadOn(ReadOn(ReadOn(r, open), list), close)
    BY <1>2, <2>2, <2>4, ReadJoined
  <2> QED BY <2>2, <2>3, <2>5
<1>4. IsSequence(list)
  <2>1. InSample(Single(name), name, {})
    BY SampleBegins
  <2>2. Within(At(<<>>, Single(name), "line", <<>>), <<>>, name, {})
    BY <2>1 DEF Within
  <2> QED BY <1>3, <2>2
<1>5. IsSequence(middle)
  BY <1>2, <1>4, Joined
<1>6. ASSUME NEW r, NEW lines, Within(r, lines, name, {})
      PROVE  Within(ReadOn(r, middle), lines, name, LabelSet(x))
  <2>1. CASE Len(x.label) > 0
    BY <1>3, <1>6, <2>1
  <2>2. CASE ~(Len(x.label) > 0)
    <3>1. middle = <<>>
      BY <2>2
    <3> HIDE DEF middle
    <3>2. LabelSet(x) = {}
      <4>1. Len(x.label) = 0
        BY <2>2, AllLabels
      <4> QED BY <4>1, AllLabels
    <3>3. ReadOn(r, middle) = r
      BY <3>1, ReadNothing
    <3> QED BY <1>6, <3>2, <3>3
  <2> QED BY <2>1, <2>2
<1> HIDE DEF middle, v
<1>7. Says(Single(name) \o (middle \o Two(v, Newline)),
           Single([name |-> name, value |-> v, labels |-> LabelSet(x)]))
  <2>1. IsWord(v)
    BY DEF v
  <2> QED BY <1>5, <1>6, <2>1, SampleSays
<1>8. (Single(name) \o middle) \o Two(v, Newline) = Single(name) \o (middle \o Two(v, Newline))
  BY <1>2, <1>5, JoinedThrice, SMTT(30)
<1> QED BY <1>1, <1>7, <1>8 DEF v

\* The parts of a bucket's line, grouped as its writer and as its reader do.
Left(h, o, l, c, t) == (((h \o o) \o l) \o c) \o t
Right(h, o, l, c, t) == h \o (o \o (l \o (c \o t)))
Inner(o, l, c, v, d, e) == (o \o (l \o (c \o (v \o d)))) \o e
Outer(o, l, c, v, d, e) == o \o (l \o (c \o (v \o (d \o e))))

\* What the writer puts together from the left.
LEMMA GroupedLeft ==
  ASSUME NEW h, IsSequence(h), NEW o, IsSequence(o), NEW l, IsSequence(l),
         NEW c, IsSequence(c), NEW t, IsSequence(t)
  PROVE  Left(h, o, l, c, t) = Right(h, o, l, c, t)
<1> DEFINE ho == h \o o
           hol == ho \o l
           ct == c \o t
           lct == l \o ct
<1>1. IsSequence(ho)
  BY Joined
<1>2. ho \o lct = h \o (o \o lct)
  <2>1. IsSequence(ct)
    BY Joined
  <2> HIDE DEF ct
  <2>2. IsSequence(lct)
    BY <2>1, Joined
  <2> HIDE DEF lct
  <2> QED BY <2>2, JoinedThrice, SMTT(30)
<1> HIDE DEF ho
<1>3. IsSequence(hol)
  BY <1>1, Joined
<1>4. hol \o ct = ho \o lct
  <2>1. IsSequence(ct)
    BY Joined
  <2> HIDE DEF ct
  <2> QED BY <1>1, <2>1, JoinedThrice, SMTT(30)
<1> HIDE DEF hol
<1>5. (hol \o c) \o t = hol \o ct
  BY <1>3, JoinedThrice, SMTT(30)
<1>6. (hol \o c) \o t = h \o (o \o (l \o (c \o t)))
  BY <1>2, <1>4, <1>5
<1> QED BY <1>6 DEF hol, ho, Left, Right

\* What the reader takes apart from the right.
LEMMA GroupedMiddle ==
  ASSUME NEW o, IsSequence(o), NEW l, IsSequence(l), NEW c, IsSequence(c),
         NEW v, IsSequence(v), NEW d, IsSequence(d), NEW e, IsSequence(e)
  PROVE  Inner(o, l, c, v, d, e) = Outer(o, l, c, v, d, e)
<1> DEFINE vd == v \o d
           cvd == c \o vd
           lcvd == l \o cvd
<1>1. IsSequence(vd)
  BY Joined
<1>2. vd \o e = v \o (d \o e)
  BY JoinedThrice, SMTT(30)
<1> HIDE DEF vd
<1>3. IsSequence(cvd)
  BY <1>1, Joined
<1>4. cvd \o e = c \o (vd \o e)
  BY <1>1, JoinedThrice, SMTT(30)
<1> HIDE DEF cvd
<1>5. IsSequence(lcvd)
  BY <1>3, Joined
<1>6. lcvd \o e = l \o (cvd \o e)
  BY ONLY <1>3, JoinedThrice
<1> HIDE DEF lcvd
<1>7. (o \o lcvd) \o e = o \o (lcvd \o e)
  BY <1>5, JoinedThrice, SMTT(30)
<1>8. (o \o lcvd) \o e = o \o (l \o (c \o (v \o (d \o e))))
  BY <1>2, <1>4, <1>6, <1>7
<1> QED BY <1>8 DEF lcvd, cvd, vd, Inner, Outer

\* The line of a bucket says its sample (output_formatter.cc:168-189).
LEMMA BucketSays ==
  ASSUME NEW name, IsWord(name), NEW x, IsLabelled(x),
         NEW b, IsWord(escape_double(b.upper_bound)),
         <<escape_double(b.upper_bound)>> # Equals, IsWord(b.cumulative_count)
  PROVE  Says(BucketLine(name, x, b),
              Single([name |-> name, value |-> b.cumulative_count,
                   labels |-> LabelSet(x) \union
                                {<<le, <<escape_double(b.upper_bound)>> >>}]))
<1> DEFINE ub == escape_double(b.upper_bound)
           cc == b.cumulative_count
           list == LabelList(x.label)
           open == Single(Open)
           close == Single(Close)
           comma == IF Len(x.label) > 0 THEN Single(Comma) ELSE <<>>
           level == LabelChars(le, Single(ub))
           end == Two(cc, Newline)
           head == Single(name)
           all == LabelSet(x) \union {<<le, Single(ub)>>}
<1>1. BucketLine(name, x, b)
        = ((Two(name, Open) \o list) \o comma)
          \o <<le, Equals, Quote, ub, Quote, Close, cc, Newline>>
  BY DEF BucketLine, Single, Two
<1>2. <<le, Equals, Quote, ub, Quote, Close, cc, Newline>> = level \o (close \o end)
  <2>1. QuotedBody(Single(ub)) = Single(ub)
    <3>1. IsSequence(<<>>) /\ QuotedBody(<<>>) = <<>>
      BY QuotedBodyNext, Typed, <<>> \in Seq({})
    <3> DEFINE none == <<>>
    <3>2. Append(none, ub) = Single(ub) /\ none \o Single(ub) = Single(ub)
      BY Characters, JoinedEmpty, OneCharacter
    <3>3. Escape("quoted", ub) = Single(ub)
      BY DEF Escape, IsWord
    <3>4. IsSequence(none) /\ QuotedBody(none) = none
      BY <3>1
    <3> HIDE DEF none, ub
    <3>5. QuotedBody(Append(none, ub)) = QuotedBody(none) \o Escape("quoted", ub)
      BY <3>4, QuotedBodyNext
    <3> QED BY <3>2, <3>3, <3>4, <3>5
  <2> HIDE DEF ub, cc
  <2>2. level = Two(le, Equals) \o (Single(Quote) \o (Single(ub) \o Single(Quote)))
    BY <2>1 DEF LabelChars
  <2>3. <<le, Equals, Quote, ub, Quote, Close, cc, Newline>>
          = (Two(le, Equals) \o (Single(Quote) \o (Single(ub) \o Single(Quote))))
            \o (Single(Close) \o Two(cc, Newline))
    <3>1. BucketTail(le, Equals, Quote, ub, Quote, Close, cc, Newline)
            = TailParts(le, Equals, Quote, ub, Quote, Close, cc, Newline)
      BY BucketEnd
    <3> QED BY ONLY <3>1 DEF BucketTail, TailParts
  <2> HIDE DEF level
  <2> QED BY <2>2, <2>3
<1>3. /\ Two(name, Open) = head \o open /\ IsSequence(head) /\ IsSequence(open)
      /\ IsSequence(close) /\ IsSequence(end) /\ IsSequence(comma)
      /\ IsSequence(Single(ub))
  BY OneCharacter, TwoCharacters, Typed, <<>> \in Seq({})
<1> HIDE DEF ub, cc, list, open, close, comma, level, end, head, all
<1>4. ASSUME NEW r, NEW lines, Within(r, lines, name, {})
      PROVE  /\ IsSequence(list) /\ IsSequence(level)
             /\ Within(ReadOn(ReadOn(ReadOn(ReadOn(ReadOn(r, open), list), comma), level),
                              close), lines, name, all)
  <2>1. Within(ReadOn(r, open), lines, name, {})
    BY <1>4, ReadPlain, Marks DEF open
  <2> DEFINE r2 == ReadOn(ReadOn(r, open), list)
             r3 == ReadOn(r2, comma)
             r4 == ReadOn(r3, level)
  <2>2. IsSequence(list) /\ Within(r2, lines, name, LabelSet(x))
    BY <2>1, ReadLabels, AllLabels DEF IsLabelled, list
  <2> HIDE DEF r2
  <2>3. Within(r3, lines, name, LabelSet(x))
    <3>1. CASE Len(x.label) > 0
      <4>1. comma = Single(Comma)
        BY <3>1 DEF comma
      <4> QED BY <2>2, <4>1, ReadPlain, Marks
    <3>2. CASE ~(Len(x.label) > 0)
      <4>1. comma = <<>>
        BY <3>2 DEF comma
      <4> QED BY <2>2, <4>1, ReadNothing
    <3> QED BY <3>1, <3>2
  <2> HIDE DEF r3
  <2>4. IsSequence(level) /\ Within(r4, lines, name, all)
    <3>1. IsWord(le) /\ Single(ub) # Equals
      BY Marks DEF Single, ub
    <3> QED BY <1>3, <2>3, <3>1, ReadLabel DEF level, all
  <2> HIDE DEF r4
  <2>5. Within(ReadOn(r4, close), lines, name, all)
    BY <2>4, ReadPlain, Marks DEF close
  <2> QED BY <2>2, <2>4, <2>5 DEF r2, r3, r4
<1>5. IsSequence(list) /\ IsSequence(level)
  <2>1. InSample(Single(name), name, {})
    BY SampleBegins
  <2>2. Within(At(<<>>, Single(name), "line", <<>>), <<>>, name, {})
    BY <2>1 DEF Within
  <2> QED BY <1>4, <2>2
<1> DEFINE m4 == level \o close
           m3 == comma \o m4
           m2 == list \o m3
           middle == open \o m2
<1>6. IsSequence(m4) /\ IsSequence(m3) /\ IsSequence(m2) /\ IsSequence(middle)
  <2>1. IsSequence(m4)
    BY <1>3, <1>5, Joined
  <2> HIDE DEF m4
  <2>2. IsSequence(m3)
    BY <1>3, <2>1, Joined
  <2> HIDE DEF m3
  <2>3. IsSequence(m2)
    BY <1>5, <2>2, Joined
  <2> HIDE DEF m2
  <2>4. IsSequence(middle)
    BY <1>3, <2>3, Joined
  <2> QED BY <2>1, <2>2, <2>3, <2>4
<1>7. ASSUME NEW r
      PROVE  ReadOn(r, middle)
               = ReadOn(ReadOn(ReadOn(ReadOn(ReadOn(r, open), list), comma), level), close)
  <2>1. ASSUME NEW s PROVE ReadOn(s, m4) = ReadOn(ReadOn(s, level), close)
    BY <1>3, <1>5, ReadJoined
  <2> HIDE DEF m4
  <2>2. ASSUME NEW s PROVE ReadOn(s, m3) = ReadOn(ReadOn(s, comma), m4)
    BY <1>3, <1>6, ReadJoined
  <2> HIDE DEF m3
  <2>3. ASSUME NEW s PROVE ReadOn(s, m2) = ReadOn(ReadOn(s, list), m3)
    BY <1>5, <1>6, ReadJoined
  <2> HIDE DEF m2
  <2>4. ReadOn(r, middle) = ReadOn(ReadOn(r, open), m2)
    BY <1>3, <1>6, ReadJoined
  <2> QED BY <2>1, <2>2, <2>3, <2>4
<1> HIDE DEF middle
<1>8. Says(head \o (middle \o end), Single([name |-> name, value |-> cc, labels |-> all]))
  <2>1. IsWord(cc)
    BY DEF cc
  <2>2. \A r, lines : Within(r, lines, name, {}) =>
                         Within(ReadOn(r, middle), lines, name, all)
    BY <1>4, <1>7
  <2> QED BY <1>6, <2>1, <2>2, SampleSays DEF head, end
<1>9. ((Two(name, Open) \o list) \o comma) \o (level \o (close \o end))
        = head \o (middle \o end)
  <2> DEFINE t == level \o (close \o end)
  <2>1. IsSequence(t)
    <3>1. IsSequence(close \o end)
      BY <1>3, Joined
    <3> HIDE DEF close, end
    <3> QED BY <1>5, <3>1, Joined
  <2>2. /\ IsSequence(head) /\ IsSequence(open) /\ IsSequence(list) /\ IsSequence(comma)
        /\ IsSequence(level) /\ IsSequence(close) /\ IsSequence(end)
    BY <1>3, <1>5
  <2>3. (open \o (list \o (comma \o (level \o close)))) \o end
          = open \o (list \o (comma \o (level \o (close \o end))))
    <3>1. Inner(open, list, comma, level, close, end) = Outer(open, list, comma, level, close, end)
      BY ONLY <2>2, GroupedMiddle
    <3> QED BY ONLY <3>1 DEF Inner, Outer
  <2>4. middle \o end = open \o (list \o (comma \o t))
    BY <2>3 DEF middle
  <2> HIDE DEF t
  <2>5. (((head \o open) \o list) \o comma) \o t
          = head \o (open \o (list \o (comma \o t)))
    <3>1. Left(head, open, list, comma, t) = Right(head, open, list, comma, t)
      BY ONLY <2>1, <2>2, GroupedLeft
    <3> QED BY ONLY <3>1 DEF Left, Right
  <2> QED BY <1>3, <2>4, <2>5 DEF t
<1> QED BY <1>1, <1>2, <1>8, <1>9 DEF Single, ub, cc, all

Three(a, b, c) == <<a, b, c>>
Four(a, b, c, d) == <<a, b, c, d>>

\* Four characters are two and two.
LEMMA FourParted ==
  ASSUME NEW a, NEW b, NEW c, NEW d
  PROVE  Four(a, b, c, d) = Two(a, b) \o Two(c, d)
<1> DEFINE p == Two(a, b)
           q == Two(c, d)
           t == <<a, b, c, d>>
<1>1. /\ IsSequence(p) /\ Len(p) = 2 /\ p[1] = a /\ p[2] = b
      /\ IsSequence(q) /\ Len(q) = 2 /\ q[1] = c /\ q[2] = d
  <2>1. \A x, y : Len(Two(x, y)) = 2 /\ Two(x, y)[1] = x /\ Two(x, y)[2] = y
    BY DEF Two
  <2> QED BY <2>1, TwoCharacters
<1>2. /\ t \in Seq({a, b, c, d}) /\ Len(t) = 4
      /\ t[1] = a /\ t[2] = b /\ t[3] = c /\ t[4] = d
  OBVIOUS
<1>3. IsSequence(t)
  BY <1>2, Typed
<1> HIDE DEF p, q, t
<1>4. /\ IsSequence(p \o q) /\ Len(p \o q) = Len(p) + Len(q)
      /\ \A i \in 1..Len(p) : (p \o q)[i] = p[i]
      /\ \A i \in 1..Len(q) : (p \o q)[Len(p) + i] = q[i]
  <2>1. IsSequence(p) /\ IsSequence(q)
    BY <1>1
  <2> QED BY ONLY <2>1, Joined
<1> DEFINE pq == p \o q
<1>5. IsSequence(pq) /\ Len(pq) = 4
  BY <1>1, <1>4
<1>6. pq[1] = a /\ pq[2] = b /\ pq[3] = c /\ pq[4] = d
  <2>1. /\ \A i \in 1..2 : pq[i] = p[i]
        /\ \A i \in 1..2 : pq[2 + i] = q[i]
    BY <1>1, <1>4
  <2> HIDE DEF pq
  <2>2. pq[1] = p[1] /\ pq[2] = p[2]
    BY <2>1
  <2>3. pq[2 + 1] = q[1] /\ pq[2 + 2] = q[2]
    BY <2>1
  <2>4. pq[3] = q[1] /\ pq[4] = q[2]
    BY <2>3
  <2> QED BY <1>1, <2>2, <2>4
<1> HIDE DEF pq
<1>7. \A i \in 1..4 : pq[i] = t[i]
  <2>1. \A i \in 1..4 : i = 1 \/ i = 2 \/ i = 3 \/ i = 4
    OBVIOUS
  <2> QED BY <1>2, <1>6, <2>1
<1>8. pq = t
  BY <1>2, <1>3, <1>5, <1>7, SameElements
<1> QED BY <1>8 DEF pq, p, q, t, Four

\* A HELP line.
LEMMA HelpSays ==
  ASSUME NEW name, IsWord(name), NEW u, IsSequence(u)
  PROVE  Says((Two(Help, name) \o HelpBody(u)) \o Single(Newline),
              Single([header |-> Three(Help, name, u)]))
<1> DEFINE start == Two(Help, name)
           body == HelpBody(u)
           end == Single(Newline)
           none == <<>>
           line == Three(Help, name, u)
<1>1. /\ IsSequence(start) /\ IsSequence(body) /\ IsSequence(end)
      /\ start = Single(Help) \o Single(name)
      /\ IsSequence(Single(Help)) /\ IsSequence(Single(name))
  BY OneCharacter, TwoCharacters, HelpBodyNext
<1>2. name # Newline /\ Help \notin {Quote, Newline}
  BY Marks DEF IsWord
<1>3. Append(none, Help) = Single(Help) /\ Append(Single(Help), name) = start
  BY Characters
<1>4. Append(start, u) = line
  BY Characters DEF Three
<1>5. AsRead(line) = [header |-> line]
  BY DEF AsRead, Three
<1> HIDE DEF start, body, end, none, line
<1>6. ASSUME NEW before, IsSequence(before)
      PROVE  ReadOn(Between(before), (start \o body) \o end) = Between(Append(before, line))
  <2>1. Between(before) = At(before, none, "line", none)
    BY DEF Between, none
  <2>2. ReadOn(Between(before), Single(Help)) = At(before, Single(Help), "name", none)
    <3>1. ReadChar(At(before, none, "line", none), Help)
            = At(before, Append(none, Help), IF Help = Help THEN "name" ELSE "line", none)
      BY <1>2, ReadToken
    <3> QED BY <1>3, <2>1, <3>1, ReadOne
  <2>3. ReadOn(At(before, Single(Help), "name", none), Single(name))
          = At(before, start, "help", none)
    <3>1. ReadChar(At(before, Single(Help), "name", none), name)
            = At(before, Append(Single(Help), name), "help", none)
      BY <1>2, ReadName
    <3> QED BY <1>3, <3>1, ReadOne
  <2>4. ReadOn(Between(before), start) = At(before, start, "help", none)
    BY <1>1, <2>2, <2>3, ReadJoined
  <2>5. ReadOn(At(before, start, "help", none), body) = At(before, start, "help", u)
    BY ReadBody DEF body, none
  <2>6. ReadOn(At(before, start, "help", u), end) = Between(Append(before, line))
    <3>1. ReadChar(At(before, start, "help", u), Newline)
            = At(Append(before, Append(start, u)), none, "line", none)
      BY ReadNewline DEF none
    <3>2. Between(Append(before, line)) = At(Append(before, line), none, "line", none)
      BY DEF Between, none
    <3> QED BY <1>4, <3>1, <3>2, ReadOne DEF end
  <2>7. IsSequence(start \o body)
    BY <1>1, Joined
  <2>8. ReadOn(Between(before), (start \o body) \o end)
          = ReadOn(ReadOn(ReadOn(Between(before), start), body), end)
    BY <1>1, <2>7, ReadJoined
  <2> QED BY <2>4, <2>5, <2>6, <2>8
<1>7. IsSequence((start \o body) \o end)
  BY <1>1, Joined
<1> DEFINE chars == (start \o body) \o end
<1>8. Says(chars, Single([header |-> line]))
  <2> DEFINE m == [header |-> line]
  <2>1. AsRead(line) = m
    BY <1>5
  <2> HIDE DEF chars, m
  <2>2. \A before : IsSequence(before) =>
           ReadOn(Between(before), chars) = Between(Append(before, line))
    BY <1>6 DEF chars
  <2>3. IsSequence(chars)
    BY <1>7 DEF chars
  <2>4. IsLine(chars, m)
    BY <2>1, <2>2, <2>3 DEF IsLine
  <2>9. Says(chars, Single(m))
    BY <2>4, SaysLine
  <2> QED BY <2>9 DEF m
<1> QED BY <1>8 DEF start, body, end, line

\* A TYPE line.
LEMMA TypeSays ==
  ASSUME NEW name, IsWord(name), NEW type, IsWord(type)
  PROVE  Says(Four(Type, name, type, Newline), Single([header |-> Three(Type, name, type)]))
<1> DEFINE none == <<>>
           line == Three(Type, name, type)
           chars == Four(Type, name, type, Newline)
<1>1. /\ IsSequence(Two(Type, name)) /\ IsSequence(Two(type, Newline))
      /\ Two(Type, name) = Single(Type) \o Single(name)
      /\ Two(type, Newline) = Single(type) \o Single(Newline)
      /\ IsSequence(Single(Type)) /\ IsSequence(Single(name))
      /\ IsSequence(Single(type)) /\ IsSequence(Single(Newline))
  BY OneCharacter, TwoCharacters
<1>2. /\ Type \notin {Help, Quote, Newline} /\ name \notin {Help, Quote, Newline}
      /\ type \notin {Help, Quote, Newline}
  BY Marks DEF IsWord
<1>3. Append(none, Type) = Single(Type) /\ Append(Single(Type), name) = Two(Type, name)
  BY Characters
<1>4. Append(Two(Type, name), type) = line
  BY Characters DEF Three
<1>5. AsRead(line) = [header |-> line]
  BY DEF AsRead, Three
<1>6. chars = Two(Type, name) \o Two(type, Newline)
  BY FourParted
<1>7. IsSequence(chars)
  <2> DEFINE p == Two(Type, name)
             q == Two(type, Newline)
  <2>1. IsSequence(p) /\ IsSequence(q) /\ chars = p \o q
    BY <1>1, <1>6
  <2> HIDE DEF p, q, chars
  <2>2. IsSequence(p \o q)
    BY <2>1, Joined
  <2> QED BY <2>1, <2>2
<1> HIDE DEF none, line, chars
<1>8. ASSUME NEW before, IsSequence(before)
      PROVE  ReadOn(Between(before), chars) = Between(Append(before, line))
  <2>1. Between(before) = At(before, none, "line", none)
    BY DEF Between, none
  <2>2. ReadOn(Between(before), Single(Type)) = At(before, Single(Type), "line", none)
    <3>1. ReadChar(At(before, none, "line", none), Type)
            = At(before, Append(none, Type), IF Type = Help THEN "name" ELSE "line", none)
      BY <1>2, ReadToken
    <3> QED BY <1>2, <1>3, <2>1, <3>1, ReadOne
  <2>3. ReadOn(At(before, Single(Type), "line", none), Single(name))
          = At(before, Two(Type, name), "line", none)
    <3>1. ReadChar(At(before, Single(Type), "line", none), name)
            = At(before, Append(Single(Type), name), IF name = Help THEN "name" ELSE "line", none)
      BY <1>2, ReadToken
    <3> QED BY <1>2, <1>3, <3>1, ReadOne
  <2>4. ReadOn(At(before, Two(Type, name), "line", none), Single(type))
          = At(before, line, "line", none)
    <3>1. ReadChar(At(before, Two(Type, name), "line", none), type)
            = At(before, Append(Two(Type, name), type), IF type = Help THEN "name" ELSE "line",
                 none)
      BY <1>2, ReadToken
    <3> QED BY <1>2, <1>4, <3>1, ReadOne
  <2>5. ReadOn(At(before, line, "line", none), Single(Newline)) = Between(Append(before, line))
    <3>1. ReadChar(At(before, line, "line", none), Newline)
            = At(Append(before, line), none, "line", none)
      BY ReadNewline DEF none
    <3>2. Between(Append(before, line)) = At(Append(before, line), none, "line", none)
      BY DEF Between, none
    <3> QED BY <3>1, <3>2, ReadOne
  <2>6. ReadOn(Between(before), Two(Type, name)) = At(before, Two(Type, name), "line", none)
    BY <1>1, <2>2, <2>3, ReadJoined
  <2>7. ReadOn(At(before, Two(Type, name), "line", none), Two(type, Newline))
          = Between(Append(before, line))
    BY <1>1, <2>4, <2>5, ReadJoined
  <2>8. ReadOn(Between(before), chars)
          = ReadOn(ReadOn(Between(before), Two(Type, name)), Two(type, Newline))
    BY <1>1, <1>6, ReadJoined
  <2> QED BY <2>6, <2>7, <2>8
<1>9. Says(chars, Single([header |-> line]))
  <2> DEFINE m == [header |-> line]
  <2>1. AsRead(line) = m
    BY <1>5
  <2> HIDE DEF m
  <2>2. IsLine(chars, m)
    BY <1>8, <2>1, <1>7 DEF IsLine
  <2>9. Says(chars, Single(m))
    BY <2>2, SaysLine
  <2> QED BY <2>9 DEF m
<1> QED BY <1>9 DEF chars, line

\* The header of a family.
LEMMA HeaderSays ==
  ASSUME NEW f, IsWord(f.name), IsWord(f.type), f.help = Unset \/ IsSequence(f.help)
  PROVE  Says(Header(f), HeadersOf(f))
<1> DEFINE help == IF f.help = Unset THEN <<>> ELSE f.help
           u == fromUTF8(help)
           first == (Two(Help, f.name) \o HelpBody(u)) \o Single(Newline)
           second == Four(Type, f.name, f.type, Newline)
           h == [header |-> Three(Help, f.name, u)]
           t == [header |-> Three(Type, f.name, f.type)]
<1>1. IsSequence(help)
  <2>1. IsSequence(<<>>)
    BY Typed, <<>> \in Seq({})
  <2> QED BY <2>1
<1>2. IsSequence(u)
  BY <1>1, FromUTF8
<1>3. escape_help(help) = HelpBody(u)
  BY DEF escape_help, HelpBody, Two
<1>4. Header(f) = first \o (IF f.help # Unset THEN second ELSE <<>>)
  BY <1>3 DEF Header, Single, Two, Four
<1>5. HeadersOf(f) = IF f.help = Unset THEN Single(h) ELSE Two(h, t)
  <2>1. fromUTF8(<<>>) = <<>>
    BY DEF fromUTF8
  <2> QED BY <2>1 DEF HeadersOf, Single, Two, Three
<1> HIDE DEF help, u
<1>6. Says(first, Single(h))
  BY <1>2, HelpSays
<1>7. Says(second, Single(t))
  BY TypeSays
<1> HIDE DEF first, second, h, t
<1>8. CASE f.help = Unset
  <2>1. IsSequence(first)
    BY <1>6 DEF Says
  <2>2. Header(f) = first
    BY <1>4, <1>8, <2>1, JoinedEmpty
  <2> QED BY <1>5, <1>6, <1>8, <2>2
<1>9. CASE f.help # Unset
  <2>1. Header(f) = first \o second
    BY <1>4, <1>9
  <2>2. HeadersOf(f) = Single(h) \o Single(t)
    BY <1>5, <1>9, TwoCharacters
  <2> QED BY <1>6, <1>7, <2>1, <2>2, SaysJoined
<1> QED BY <1>8, <1>9

-----------------------------------------------------------------------------
(* Beginnings *)

Begins(s, t) == IsSequence(s) /\ \E u : IsSequence(u) /\ t = s \o u

\* A beginning is a prefix.
LEMMA BeginsPrefix ==
  ASSUME NEW s, NEW t, Begins(s, t)
  PROVE  IsPrefix(s, t)
<1>1. PICK u : IsSequence(u) /\ t = s \o u
  BY DEF Begins
<1>2. IsSequence(s)
  BY DEF Begins
<1>3. /\ IsSequence(s \o u) /\ Len(s \o u) = Len(s) + Len(u)
      /\ \A i \in 1..Len(s) : (s \o u)[i] = s[i]
  <2>1. IsSequence(s) /\ IsSequence(u)
    BY <1>1, <1>2
  <2> QED BY ONLY <2>1, Joined
<1>4. IsSequence(t) /\ Len(t) = Len(s) + Len(u) /\ \A i \in 1..Len(s) : t[i] = s[i]
  BY <1>1, <1>3
<1>5. Len(s) \in Nat /\ Len(u) \in Nat
  BY <1>1, <1>2, Elements
<1>6. SubSeq(s, 1, Len(s)) = SubSeq(t, 1, Len(s))
  BY <1>4, <1>5 DEF SubSeq
<1> QED BY <1>4, <1>5, <1>6 DEF IsPrefix

\* A sequence begins itself.
LEMMA BeginsItself ==
  ASSUME NEW s, IsSequence(s)
  PROVE  Begins(s, s)
BY JoinedEmpty DEF Begins

\* A sequence begins what continues it.
LEMMA BeginsMore ==
  ASSUME NEW s, IsSequence(s), NEW t, IsSequence(t)
  PROVE  Begins(s, s \o t)
BY DEF Begins

\* The beginning of a beginning is a beginning.
LEMMA BeginsOn ==
  ASSUME NEW s, NEW t, Begins(s, t), NEW v, Begins(t, v)
  PROVE  Begins(s, v)
<1>1. PICK a : IsSequence(a) /\ t = s \o a
  BY DEF Begins
<1>2. PICK b : IsSequence(b) /\ v = t \o b
  BY DEF Begins
<1>3. IsSequence(s)
  BY DEF Begins
<1>4. (s \o a) \o b = s \o (a \o b)
  BY ONLY <1>1, <1>2, <1>3, JoinedThrice, SMTT(30)
<1>5. IsSequence(a \o b)
  BY ONLY <1>1, <1>2, Joined
<1>6. v = s \o (a \o b)
  BY <1>1, <1>2, <1>4
<1> QED BY <1>3, <1>5, <1>6 DEF Begins

\* A beginning stays one after the same sequence.
LEMMA BeginsAfter ==
  ASSUME NEW a, IsSequence(a), NEW s, NEW t, Begins(s, t)
  PROVE  Begins(a \o s, a \o t)
<1>1. PICK u : IsSequence(u) /\ t = s \o u
  BY DEF Begins
<1>2. IsSequence(s)
  BY DEF Begins
<1>3. (a \o s) \o u = a \o (s \o u)
  BY ONLY IsSequence(a), <1>1, <1>2, JoinedThrice, SMTT(30)
<1>4. IsSequence(a \o s)
  BY ONLY IsSequence(a), <1>2, Joined
<1>5. a \o t = (a \o s) \o u
  BY <1>1, <1>3
<1> QED BY <1>1, <1>4, <1>5 DEF Begins

-----------------------------------------------------------------------------
(* A list of lists, flattened one after the other. *)

AreParts(p, n) == p = [i \in 1..n |-> p[i]] /\ \A i \in 1..n : IsSequence(p[i])

Flat(p, k) == FlattenSeq(Start(p, k))

\* The first k of n lists, flattened, are a sequence.
LEMMA FlatSequence ==
  ASSUME NEW n \in Nat, NEW p, AreParts(p, n)
  PROVE  /\ Flat(p, 0) = <<>>
         /\ Flat(p, n) = FlattenSeq(p)
         /\ \A k \in 0..n : IsSequence(Flat(p, k))
<1>1. /\ p = [i \in 1..n |-> p[i]]
      /\ \A i \in 1..n : IsSequence(p[i])
  BY DEF AreParts
<1>2. Flat(p, 0) = <<>>
  <2>1. Start(p, 0) = <<>>
    BY DEF Start
  <2> QED BY <2>1, FlattenNone DEF Flat
<1>3. Flat(p, n) = FlattenSeq(p)
  BY <1>1 DEF Flat, Start
<1>4. ASSUME NEW k \in 0..n
      PROVE  IsSequence(Flat(p, k))
  <2> DEFINE f == Start(p, k)
  <2>1. f = [i \in 1..k |-> f[i]] /\ \A i \in 1..k : f[i] = p[i]
    BY DEF Start
  <2>2. k \in Nat /\ \A i \in 1..k : IsSequence(p[i])
    BY <1>1
  <2> HIDE DEF f
  <2>3. \A i \in 1..k : IsSequence(f[i])
    BY <2>1, <2>2
  <2>4. IsSequence(FlattenSeq(f))
    BY <2>1, <2>2, <2>3, FlattenSequence
  <2> QED BY <2>4 DEF Flat, f
<1> QED BY <1>2, <1>3, <1>4

\* One more list comes last.
LEMMA FlatNext ==
  ASSUME NEW n \in Nat, NEW p, AreParts(p, n), NEW k \in 0..(n - 1)
  PROVE  Flat(p, k + 1) = Flat(p, k) \o p[k + 1]
<1> DEFINE f == Start(p, k)
           g == Start(p, k + 1)
<1>1. \A i \in 1..n : IsSequence(p[i])
  BY DEF AreParts
<1>2. /\ f = [i \in 1..k |-> f[i]] /\ \A i \in 1..k : f[i] = p[i]
      /\ g = [i \in 1..(k + 1) |-> g[i]] /\ \A i \in 1..(k + 1) : g[i] = p[i]
  BY DEF Start
<1>3. k \in Nat /\ 1 \in 1..n /\ 1 \in 1..(k + 1) /\ k + 1 \in 1..(k + 1)
      /\ \A i \in 1..k : i \in 1..(k + 1)
  OBVIOUS
<1> HIDE DEF f, g
<1>4. (\A i \in 1..k : g[i] = f[i]) /\ IsSequence(g[1]) /\ g[k + 1] = p[k + 1]
  BY <1>1, <1>2, <1>3
<1>5. FlattenSeq(g) = FlattenSeq(f) \o g[k + 1]
  BY <1>2, <1>3, <1>4, FlattenNext
<1> QED BY <1>4, <1>5 DEF Flat, f, g

\* The first lists begin them all.
LEMMA FlatBegins ==
  ASSUME NEW n \in Nat, NEW p, AreParts(p, n), NEW k \in 0..n
  PROVE  Begins(Flat(p, k), FlattenSeq(p))
<1> DEFINE T == {m \in Nat : k + m <= n => Begins(Flat(p, k), Flat(p, k + m))}
<1>1. \A i \in 0..n : IsSequence(Flat(p, i))
  BY FlatSequence
<1>2. 0 \in T
  <2>1. Begins(Flat(p, k), Flat(p, k))
    BY <1>1, BeginsItself
  <2>2. k + 0 = k
    OBVIOUS
  <2> QED BY <2>1, <2>2
<1>3. ASSUME NEW m \in Nat, m \in T
      PROVE  m + 1 \in T
  <2> SUFFICES ASSUME k + (m + 1) <= n
               PROVE  Begins(Flat(p, k), Flat(p, k + (m + 1)))
    OBVIOUS
  <2>1. /\ Begins(Flat(p, k), Flat(p, k + m)) /\ k + m \in 0..(n - 1) /\ k + m \in 0..n
        /\ (k + m) + 1 \in 1..n /\ k + (m + 1) = (k + m) + 1
    BY <1>3
  <2>2. Flat(p, (k + m) + 1) = Flat(p, k + m) \o p[(k + m) + 1]
    BY <2>1, FlatNext
  <2>3. IsSequence(Flat(p, k + m)) /\ IsSequence(p[(k + m) + 1])
    BY <1>1, <2>1 DEF AreParts
  <2>4. Begins(Flat(p, k + m), Flat(p, k + m) \o p[(k + m) + 1])
    BY <2>3, BeginsMore
  <2>5. Begins(Flat(p, k), Flat(p, k + m) \o p[(k + m) + 1])
    BY <2>1, <2>4, BeginsOn
  <2> QED BY <2>1, <2>2, <2>5
<1>4. n - k \in T
  <2> HIDE DEF T
  <2>1. n - k \in Nat
    OBVIOUS
  <2> QED BY <1>2, <1>3, <2>1, NumberInduction
<1>5. k + (n - k) = n
  OBVIOUS
<1> QED BY <1>4, <1>5, FlatSequence

-----------------------------------------------------------------------------
(* What is written, a family, a metric or a bucket at a time. *)

Families(c) == [i \in DOMAIN c |-> FamilyMeaning(c[i])]
Metrics(f) == [j \in DOMAIN f.metric |-> SamplesOf(f.name, f.type, f.metric[j])]
Buckets(f, x) == [k \in DOMAIN x.value |-> SampleOf(f.name, x, x.value[k])]

MetricsMean(f, n) == HeadersOf(f) \o Flat(Metrics(f), n)

\* The three loops go through lists of what each family, metric and bucket
\* means.
LEMMA Parts ==
  ASSUME NEW c, IsCollection(c)
  PROVE  /\ Len(c) \in Nat /\ DOMAIN c = 1..Len(c) /\ AreParts(Families(c), Len(c))
         /\ \A i \in DOMAIN c : LET f == c[i] IN
              /\ Len(f.metric) \in Nat /\ DOMAIN f.metric = 1..Len(f.metric)
              /\ AreParts(Metrics(f), Len(f.metric))
              /\ IsSequence(HeadersOf(f))
              /\ \A j \in DOMAIN f.metric : LET x == f.metric[j] IN
                   HasBuckets(x) => /\ Len(x.value) \in Nat
                                    /\ DOMAIN x.value = 1..Len(x.value)
                                    /\ AreParts(Buckets(f, x), Len(x.value))
<1>1. IsSequence(<<>>) /\ \A m, h : IsSequence(Single(m)) /\ IsSequence(Two(m, h))
  BY OneCharacter, TwoCharacters, Typed, <<>> \in Seq({})
<1>2. ASSUME NEW name, NEW x, NEW b
      PROVE  IsSequence(SampleOf(name, x, b))
  <2> DEFINE s == [name |-> name, value |-> b.cumulative_count,
                   labels |-> LabelSet(x) \union {<<le, <<escape_double(b.upper_bound)>> >>}]
  <2>1. SampleOf(name, x, b) = IF BucketComplete(b) THEN Single(s) ELSE <<>>
    BY DEF SampleOf, Single
  <2> HIDE DEF s
  <2> QED BY <1>1, <2>1
<1>3. ASSUME NEW f, NEW x, IsSequence(x.value)
      PROVE  /\ Len(x.value) \in Nat /\ DOMAIN x.value = 1..Len(x.value)
             /\ AreParts(Buckets(f, x), Len(x.value))
             /\ IsSequence(FlattenSeq(Buckets(f, x)))
  <2>1. Len(x.value) \in Nat /\ DOMAIN x.value = 1..Len(x.value)
    BY <1>3, Elements
  <2>2. AreParts(Buckets(f, x), Len(x.value))
    BY <1>2, <2>1 DEF AreParts, Buckets
  <2>3. IsSequence(Flat(Buckets(f, x), Len(x.value)))
        /\ Flat(Buckets(f, x), Len(x.value)) = FlattenSeq(Buckets(f, x))
    <3>1. Len(x.value) \in 0..Len(x.value)
      BY <2>1
    <3> QED BY <2>1, <2>2, <3>1, FlatSequence
  <2> QED BY <2>1, <2>2, <2>3
<1>4. ASSUME NEW f, NEW x, x.type = "HISTOGRAM" => IsSequence(x.value)
      PROVE  IsSequence(SamplesOf(f.name, f.type, x))
  <2> DEFINE s == [name |-> f.name, labels |-> LabelSet(x), value |-> escape_double(x.value)]
  <2>1. CASE HasScalar(x, f.type) /\ f.type \in {"COUNTER", "GAUGE", "UNTYPED"}
    <3>1. SamplesOf(f.name, f.type, x) = Single(s)
      <4>1. f.type # "HISTOGRAM"
        BY <2>1
      <4> QED BY <2>1, <4>1 DEF SamplesOf, Single
    <3> HIDE DEF s
    <3> QED BY <1>1, <3>1
  <2>2. CASE HasBuckets(x) /\ f.type = "HISTOGRAM"
    <3>1. IsSequence(x.value)
      BY <1>4, <2>2 DEF HasBuckets
    <3>2. SamplesOf(f.name, f.type, x) = FlattenSeq(Buckets(f, x))
      BY <2>2 DEF SamplesOf, Buckets
    <3> QED BY <1>3, <3>1, <3>2
  <2>3. CASE /\ ~(HasScalar(x, f.type) /\ f.type \in {"COUNTER", "GAUGE", "UNTYPED"})
             /\ ~(HasBuckets(x) /\ f.type = "HISTOGRAM")
    <3>1. SamplesOf(f.name, f.type, x) = <<>>
      BY <2>3 DEF SamplesOf
    <3> QED BY <1>1, <3>1
  <2> QED BY <2>1, <2>2, <2>3
<1>5. ASSUME NEW f
      PROVE  IsSequence(HeadersOf(f))
  <2> DEFINE h == [header |-> <<Help, f.name, fromUTF8(f.help)>>]
             e == [header |-> <<Help, f.name, <<>> >>]
             t == [header |-> <<Type, f.name, f.type>>]
  <2>1. HeadersOf(f) = IF f.help = Unset THEN Single(e) ELSE Two(h, t)
    BY DEF HeadersOf, Single, Two
  <2> HIDE DEF h, e, t
  <2> QED BY <1>1, <2>1
<1>6. /\ IsSequence(c)
      /\ \A i \in DOMAIN c :
           /\ IsSequence(c[i].metric)
           /\ \A j \in DOMAIN c[i].metric :
                c[i].metric[j].type = "HISTOGRAM" => IsSequence(c[i].metric[j].value)
  BY DEF IsCollection
<1>7. ASSUME NEW i \in DOMAIN c
      PROVE  LET f == c[i] IN
             /\ Len(f.metric) \in Nat /\ DOMAIN f.metric = 1..Len(f.metric)
             /\ AreParts(Metrics(f), Len(f.metric))
             /\ IsSequence(FlattenSeq(Metrics(f)))
  <2> DEFINE f == c[i]
  <2>1. Len(f.metric) \in Nat /\ DOMAIN f.metric = 1..Len(f.metric)
    BY <1>6, Elements
  <2>2. \A j \in DOMAIN f.metric : IsSequence(SamplesOf(f.name, f.type, f.metric[j]))
    BY <1>4, <1>6
  <2> HIDE DEF f
  <2>3. AreParts(Metrics(f), Len(f.metric))
    BY <2>1, <2>2 DEF AreParts, Metrics
  <2>4. Len(f.metric) \in 0..Len(f.metric)
    BY <2>1
  <2>5. IsSequence(FlattenSeq(Metrics(f)))
    <3>1. /\ IsSequence(Flat(Metrics(f), Len(f.metric)))
          /\ Flat(Metrics(f), Len(f.metric)) = FlattenSeq(Metrics(f))
      BY <2>1, <2>3, <2>4, FlatSequence
    <3> QED BY <3>1
  <2> QED BY <2>1, <2>3, <2>5 DEF f
<1>8. \A i \in DOMAIN c : IsSequence(FamilyMeaning(c[i]))
  <2> SUFFICES ASSUME NEW i \in DOMAIN c PROVE IsSequence(FamilyMeaning(c[i]))
    OBVIOUS
  <2> DEFINE h == HeadersOf(c[i])
             m == FlattenSeq(Metrics(c[i]))
  <2>1. IsSequence(h) /\ IsSequence(m)
    BY <1>5, <1>7
  <2>2. FamilyMeaning(c[i]) = h \o m
    BY DEF FamilyMeaning, Metrics
  <2> HIDE DEF h, m
  <2>3. IsSequence(h \o m)
    BY ONLY <2>1, Joined
  <2> QED BY <2>2, <2>3
<1>9. Len(c) \in Nat /\ DOMAIN c = 1..Len(c)
  BY <1>6, Elements
<1>10. AreParts(Families(c), Len(c))
  BY <1>8, <1>9 DEF AreParts, Families
<1>11. \A i \in DOMAIN c : \A j \in DOMAIN c[i].metric :
         HasBuckets(c[i].metric[j]) =>
           LET x == c[i].metric[j] IN
           /\ Len(x.value) \in Nat /\ DOMAIN x.value = 1..Len(x.value)
           /\ AreParts(Buckets(c[i], x), Len(x.value))
  BY <1>3, <1>6 DEF HasBuckets
<1> QED BY <1>5, <1>7, <1>9, <1>10, <1>11

\* What a reader has been told before family i, metric j of it, bucket k of that.
FamiliesTold(c, i) == Flat(Families(c), i - 1)
MetricsTold(c, i, j) == FamiliesTold(c, i) \o MetricsMean(c[i], j - 1)
BucketsTold(c, i, j, k) ==
  MetricsTold(c, i, j) \o Flat(Buckets(c[i], c[i].metric[j]), k - 1)

\* What comes before a family: the families before it.
LEMMA FamiliesAreTold ==
  ASSUME NEW c, IsCollection(c)
  PROVE  /\ FamiliesTold(c, 1) = <<>>
         /\ FamiliesTold(c, Len(c) + 1) = Meaning(c)
         /\ \A i \in 1..(Len(c) + 1) :
              IsSequence(FamiliesTold(c, i)) /\ Begins(FamiliesTold(c, i), Meaning(c))
         /\ \A i \in DOMAIN c :
              FamiliesTold(c, i + 1) = FamiliesTold(c, i) \o FamilyMeaning(c[i])
<1> DEFINE n == Len(c)
           p == Families(c)
<1>1. n \in Nat /\ DOMAIN c = 1..n /\ AreParts(p, n)
  BY Parts
<1>2. FlattenSeq(p) = Meaning(c) /\ \A i \in DOMAIN c : p[i] = FamilyMeaning(c[i])
  BY DEF Meaning, Families
<1> HIDE DEF n, p
<1>3. Flat(p, 0) = <<>> /\ Flat(p, n) = Meaning(c)
  BY <1>1, <1>2, FlatSequence
<1>4. \A i \in 1..(n + 1) :
        IsSequence(Flat(p, i - 1)) /\ Begins(Flat(p, i - 1), Meaning(c))
  <2> SUFFICES ASSUME NEW i \in 1..(n + 1)
               PROVE  IsSequence(Flat(p, i - 1)) /\ Begins(Flat(p, i - 1), Meaning(c))
    OBVIOUS
  <2>1. i - 1 \in 0..n
    BY <1>1
  <2> QED BY <1>1, <1>2, <2>1, FlatSequence, FlatBegins
<1>5. \A i \in DOMAIN c : Flat(p, (i + 1) - 1) = Flat(p, i - 1) \o FamilyMeaning(c[i])
  <2> SUFFICES ASSUME NEW i \in DOMAIN c
               PROVE  Flat(p, (i + 1) - 1) = Flat(p, i - 1) \o FamilyMeaning(c[i])
    OBVIOUS
  <2>1. i - 1 \in 0..(n - 1) /\ (i - 1) + 1 = i /\ (i + 1) - 1 = i
    BY <1>1
  <2>2. Flat(p, (i - 1) + 1) = Flat(p, i - 1) \o p[(i - 1) + 1]
    BY <1>1, <2>1, FlatNext
  <2> QED BY <1>2, <2>1, <2>2
<1>6. 1 - 1 = 0 /\ (n + 1) - 1 = n
  BY <1>1
<1> QED BY <1>3, <1>4, <1>5, <1>6 DEF FamiliesTold, n, p

\* What comes before a metric in its family: the header and the metrics
\* before it.
LEMMA MetricsMeaning ==
  ASSUME NEW c, IsCollection(c), NEW i \in DOMAIN c
  PROVE  LET f == c[i] IN
         /\ Len(f.metric) \in Nat /\ DOMAIN f.metric = 1..Len(f.metric)
         /\ IsSequence(HeadersOf(f))
         /\ MetricsMean(f, 0) = HeadersOf(f)
         /\ MetricsMean(f, Len(f.metric)) = FamilyMeaning(f)
         /\ \A j \in 0..Len(f.metric) :
              IsSequence(MetricsMean(f, j)) /\ Begins(MetricsMean(f, j), FamilyMeaning(f))
         /\ \A j \in DOMAIN f.metric :
              /\ IsSequence(SamplesOf(f.name, f.type, f.metric[j]))
              /\ MetricsMean(f, j)
                   = MetricsMean(f, j - 1) \o SamplesOf(f.name, f.type, f.metric[j])
<1> DEFINE f == c[i]
           n == Len(f.metric)
           p == Metrics(f)
           h == HeadersOf(f)
<1>1. n \in Nat /\ DOMAIN f.metric = 1..n /\ AreParts(p, n) /\ IsSequence(h)
  BY Parts
<1>2. /\ FamilyMeaning(f) = h \o FlattenSeq(p)
      /\ \A j \in DOMAIN f.metric : p[j] = SamplesOf(f.name, f.type, f.metric[j])
  BY DEF FamilyMeaning, Metrics
<1>3. \A k : MetricsMean(f, k) = h \o Flat(p, k)
  BY DEF MetricsMean
<1> HIDE DEF n, p, h, f
<1>4. MetricsMean(f, 0) = h
  <2>1. Flat(p, 0) = <<>>
    BY <1>1, FlatSequence
  <2>2. h \o <<>> = h
    BY <1>1, JoinedEmpty
  <2>3. MetricsMean(f, 0) = h \o Flat(p, 0)
    BY <1>3
  <2> QED BY <2>1, <2>2, <2>3
<1>5. MetricsMean(f, n) = FamilyMeaning(f)
  BY <1>1, <1>2, <1>3, FlatSequence
<1>6. ASSUME NEW j \in 0..n
      PROVE  IsSequence(MetricsMean(f, j)) /\ Begins(MetricsMean(f, j), FamilyMeaning(f))
  <2>1. Begins(Flat(p, j), FlattenSeq(p))
    BY <1>1, FlatBegins
  <2>2. Begins(h \o Flat(p, j), h \o FlattenSeq(p))
    BY <1>1, <2>1, BeginsAfter
  <2>3. Begins(MetricsMean(f, j), FamilyMeaning(f))
    BY <1>2, <1>3, <2>2
  <2> QED BY <2>3 DEF Begins
<1>7. ASSUME NEW j \in DOMAIN f.metric
      PROVE  /\ IsSequence(SamplesOf(f.name, f.type, f.metric[j]))
             /\ MetricsMean(f, j)
                   = MetricsMean(f, j - 1) \o SamplesOf(f.name, f.type, f.metric[j])
  <2>1. j - 1 \in 0..(n - 1) /\ j - 1 \in 0..n /\ (j - 1) + 1 = j /\ j \in 1..n
    BY <1>1
  <2>2. Flat(p, (j - 1) + 1) = Flat(p, j - 1) \o p[(j - 1) + 1]
    BY <1>1, <2>1, FlatNext
  <2>3. IsSequence(Flat(p, j - 1)) /\ IsSequence(p[j])
    BY <1>1, <2>1, FlatSequence DEF AreParts
  <2>4. (h \o Flat(p, j - 1)) \o p[j] = h \o (Flat(p, j - 1) \o p[j])
    <3> DEFINE m == Flat(p, j - 1)
               t == p[j]
    <3>1. IsSequence(h) /\ IsSequence(m) /\ IsSequence(t)
      BY <1>1, <2>3
    <3> HIDE DEF m, t
    <3>2. (h \o m) \o t = h \o (m \o t)
      BY ONLY <3>1, JoinedThrice
    <3> QED BY <3>2 DEF m, t
  <2>5. Flat(p, j) = Flat(p, j - 1) \o p[j]
    BY <2>1, <2>2
  <2>6. p[j] = SamplesOf(f.name, f.type, f.metric[j])
    BY <1>2
  <2>7. /\ MetricsMean(f, j) = h \o Flat(p, j)
        /\ MetricsMean(f, j - 1) = h \o Flat(p, j - 1)
    BY <1>3
  <2> QED BY <2>3, <2>4, <2>5, <2>6, <2>7
<1> QED BY <1>1, <1>4, <1>5, <1>6, <1>7 DEF n, h, f

\* What comes before a metric in the collection.
LEMMA MetricsAreTold ==
  ASSUME NEW c, IsCollection(c), NEW i \in DOMAIN c
  PROVE  LET f == c[i] IN
         /\ MetricsTold(c, i, 1) = FamiliesTold(c, i) \o HeadersOf(f)
         /\ MetricsTold(c, i, Len(f.metric) + 1) = FamiliesTold(c, i + 1)
         /\ \A j \in 1..(Len(f.metric) + 1) :
              /\ IsSequence(MetricsTold(c, i, j))
              /\ Begins(MetricsTold(c, i, j), FamiliesTold(c, i + 1))
              /\ Begins(MetricsTold(c, i, j), Meaning(c))
         /\ \A j \in DOMAIN f.metric :
              MetricsTold(c, i, j + 1)
                = MetricsTold(c, i, j) \o SamplesOf(f.name, f.type, f.metric[j])
<1> DEFINE f == c[i]
           n == Len(f.metric)
           a == FamiliesTold(c, i)
<1>1. /\ n \in Nat /\ DOMAIN f.metric = 1..n
      /\ MetricsMean(f, 0) = HeadersOf(f) /\ MetricsMean(f, n) = FamilyMeaning(f)
      /\ \A j \in 0..n :
           IsSequence(MetricsMean(f, j)) /\ Begins(MetricsMean(f, j), FamilyMeaning(f))
      /\ \A j \in DOMAIN f.metric :
           /\ IsSequence(SamplesOf(f.name, f.type, f.metric[j]))
           /\ MetricsMean(f, j)
                = MetricsMean(f, j - 1) \o SamplesOf(f.name, f.type, f.metric[j])
  BY MetricsMeaning
<1>2. i \in 1..(Len(c) + 1) /\ i + 1 \in 1..(Len(c) + 1)
  BY Parts
<1>3. /\ IsSequence(a) /\ FamiliesTold(c, i + 1) = a \o FamilyMeaning(f)
      /\ Begins(FamiliesTold(c, i + 1), Meaning(c))
  BY <1>2, FamiliesAreTold
<1>4. \A j : MetricsTold(c, i, j) = a \o MetricsMean(f, j - 1)
  BY DEF MetricsTold
<1> HIDE DEF f, n, a
<1>5. 1 - 1 = 0 /\ (n + 1) - 1 = n
  BY <1>1
<1>6. MetricsTold(c, i, 1) = a \o HeadersOf(f)
  BY <1>1, <1>4, <1>5
<1>7. MetricsTold(c, i, n + 1) = FamiliesTold(c, i + 1)
  BY <1>1, <1>3, <1>4, <1>5
<1>8. ASSUME NEW j \in 1..(n + 1)
      PROVE  /\ IsSequence(MetricsTold(c, i, j))
             /\ Begins(MetricsTold(c, i, j), FamiliesTold(c, i + 1))
             /\ Begins(MetricsTold(c, i, j), Meaning(c))
  <2>1. j - 1 \in 0..n
    BY <1>1
  <2>2. Begins(MetricsMean(f, j - 1), FamilyMeaning(f))
    BY <1>1, <2>1
  <2>3. Begins(a \o MetricsMean(f, j - 1), a \o FamilyMeaning(f))
    BY <1>3, <2>2, BeginsAfter
  <2>4. Begins(MetricsTold(c, i, j), FamiliesTold(c, i + 1))
    BY <1>3, <1>4, <2>3
  <2>5. Begins(MetricsTold(c, i, j), Meaning(c))
    BY <1>3, <2>4, BeginsOn
  <2> QED BY <2>4, <2>5 DEF Begins
<1>9. ASSUME NEW j \in DOMAIN f.metric
      PROVE  MetricsTold(c, i, j + 1)
                = MetricsTold(c, i, j) \o SamplesOf(f.name, f.type, f.metric[j])
  <2> DEFINE m == MetricsMean(f, j - 1)
             s == SamplesOf(f.name, f.type, f.metric[j])
  <2>1. j - 1 \in 0..n /\ (j + 1) - 1 = j
    BY <1>1
  <2>2. IsSequence(m) /\ IsSequence(s) /\ MetricsMean(f, j) = m \o s
    BY <1>1, <2>1
  <2>3. MetricsTold(c, i, j) = a \o m /\ MetricsTold(c, i, j + 1) = a \o MetricsMean(f, j)
    BY <1>4, <2>1
  <2> HIDE DEF m, s
  <2>4. (a \o m) \o s = a \o (m \o s)
    <3>1. IsSequence(a)
      BY <1>3
    <3> QED BY ONLY <2>2, <3>1, JoinedThrice
  <2> QED BY <2>2, <2>3, <2>4 DEF s
<1> QED BY <1>1, <1>6, <1>7, <1>8, <1>9 DEF f, n, a

\* What comes before a bucket in the collection.
LEMMA BucketsAreTold ==
  ASSUME NEW c, IsCollection(c), NEW i \in DOMAIN c, NEW j \in DOMAIN c[i].metric,
         c[i].type = "HISTOGRAM", HasBuckets(c[i].metric[j])
  PROVE  LET f == c[i]
             x == f.metric[j]
         IN
         /\ Len(x.value) \in Nat /\ DOMAIN x.value = 1..Len(x.value)
         /\ BucketsTold(c, i, j, 1) = MetricsTold(c, i, j)
         /\ BucketsTold(c, i, j, Len(x.value) + 1) = MetricsTold(c, i, j + 1)
         /\ \A k \in 1..(Len(x.value) + 1) :
              /\ IsSequence(BucketsTold(c, i, j, k))
              /\ Begins(BucketsTold(c, i, j, k), Meaning(c))
         /\ \A k \in DOMAIN x.value :
              BucketsTold(c, i, j, k + 1)
                = BucketsTold(c, i, j, k) \o SampleOf(f.name, x, x.value[k])
<1> DEFINE f == c[i]
           x == f.metric[j]
           n == Len(x.value)
           p == Buckets(f, x)
           a == MetricsTold(c, i, j)
<1>1. n \in Nat /\ DOMAIN x.value = 1..n /\ AreParts(p, n)
  BY Parts
<1>2. /\ \A k \in DOMAIN x.value : p[k] = SampleOf(f.name, x, x.value[k])
      /\ FlattenSeq(p) = SamplesOf(f.name, f.type, x)
  BY DEF Buckets, SamplesOf
<1>3. j \in 1..(Len(f.metric) + 1) /\ j + 1 \in 1..(Len(f.metric) + 1)
  BY Parts
<1>4. /\ IsSequence(a)
      /\ MetricsTold(c, i, j + 1) = a \o SamplesOf(f.name, f.type, x)
      /\ Begins(MetricsTold(c, i, j + 1), Meaning(c))
  BY <1>3, MetricsAreTold
<1>5. \A k : BucketsTold(c, i, j, k) = a \o Flat(p, k - 1)
  BY DEF BucketsTold
<1> HIDE DEF f, x, n, p, a
<1>6. 1 - 1 = 0 /\ (n + 1) - 1 = n
  BY <1>1
<1>7. BucketsTold(c, i, j, 1) = a
  <2>1. Flat(p, 1 - 1) = <<>>
    BY <1>1, <1>6, FlatSequence
  <2>2. a \o <<>> = a
    BY <1>4, JoinedEmpty
  <2>3. BucketsTold(c, i, j, 1) = a \o Flat(p, 1 - 1)
    BY <1>5
  <2> QED BY <2>1, <2>2, <2>3
<1>8. BucketsTold(c, i, j, n + 1) = MetricsTold(c, i, j + 1)
  <2>1. Flat(p, (n + 1) - 1) = FlattenSeq(p)
    BY <1>1, <1>6, FlatSequence
  <2> QED BY <1>2, <1>4, <1>5, <2>1
<1>9. ASSUME NEW k \in 1..(n + 1)
      PROVE  /\ IsSequence(BucketsTold(c, i, j, k))
             /\ Begins(BucketsTold(c, i, j, k), Meaning(c))
  <2>1. k - 1 \in 0..n
    BY <1>1
  <2>2. Begins(Flat(p, k - 1), FlattenSeq(p))
    BY <1>1, <2>1, FlatBegins
  <2>3. Begins(a \o Flat(p, k - 1), a \o FlattenSeq(p))
    BY <1>4, <2>2, BeginsAfter
  <2>4. Begins(BucketsTold(c, i, j, k), MetricsTold(c, i, j + 1))
    BY <1>2, <1>4, <1>5, <2>3
  <2>5. Begins(BucketsTold(c, i, j, k), Meaning(c))
    BY <1>4, <2>4, BeginsOn
  <2> QED BY <2>5 DEF Begins
<1>10. ASSUME NEW k \in DOMAIN x.value
       PROVE  BucketsTold(c, i, j, k + 1)
                = BucketsTold(c, i, j, k) \o SampleOf(f.name, x, x.value[k])
  <2> DEFINE m == Flat(p, k - 1)
             s == SampleOf(f.name, x, x.value[k])
  <2>1. k - 1 \in 0..(n - 1) /\ k - 1 \in 0..n /\ k \in 1..n
        /\ (k + 1) - 1 = k /\ (k - 1) + 1 = k
    BY <1>1
  <2>2. Flat(p, k) = m \o p[k]
    <3>1. Flat(p, (k - 1) + 1) = Flat(p, k - 1) \o p[(k - 1) + 1]
      BY <1>1, <2>1, FlatNext
    <3> QED BY <2>1, <3>1
  <2>3. IsSequence(m) /\ IsSequence(p[k]) /\ p[k] = s
    BY <1>1, <1>2, <2>1, FlatSequence DEF AreParts
  <2>4. /\ BucketsTold(c, i, j, k) = a \o m
        /\ BucketsTold(c, i, j, k + 1) = a \o Flat(p, k)
    BY <1>5, <2>1
  <2> HIDE DEF m, s
  <2>5. (a \o m) \o s = a \o (m \o s)
    <3>1. IsSequence(a) /\ IsSequence(m) /\ IsSequence(s)
      BY <1>4, <2>3
    <3> QED BY ONLY <3>1, JoinedThrice
  <2> QED BY <2>2, <2>3, <2>4, <2>5 DEF s
<1> QED BY <1>1, <1>7, <1>8, <1>9, <1>10 DEF f, x, n, a

\* What comes before the next bucket.
LEMMA BucketTold ==
  ASSUME NEW c, IsCollection(c), NEW i \in DOMAIN c, NEW j \in DOMAIN c[i].metric,
         c[i].type = "HISTOGRAM", HasBuckets(c[i].metric[j]),
         NEW k \in DOMAIN c[i].metric[j].value
  PROVE  BucketsTold(c, i, j, k + 1)
           = BucketsTold(c, i, j, k) \o SampleOf(c[i].name, c[i].metric[j],
                                                 c[i].metric[j].value[k])
BY BucketsAreTold

-----------------------------------------------------------------------------
(* Every line says what it should. *)

\* The header of a family of the collection says what it should.
LEMMA HeadersSay ==
  ASSUME NEW c, IsText(c), NEW i \in DOMAIN c
  PROVE  Says(Header(c[i]), HeadersOf(c[i]))
<1>1. /\ IsWord(c[i].name) /\ IsWord(c[i].type)
      /\ c[i].help = Unset \/ IsSequence(c[i].help)
  BY DEF IsText
<1> QED BY <1>1, HeaderSays

\* So does the line of a scalar,
LEMMA ScalarsSay ==
  ASSUME NEW c, IsText(c), NEW i \in DOMAIN c, NEW j \in DOMAIN c[i].metric,
         c[i].type \in {"COUNTER", "GAUGE", "UNTYPED"},
         HasScalar(c[i].metric[j], c[i].type)
  PROVE  Says(ScalarLine(c[i].name, c[i].metric[j]),
              SamplesOf(c[i].name, c[i].type, c[i].metric[j]))
<1> DEFINE f == c[i]
           x == f.metric[j]
           s == [name |-> f.name, value |-> escape_double(x.value), labels |-> LabelSet(x)]
<1>1. /\ IsWord(f.name) /\ IsSequence(x.label) /\ \A k \in DOMAIN x.label : IsLabel(x.label[k])
      /\ x.type # "HISTOGRAM" => IsNumber(x.value)
  BY DEF IsText
<1>2. x.type = f.type /\ x.value # Unset /\ f.type # "HISTOGRAM"
  BY DEF HasScalar
<1>3. IsWord(escape_double(x.value)) /\ IsLabelled(x)
  BY <1>1, <1>2 DEF IsNumber, IsLabelled
<1>4. SamplesOf(f.name, f.type, x) = Single(s)
  BY <1>2 DEF SamplesOf, Single
<1>5. Says(ScalarLine(f.name, x), Single(s))
  <2> HIDE DEF x, f
  <2> QED BY <1>1, <1>3, ScalarSays DEF s
<1> QED BY <1>4, <1>5

\* and that of a bucket.
LEMMA BucketsSay ==
  ASSUME NEW c, IsText(c), NEW i \in DOMAIN c, NEW j \in DOMAIN c[i].metric,
         HasBuckets(c[i].metric[j]),
         NEW k \in DOMAIN c[i].metric[j].value, BucketComplete(c[i].metric[j].value[k])
  PROVE  Says(BucketLine(c[i].name, c[i].metric[j], c[i].metric[j].value[k]),
              SampleOf(c[i].name, c[i].metric[j], c[i].metric[j].value[k]))
<1> DEFINE f == c[i]
           x == f.metric[j]
           b == x.value[k]
           s == [name |-> f.name, value |-> b.cumulative_count,
                 labels |-> LabelSet(x) \union {<<le, <<escape_double(b.upper_bound)>> >>}]
<1>1. /\ IsWord(f.name) /\ IsSequence(x.label) /\ \A l \in DOMAIN x.label : IsLabel(x.label[l])
      /\ IsNumber(b.upper_bound) /\ IsWord(b.cumulative_count)
  BY DEF IsText, HasBuckets
<1>2. b.upper_bound # Unset
  BY DEF BucketComplete
<1>3. /\ IsWord(escape_double(b.upper_bound)) /\ <<escape_double(b.upper_bound)>> # Equals
      /\ IsLabelled(x)
  BY <1>1, <1>2 DEF IsNumber, IsLabelled
<1>4. SampleOf(f.name, x, b) = Single(s)
  BY DEF SampleOf, Single
<1>5. Says(BucketLine(f.name, x, b), Single(s))
  <2> HIDE DEF b, x, f
  <2> QED BY <1>1, <1>3, BucketSays DEF s
<1> QED BY <1>4, <1>5

\* The inductive invariant of the text: what has been written so far says the
\* families, metrics and buckets that the three loops have passed, and the loops
\* stay within the collection.
TextInv ==
  /\ FormatterInv /\ IsText(collection)
  /\ format = "fmt_text" =>
       /\ stage = "family" =>
            fam <= Len(collection) + 1 /\ Says(os, FamiliesTold(collection, fam))
       /\ stage = "metric" =>
            /\ met <= Len(collection[fam].metric) + 1
            /\ Says(os, MetricsTold(collection, fam, met))
       /\ stage = "bucket" =>
            /\ bkt <= Len(collection[fam].metric[met].value) + 1
            /\ Says(os, BucketsTold(collection, fam, met, bkt))
       /\ stage = "returned" => Says(os, Meaning(collection))
       /\ stage = "threw" => \E M : Says(os, M) /\ Begins(M, Meaning(collection))

\* Nothing is written, and there is nothing to say yet.
LEMMA TextInitInv ==
  RenderInit => TextInv
<1> SUFFICES ASSUME RenderInit PROVE TextInv
  OBVIOUS
<1>1. /\ collection \in Collections /\ fam = 1 /\ stage = "family" /\ os = <<>>
  BY DEF RenderInit
<1>2. IsText(collection) /\ IsCollection(collection)
  BY <1>1, TextAssumption, OutputFormatterAssumption
<1>3. FamiliesTold(collection, 1) = <<>> /\ Len(collection) \in Nat
  BY <1>2, FamiliesAreTold, Parts
<1>4. Says(os, FamiliesTold(collection, fam))
  BY <1>1, <1>3, SaysNothing
<1> QED BY <1>1, <1>2, <1>3, <1>4, FormatterInitInv DEF TextInv

\* In which place of the collection the text is, and what comes before.
LEMMA TextPlace ==
  ASSUME TextInv, format = "fmt_text"
  PROVE  /\ IsCollection(collection) /\ IsText(collection)
         /\ Len(collection) \in Nat /\ DOMAIN collection = 1..Len(collection)
         /\ stage = "family" => fam \in 1..(Len(collection) + 1)
         /\ stage \in {"metric", "bucket"} =>
              /\ fam \in DOMAIN collection
              /\ family = collection[fam] /\ metric = collection[fam].metric[met]
              /\ Len(family.metric) \in Nat /\ DOMAIN family.metric = 1..Len(family.metric)
              /\ met \in 1..(Len(family.metric) + 1)
         /\ stage = "bucket" =>
              /\ met \in DOMAIN family.metric
              /\ family.type = "HISTOGRAM" /\ HasBuckets(metric)
              /\ Len(metric.value) \in Nat /\ DOMAIN metric.value = 1..Len(metric.value)
              /\ bkt \in 1..(Len(metric.value) + 1)
<1>1. FormatterInv /\ IsCollection(collection) /\ IsText(collection)
  BY DEF TextInv, FormatterInv
<1>2. Len(collection) \in Nat /\ DOMAIN collection = 1..Len(collection)
  BY <1>1, Parts
<1>3. ASSUME stage = "family"
      PROVE  fam \in 1..(Len(collection) + 1)
  <2>1. fam \in Nat \ {0}
    BY <1>1, <1>3 DEF FormatterInv, Passed
  <2>2. fam <= Len(collection) + 1
    BY <1>3 DEF TextInv
  <2> QED BY <1>2, <2>1, <2>2
<1>4. ASSUME stage \in {"metric", "bucket"}
      PROVE  /\ fam \in DOMAIN collection
             /\ family = collection[fam] /\ metric = collection[fam].metric[met]
             /\ Len(family.metric) \in Nat /\ DOMAIN family.metric = 1..Len(family.metric)
             /\ met \in 1..(Len(family.metric) + 1)
  <2>1. /\ Passed /\ fam \in DOMAIN collection
        /\ family = collection[fam] /\ metric = collection[fam].metric[met]
        /\ Len(family.metric) \in Nat /\ DOMAIN family.metric = 1..Len(family.metric)
    BY <1>1, <1>4, InPlace
  <2>2. met \in Nat \ {0}
    BY <2>1 DEF Passed
  <2>3. stage = "bucket" => met <= Len(collection[fam].metric)
    BY <2>1 DEF Passed
  <2>4. stage = "metric" => met <= Len(collection[fam].metric) + 1
    BY DEF TextInv
  <2> QED BY <1>4, <2>1, <2>2, <2>3, <2>4
<1>5. ASSUME stage = "bucket"
      PROVE  /\ met \in DOMAIN family.metric
             /\ family.type = "HISTOGRAM" /\ HasBuckets(metric)
             /\ Len(metric.value) \in Nat /\ DOMAIN metric.value = 1..Len(metric.value)
             /\ bkt \in 1..(Len(metric.value) + 1)
  <2>1. /\ Passed /\ fam \in DOMAIN collection
        /\ family = collection[fam] /\ metric = collection[fam].metric[met]
        /\ Len(family.metric) \in Nat /\ DOMAIN family.metric = 1..Len(family.metric)
    BY <1>1, <1>5, InPlace
  <2>2. /\ met \in Nat \ {0} /\ met <= Len(family.metric)
        /\ family.type = "HISTOGRAM" /\ HasBuckets(metric) /\ bkt \in Nat \ {0}
    BY <1>5, <2>1 DEF Passed
  <2>3. met \in DOMAIN family.metric
    BY <2>1, <2>2
  <2>4. Len(metric.value) \in Nat /\ DOMAIN metric.value = 1..Len(metric.value)
    BY <1>1, <2>1, <2>2, <2>3, BucketsAreTold
  <2>5. bkt <= Len(metric.value) + 1
    BY <1>5, <2>1 DEF TextInv
  <2> QED BY <2>2, <2>3, <2>4, <2>5
<1> QED BY <1>1, <1>2, <1>3, <1>4, <1>5

\* At any moment the text says a beginning of what it should say.
LEMMA SaysBeginning ==
  ASSUME TextInv, format = "fmt_text"
  PROVE  \E M : Says(os, M) /\ Begins(M, Meaning(collection))
<1>1. IsCollection(collection)
  BY TextPlace
<1>2. CASE stage = "family"
  <2>1. Says(os, FamiliesTold(collection, fam)) /\ fam \in 1..(Len(collection) + 1)
    BY <1>2, TextPlace DEF TextInv
  <2> QED BY <1>1, <2>1, FamiliesAreTold
<1>3. CASE stage = "metric"
  <2>1. /\ Says(os, MetricsTold(collection, fam, met)) /\ fam \in DOMAIN collection
        /\ met \in 1..(Len(collection[fam].metric) + 1)
    BY <1>3, TextPlace DEF TextInv
  <2> QED BY <1>1, <2>1, MetricsAreTold
<1>4. CASE stage = "bucket"
  <2>1. /\ Says(os, BucketsTold(collection, fam, met, bkt)) /\ fam \in DOMAIN collection
        /\ met \in DOMAIN collection[fam].metric
        /\ collection[fam].type = "HISTOGRAM" /\ HasBuckets(collection[fam].metric[met])
        /\ bkt \in 1..(Len(collection[fam].metric[met].value) + 1)
    BY <1>4, TextPlace DEF TextInv
  <2> QED BY <1>1, <2>1, BucketsAreTold
<1>5. CASE stage = "returned"
  <2>1. Says(os, Meaning(collection))
    BY <1>5 DEF TextInv
  <2>2. Begins(Meaning(collection), Meaning(collection))
    <3>1. IsSequence(Meaning(collection))
      BY <2>1, SaysRead
    <3> QED BY <3>1, BeginsItself
  <2> QED BY <2>1, <2>2
<1>6. CASE stage = "threw"
  BY <1>6 DEF TextInv
<1> QED BY <1>2, <1>3, <1>4, <1>5, <1>6 DEF TextInv, FormatterInv

\* An exception leaves what has been written.
LEMMA ThrowTextInv ==
  ASSUME TextInv, FormatterInv', format = "fmt_text", Throw,
         UNCHANGED <<collection, format>>
  PROVE  TextInv'
<1>1. stage' = "threw" /\ UNCHANGED os
  BY DEF Throw
<1>2. \E M : Says(os, M) /\ Begins(M, Meaning(collection))
  BY SaysBeginning
<1>3. IsText(collection)
  BY DEF TextInv
<1> QED BY <1>1, <1>2, <1>3 DEF TextInv

\* The header of a family is written, or refused.
LEMMA WriteHeaderTextInv ==
  ASSUME TextInv, FormatterInv', WriteHeader, UNCHANGED <<collection, format>>
  PROVE  TextInv'
<1>1. stage = "family" /\ format = "fmt_text" /\ fam <= Len(collection)
  BY DEF WriteHeader
<1>2. /\ IsCollection(collection) /\ IsText(collection)
      /\ fam \in DOMAIN collection /\ family = collection[fam]
      /\ Says(os, FamiliesTold(collection, fam))
  BY <1>1, TextPlace DEF family, TextInv
<1>3. CASE HeaderComplete(family)
  <2>1. os' = os \o Header(collection[fam]) /\ stage' = "metric" /\ met' = 1 /\ UNCHANGED fam
    BY <1>2, <1>3 DEF WriteHeader, Write
  <2>2. Says(Header(collection[fam]), HeadersOf(collection[fam]))
    BY <1>2, HeadersSay
  <2>3. Says(os \o Header(collection[fam]),
             FamiliesTold(collection, fam) \o HeadersOf(collection[fam]))
    BY <1>2, <2>2, SaysJoined
  <2>4. /\ MetricsTold(collection, fam, 1)
              = FamiliesTold(collection, fam) \o HeadersOf(collection[fam])
        /\ Len(collection[fam].metric) \in Nat
    BY <1>2, MetricsAreTold, Parts
  <2>5. Says(os', MetricsTold(collection, fam, 1))
    BY <2>1, <2>3, <2>4
  <2>6. 1 <= Len(collection[fam].metric) + 1
    BY <2>4
  <2> QED BY <1>2, <2>1, <2>5, <2>6 DEF TextInv
<1>4. CASE ~HeaderComplete(family)
  BY <1>1, <1>4, ThrowTextInv DEF WriteHeader
<1> QED BY <1>3, <1>4

\* A scalar is written, or refused.
LEMMA WriteScalarTextInv ==
  ASSUME TextInv, FormatterInv', WriteScalar, format = "fmt_text",
         UNCHANGED <<collection, format>>
  PROVE  TextInv'
<1>1. /\ stage = "metric" /\ met <= Len(family.metric)
      /\ family.type \in {"COUNTER", "GAUGE", "UNTYPED"}
  BY DEF WriteScalar
<1>2. /\ IsCollection(collection) /\ IsText(collection)
      /\ fam \in DOMAIN collection /\ family = collection[fam]
      /\ metric = collection[fam].metric[met]
      /\ Len(family.metric) \in Nat /\ met \in DOMAIN collection[fam].metric
      /\ Says(os, MetricsTold(collection, fam, met))
  BY <1>1, TextPlace DEF TextInv
<1>3. CASE HasScalar(metric, family.type)
  <2> DEFINE f == collection[fam]
             x == f.metric[met]
             line == ScalarLine(f.name, x)
             samples == SamplesOf(f.name, f.type, x)
  <2>1. os' = os \o line /\ met' = met + 1 /\ UNCHANGED <<fam, stage>>
    BY <1>2, <1>3 DEF WriteScalar, Write
  <2>2. Says(line, samples)
    BY <1>1, <1>2, <1>3, ScalarsSay
  <2>3. MetricsTold(collection, fam, met + 1) = MetricsTold(collection, fam, met) \o samples
    BY <1>2, MetricsAreTold
  <2> HIDE DEF line, samples
  <2>4. Says(os \o line, MetricsTold(collection, fam, met) \o samples)
    BY <1>2, <2>2, SaysJoined
  <2>5. Says(os', MetricsTold(collection, fam, met + 1))
    BY <2>1, <2>3, <2>4
  <2>6. met + 1 <= Len(collection[fam].metric) + 1
    BY <1>1, <1>2
  <2> QED BY <1>1, <1>2, <2>1, <2>5, <2>6 DEF TextInv
<1>4. CASE ~HasScalar(metric, family.type)
  BY <1>4, ThrowTextInv DEF WriteScalar
<1> QED BY <1>3, <1>4

\* A histogram is entered, or refused.
LEMMA WriteHistogramTextInv ==
  ASSUME TextInv, FormatterInv', WriteHistogram, format = "fmt_text",
         UNCHANGED <<collection, format>>
  PROVE  TextInv'
<1>1. stage = "metric" /\ met <= Len(family.metric) /\ family.type = "HISTOGRAM"
  BY DEF WriteHistogram
<1>2. /\ IsCollection(collection) /\ IsText(collection)
      /\ fam \in DOMAIN collection /\ family = collection[fam]
      /\ metric = collection[fam].metric[met]
      /\ Len(family.metric) \in Nat /\ met \in DOMAIN collection[fam].metric
      /\ Says(os, MetricsTold(collection, fam, met))
  BY <1>1, TextPlace DEF TextInv
<1>3. CASE HasBuckets(metric)
  <2>1. stage' = "bucket" /\ bkt' = 1 /\ UNCHANGED <<fam, met, os>>
    BY <1>3 DEF WriteHistogram
  <2>2. /\ BucketsTold(collection, fam, met, 1) = MetricsTold(collection, fam, met)
        /\ Len(collection[fam].metric[met].value) \in Nat
    BY <1>1, <1>2, <1>3, BucketsAreTold
  <2>3. Says(os, BucketsTold(collection, fam, met, 1))
    BY <1>2, <2>2
  <2>4. 1 <= Len(collection[fam].metric[met].value) + 1
    <3> DEFINE n == Len(collection[fam].metric[met].value)
    <3>1. n \in Nat
      BY <2>2
    <3> HIDE DEF n
    <3>2. 1 <= n + 1
      BY ONLY <3>1
    <3> QED BY <3>2 DEF n
  <2> QED BY <1>2, <2>1, <2>3, <2>4 DEF TextInv
<1>4. CASE ~HasBuckets(metric)
  BY <1>4, ThrowTextInv DEF WriteHistogram
<1> QED BY <1>3, <1>4

\* A bucket is written or refused; after the last one its metric is done.
LEMMA BucketsTextInv ==
  ASSUME TextInv, FormatterInv', WriteBucket \/ NextMetric, format = "fmt_text",
         UNCHANGED <<collection, format>>
  PROVE  TextInv'
<1>1. stage = "bucket"
  BY DEF WriteBucket, NextMetric
<1>2. /\ IsCollection(collection) /\ IsText(collection)
      /\ fam \in DOMAIN collection /\ family = collection[fam]
      /\ metric = collection[fam].metric[met]
      /\ met \in DOMAIN collection[fam].metric
      /\ Len(collection[fam].metric) \in Nat
      /\ DOMAIN collection[fam].metric = 1..Len(collection[fam].metric)
      /\ collection[fam].type = "HISTOGRAM" /\ HasBuckets(collection[fam].metric[met])
      /\ Len(metric.value) \in Nat /\ DOMAIN metric.value = 1..Len(metric.value)
      /\ bkt \in 1..(Len(metric.value) + 1)
      /\ Says(os, BucketsTold(collection, fam, met, bkt))
  <2>1. Says(os, BucketsTold(collection, fam, met, bkt))
    BY <1>1 DEF TextInv
  <2>2. stage \in {"metric", "bucket"}
    BY <1>1
  <2> QED BY <1>1, <2>1, <2>2, TextPlace
<1>3. CASE WriteBucket /\ BucketComplete(metric.value[bkt])
  <2> DEFINE f == collection[fam]
             x == f.metric[met]
             line == BucketLine(f.name, x, x.value[bkt])
             sample == SampleOf(f.name, x, x.value[bkt])
  <2>1. os' = os \o line /\ bkt' = bkt + 1 /\ UNCHANGED <<fam, met, stage>>
    BY <1>2, <1>3 DEF WriteBucket, Write
  <2>2. bkt \in DOMAIN x.value /\ bkt <= Len(x.value)
    BY <1>2, <1>3 DEF WriteBucket
  <2>3. Says(line, sample)
    BY <1>2, <1>3, <2>2, BucketsSay
  <2>4. BucketsTold(collection, fam, met, bkt + 1)
          = BucketsTold(collection, fam, met, bkt) \o sample
    BY <1>2, <2>2, BucketTold, ZenonT(60)
  <2> HIDE DEF line, sample
  <2>5. Says(os \o line, BucketsTold(collection, fam, met, bkt) \o sample)
    BY <1>2, <2>3, SaysJoined
  <2>6. Says(os', BucketsTold(collection, fam, met, bkt + 1))
    BY <2>1, <2>4, <2>5
  <2>7. bkt + 1 <= Len(collection[fam].metric[met].value) + 1
    BY <1>2, <2>2
  <2> QED BY <1>1, <1>2, <2>1, <2>6, <2>7, SMTT(30) DEF TextInv
<1>4. CASE WriteBucket /\ ~BucketComplete(metric.value[bkt])
  BY <1>4, ThrowTextInv DEF WriteBucket
<1>5. CASE NextMetric
  <2>1. /\ bkt > Len(metric.value) /\ stage' = "metric" /\ met' = met + 1
        /\ UNCHANGED <<fam, os>>
    BY <1>5 DEF NextMetric
  <2>2. bkt = Len(metric.value) + 1
    BY <1>2, <2>1
  <2>3. BucketsTold(collection, fam, met, Len(collection[fam].metric[met].value) + 1)
          = MetricsTold(collection, fam, met + 1)
    BY <1>2, BucketsAreTold
  <2>4. Says(os, MetricsTold(collection, fam, met + 1))
    BY <1>2, <2>2, <2>3
  <2>5. met + 1 <= Len(collection[fam].metric) + 1
    BY <1>2
  <2> QED BY <1>2, <2>1, <2>4, <2>5 DEF TextInv
<1> QED BY <1>3, <1>4, <1>5

\* After its last metric a family is done, and after the last family all.
LEMMA FamilyEndsTextInv ==
  ASSUME TextInv, FormatterInv', NextFamily \/ Return, format = "fmt_text",
         UNCHANGED <<collection, format>>
  PROVE  TextInv'
<1>1. IsCollection(collection) /\ IsText(collection) /\ Len(collection) \in Nat
  BY TextPlace
<1>2. CASE NextFamily
  <2>1. /\ stage = "metric" /\ met > Len(family.metric)
        /\ stage' = "family" /\ fam' = fam + 1 /\ UNCHANGED os
    BY <1>2 DEF NextFamily
  <2>2. /\ fam \in DOMAIN collection /\ DOMAIN collection = 1..Len(collection)
        /\ met = Len(collection[fam].metric) + 1
        /\ Says(os, MetricsTold(collection, fam, met))
    BY <2>1, TextPlace DEF TextInv
  <2>3. MetricsTold(collection, fam, Len(collection[fam].metric) + 1)
          = FamiliesTold(collection, fam + 1)
    BY <1>1, <2>2, MetricsAreTold
  <2>4. Says(os, FamiliesTold(collection, fam + 1))
    BY <2>2, <2>3
  <2>5. fam + 1 <= Len(collection) + 1
    BY <1>1, <2>2
  <2> QED BY <1>1, <2>1, <2>4, <2>5 DEF TextInv
<1>3. CASE Return
  <2>1. /\ stage = "family" /\ fam > Len(collection)
        /\ stage' = "returned" /\ UNCHANGED <<fam, os>>
    BY <1>3 DEF Return
  <2>2. fam = Len(collection) + 1 /\ Says(os, FamiliesTold(collection, fam))
    BY <1>1, <2>1, TextPlace DEF TextInv
  <2>3. FamiliesTold(collection, Len(collection) + 1) = Meaning(collection)
    BY <1>1, FamiliesAreTold
  <2>4. Says(os, Meaning(collection))
    BY <2>2, <2>3
  <2> QED BY <1>1, <2>1, <2>4 DEF TextInv
<1> QED BY <1>2, <1>3

\* Every step of render() preserves the invariant.
LEMMA TextStepInv == TextInv /\ [RenderNext]_renderVars => TextInv'
<1> SUFFICES ASSUME TextInv, [RenderNext]_renderVars PROVE TextInv'
  OBVIOUS
<1>1. FormatterInv' /\ UNCHANGED <<collection, format>> /\ FormatterInv
  BY FormatterStepInv DEF TextInv, RenderNext, renderVars
<1>2. CASE format # "fmt_text"
  BY <1>1, <1>2 DEF TextInv
<1>3. CASE format = "fmt_text" /\ UNCHANGED renderVars
  BY <1>1, <1>3 DEF TextInv, renderVars
<1>4. CASE format = "fmt_text" /\ RenderNext
  <2>1. ASSUME WriteSummary PROVE TextInv'
    BY <1>1, <1>4, <2>1, ThrowTextInv DEF WriteSummary
  <2>2. ~WriteFrame
    BY <1>4 DEF WriteFrame
  <2> QED BY <1>1, <1>4, <2>1, <2>2, WriteHeaderTextInv, WriteScalarTextInv,
          WriteHistogramTextInv, BucketsTextInv, FamilyEndsTextInv DEF RenderNext
<1> QED BY <1>2, <1>3, <1>4

\* Whatever the help texts and the label values hold, the text format reads back
\* as the families, samples and labels it was made from, and what is written
\* before an exception as a beginning of them (output_formatter.cc:109-247, 255-277).
THEOREM TextIsReadBack ==
  RenderSpec => []TextReadsBack
<1>1. ASSUME TextInv PROVE TextReadsBack
  <2> SUFFICES ASSUME format = "fmt_text"
               PROVE  /\ stage = "returned" => Read(os) = Meaning(collection)
                      /\ IsPrefix(Read(os), Meaning(collection))
    BY DEF TextReadsBack
  <2>1. stage = "returned" => Read(os) = Meaning(collection)
    <3> SUFFICES ASSUME stage = "returned" PROVE Read(os) = Meaning(collection)
      OBVIOUS
    <3>1. Says(os, Meaning(collection))
      BY <1>1 DEF TextInv
    <3> QED BY <3>1, SaysRead
  <2>2. PICK M : Says(os, M) /\ Begins(M, Meaning(collection))
    BY <1>1, SaysBeginning
  <2>3. Read(os) = M
    BY <2>2, SaysRead
  <2> QED BY <2>1, <2>2, <2>3, BeginsPrefix
<1> QED BY <1>1, TextInitInv, TextStepInv, PTL DEF RenderSpec

-----------------------------------------------------------------------------
(* %g keeps the order of numbers. *)

\* Multiplication keeps an order, and reflects it.
LEMMA TimesKeepsOrder ==
  ASSUME NEW a \in Nat, NEW b \in Nat, NEW c \in Nat
  PROVE  /\ a * b \in Nat
         /\ a <= b => c * a <= c * b
         /\ c * a < c * b => a < b
<1>1. a * b \in Nat
  OBVIOUS
<1>2. ASSUME a <= b PROVE c * a <= c * b
  <2>1. b - a \in Nat /\ b = a + (b - a)
    BY <1>2
  <2>2. c * (a + (b - a)) = c * a + c * (b - a)
    BY <2>1
  <2>3. c * (b - a) \in Nat /\ c * a \in Nat
    BY <2>1
  <2> QED BY <2>1, <2>2, <2>3
<1>3. ASSUME c * a < c * b PROVE a < b
  <2> SUFFICES ASSUME ~(a < b) PROVE FALSE
    OBVIOUS
  <2>1. a - b \in Nat /\ a = b + (a - b)
    OBVIOUS
  <2>2. c * (b + (a - b)) = c * b + c * (a - b)
    BY <2>1
  <2>3. c * (a - b) \in Nat /\ c * b \in Nat
    BY <2>1
  <2> QED BY <1>3, <2>1, <2>2, <2>3
<1> QED BY <1>1, <1>2, <1>3

\* A number divided by another.
LEMMA Divided ==
  ASSUME NEW n \in Nat, NEW u \in Nat \ {0}
  PROVE  /\ n \div u \in Nat /\ n % u \in Nat /\ n % u < u
         /\ n = u * (n \div u) + (n % u)
         /\ u * (n \div u) \in Nat /\ u * (n \div u) <= n
         /\ u * ((n \div u) + 1) \in Nat /\ n < u * ((n \div u) + 1)
<1> DEFINE q == n \div u
           r == n % u
<1>1. q \in Nat /\ r \in Nat /\ r < u /\ n = u * q + r
  OBVIOUS
<1> HIDE DEF q, r
<1>2. u * (q + 1) = u * q + u /\ u * q \in Nat /\ u * (q + 1) \in Nat
  BY <1>1
<1>3. u * q <= n /\ n < u * (q + 1)
  BY <1>1, <1>2
<1> QED BY <1>1, <1>2, <1>3 DEF q, r

\* Division keeps an order.
LEMMA DividedKeepsOrder ==
  ASSUME NEW d \in Nat, NEW e \in Nat, d <= e, NEW u \in Nat \ {0}
  PROVE  d \div u <= e \div u
<1> DEFINE p == d \div u
           q == e \div u
<1>1. /\ p \in Nat /\ u * p \in Nat /\ u * p <= d
      /\ q \in Nat /\ u * (q + 1) \in Nat /\ e < u * (q + 1)
  BY Divided
<1> HIDE DEF p, q
<1>2. u * p < u * (q + 1)
  BY <1>1
<1>3. p < q + 1
  BY <1>1, <1>2, TimesKeepsOrder
<1>4. p <= q
  BY <1>1, <1>3
<1> QED BY <1>4 DEF p, q

\* The least number that loses digits.
Many == Base * Leading

\* The digits of a number, and the numbers with more of them than %g keeps.
LEMMA DigitsAreMany ==
  /\ Base \in Nat \ {0, 1} /\ Leading \in Nat \ {0} /\ Many \in Nat \ {0, 1}
  /\ \A n \in Nat : n \div Base \in Nat /\ (n >= Many => n \div Base < n)
<1>1. Base \in Nat \ {0, 1} /\ Leading \in Nat \ {0}
  BY OutputFormatterAssumption
<1>2. Many \in Nat /\ Many >= Base
  <2>1. Base * 1 <= Base * Leading
    BY <1>1, TimesKeepsOrder
  <2>2. Base * 1 = Base /\ Base * Leading \in Nat
    BY <1>1
  <2> QED BY <2>1, <2>2 DEF Many
<1>3. ASSUME NEW n \in Nat
      PROVE  n \div Base \in Nat /\ (n >= Many => n \div Base < n)
  <2> DEFINE q == n \div Base
  <2>1. q \in Nat /\ Base * q <= n /\ Base * q \in Nat
    BY <1>1, Divided
  <2> HIDE DEF q
  <2>2. n >= Many => q < n
    <3> SUFFICES ASSUME n >= Many PROVE q < n
      OBVIOUS
    <3>1. CASE q = 0
      BY <1>1, <1>2, <3>1
    <3>2. CASE q # 0
      <4>1. q * 2 <= q * Base
        BY <1>1, <2>1, TimesKeepsOrder
      <4>2. q * Base = Base * q
        BY <1>1, <2>1
      <4> QED BY <2>1, <3>2, <4>1, <4>2
    <3> QED BY <3>1, <3>2
  <2> QED BY <2>1, <2>2 DEF q
<1>4. Many \in Nat \ {0, 1}
  BY <1>1, <1>2
<1> QED BY <1>1, <1>3, <1>4

\* What a digit counts, from what a digit of a tenth counts.
LEMMA UnitUnfolds ==
  \A n \in Nat :
    /\ Unit(n) \in Nat \ {0}
    /\ Unit(n) = IF n < Many THEN 1 ELSE Base * Unit(n \div Base)
<1> DEFINE Units == Nat \ {0}
           small == {n \in Nat : n < Many}
           next == [n \in Nat |-> n \div Base]
           base == [n \in Nat |-> 1]
           step == [p \in Nat \X Units |-> Base * p[2]]
           measure == [n \in Nat |-> n]
<1>0. Base \in Nat \ {0, 1} /\ Many \in Nat
  BY DigitsAreMany
<1>1. /\ measure \in [Nat -> Nat]
      /\ \A n \in Nat : n \notin small => next[n] \in Nat /\ measure[next[n]] < measure[n]
  BY <1>0, DigitsAreMany
<1>2. base \in [Nat -> Units]
  OBVIOUS
<1>3. step \in [Nat \X Units -> Units]
  <2> SUFFICES ASSUME NEW s \in Units PROVE Base * s \in Units
    OBVIOUS
  <2>1. Base * s \in Nat /\ Base * 1 <= Base * s /\ Base * 1 = Base
    BY <1>0, TimesKeepsOrder
  <2> QED BY <1>0, <2>1
<1>4. \A n \in Nat : /\ next[n] = n \div Base
                     /\ base[n] = 1
                     /\ \A s \in Units : step[<<n, s>>] = Base * s
                     /\ n \in small <=> n < Many
  OBVIOUS
<1> HIDE DEF next, base, step, small, measure
<1>5. Descends(Nat, small, next)
  BY <1>1 DEF Descends
<1>6. \E f \in [Nat -> Units] : IsDescent(f, Nat, small, base, next, step)
  <2> HIDE DEF Units
  <2> QED BY <1>2, <1>3, <1>5, DescentExists, Zenon
<1>7. PICK f \in [Nat -> Units] :
        f = [n \in Nat |-> IF n \in small THEN base[n] ELSE step[<<n, f[next[n]]>>]]
  BY <1>6, Zenon DEF IsDescent
<1>8. \A n \in Nat : n \div Base \in Nat
  BY DigitsAreMany
<1>9. \A n \in Nat : f[n] = IF n < Many THEN 1 ELSE Base * f[n \div Base]
  <2> HIDE DEF Units
  <2> SUFFICES ASSUME NEW n \in Nat
               PROVE  f[n] = IF n < Many THEN 1 ELSE Base * f[n \div Base]
    OBVIOUS
  <2>1. f[n] = IF n \in small THEN base[n] ELSE step[<<n, f[next[n]]>>]
    BY <1>7
  <2>2. f[n \div Base] \in Units
    BY <1>8
  <2> QED BY <1>4, <2>1, <2>2
<1>10. f = [n \in Nat |-> f[n]]
  OBVIOUS
<1>11. f = [n \in Nat |-> IF n < Base * Leading THEN 1 ELSE Base * f[n \div Base]]
  BY <1>9, <1>10 DEF Many
<1>12. PICK g : /\ g = [n \in Nat |-> IF n < Base * Leading THEN 1
                                      ELSE Base * g[n \div Base]]
                /\ \A n : Unit(n) = g[n]
  BY <1>11, Zenon DEF Unit
<1> DEFINE T == {n \in Nat : g[n] = f[n]}
<1>13. ASSUME NEW n \in Nat, n \notin small => next[n] \in T
       PROVE  n \in T
  <2>1. g[n] = IF n < Many THEN 1 ELSE Base * g[n \div Base]
    BY <1>12 DEF Many
  <2>2. ~(n < Many) => g[n \div Base] = f[n \div Base]
    BY <1>4, <1>13
  <2> QED BY <1>9, <2>1, <2>2
<1>14. \A n \in Nat : n \in T
  <2> HIDE DEF T
  <2>1. \A n \in Nat : (n \notin small => next[n] \in T) => n \in T
    BY <1>13
  <2> QED BY <1>5, <2>1, DescentInduction
<1>15. \A n \in Nat : Unit(n) = f[n]
  BY <1>12, <1>14
<1> QED BY <1>8, <1>9, <1>15

\* Induction over the digits of a number.
LEMMA DigitInduction ==
  ASSUME NEW T, \A n \in Nat : (n >= Many => n \div Base \in T) => n \in T
  PROVE  \A n \in Nat : n \in T
<1> DEFINE small == {n \in Nat : n < Many}
           next == [n \in Nat |-> n \div Base]
           measure == [n \in Nat |-> n]
<1>0. Many \in Nat
  BY DigitsAreMany
<1>1. /\ measure \in [Nat -> Nat]
      /\ \A n \in Nat : n \notin small => next[n] \in Nat /\ measure[next[n]] < measure[n]
  BY <1>0, DigitsAreMany
<1>2. \A n \in Nat : (n \notin small => next[n] \in T) => n \in T
  BY <1>0
<1> HIDE DEF small, next, measure
<1>3. Descends(Nat, small, next)
  BY <1>1 DEF Descends
<1> QED BY <1>2, <1>3, DescentInduction

\* A number has as many units as %g keeps digits for.
LEMMA UnitBounds ==
  \A n \in Nat : n < Many * Unit(n) /\ (n >= Many => Leading * Unit(n) <= n)
<1> DEFINE T == {n \in Nat : n < Many * Unit(n) /\ (n >= Many => Leading * Unit(n) <= n)}
<1>0. /\ Base \in Nat \ {0, 1} /\ Leading \in Nat \ {0} /\ Many \in Nat \ {0, 1}
      /\ Many = Base * Leading
  BY DigitsAreMany DEF Many
<1>1. ASSUME NEW n \in Nat, n >= Many => n \div Base \in T
      PROVE  n \in T
  <2>1. CASE n < Many
    <3>1. Unit(n) = 1
      BY <2>1, UnitUnfolds
    <3>2. Many * 1 = Many
      BY <1>0
    <3> QED BY <1>0, <2>1, <3>1, <3>2
  <2>2. CASE ~(n < Many)
    <3> DEFINE q == n \div Base
               u == Unit(q)
    <3>1. q \in Nat /\ Base * q <= n /\ n < Base * (q + 1)
      BY <1>0, Divided
    <3>2. u \in Nat \ {0} /\ Unit(n) = Base * u
      BY <2>2, <3>1, UnitUnfolds
    <3>3. q < Many * u /\ (q >= Many => Leading * u <= q)
      BY <1>0, <1>1, <2>2
    <3>4. q < Many => u = 1
      BY <3>1, UnitUnfolds
    <3> HIDE DEF q, u
    <3>5. Leading <= q
      <4>1. Base * Leading < Base * (q + 1)
        BY <1>0, <2>2, <3>1
      <4>2. Leading < q + 1
        BY <1>0, <3>1, <4>1, TimesKeepsOrder
      <4> QED BY <1>0, <3>1, <4>2
    <3>6. Leading * u <= q
      <4>1. Leading * 1 = Leading
        BY <1>0
      <4> QED BY <1>0, <3>1, <3>3, <3>4, <3>5, <4>1
    <3>7. Leading * Unit(n) <= n
      <4>1. Base * (Leading * u) <= Base * q
        BY <1>0, <3>1, <3>2, <3>6, TimesKeepsOrder
      <4>2. Base * (Leading * u) = Leading * (Base * u)
        BY <1>0, <3>2
      <4>3. Base * q \in Nat /\ Base * (Leading * u) \in Nat
        BY <1>0, <3>1, <3>2
      <4> QED BY <3>1, <3>2, <4>1, <4>2, <4>3
    <3>8. n < Many * Unit(n)
      <4>0. Many * u \in Nat
        BY <1>0, <3>2
      <4>1. q + 1 <= Many * u
        BY <3>1, <3>3, <4>0
      <4>2. Base * (q + 1) <= Base * (Many * u)
        BY <1>0, <3>1, <4>0, <4>1, TimesKeepsOrder
      <4>3. Base * (Many * u) = Many * (Base * u)
        BY <1>0, <3>2
      <4>4. Base * (q + 1) \in Nat /\ Base * (Many * u) \in Nat
        BY <1>0, <3>1, <4>0
      <4> QED BY <3>1, <3>2, <4>2, <4>3, <4>4
    <3> QED BY <3>7, <3>8
  <2> QED BY <1>0, <2>1, <2>2
<1>2. \A n \in Nat : n \in T
  <2> HIDE DEF T
  <2> QED BY <1>1, DigitInduction
<1> QED BY <1>2

\* A larger number has the same unit, or at least the next one.
LEMMA UnitGrows ==
  \A e \in Nat : \A d \in Nat :
    d <= e => Unit(d) = Unit(e) \/ Base * Unit(d) <= Unit(e)
<1> DEFINE T == {e \in Nat : \A d \in Nat :
                   d <= e => Unit(d) = Unit(e) \/ Base * Unit(d) <= Unit(e)}
<1>0. Base \in Nat \ {0, 1} /\ Many \in Nat \ {0, 1}
  BY DigitsAreMany
<1>1. ASSUME NEW e \in Nat, e >= Many => e \div Base \in T, NEW d \in Nat, d <= e
      PROVE  Unit(d) = Unit(e) \/ Base * Unit(d) <= Unit(e)
  <2> DEFINE p == d \div Base
             q == e \div Base
             u == Unit(p)
             v == Unit(q)
  <2>1. /\ p \in Nat /\ q \in Nat /\ p <= q /\ u \in Nat \ {0} /\ v \in Nat \ {0}
        /\ Unit(d) = IF d < Many THEN 1 ELSE Base * u
        /\ Unit(e) = IF e < Many THEN 1 ELSE Base * v
    BY <1>0, <1>1, DigitsAreMany, DividedKeepsOrder, UnitUnfolds
  <2>2. e >= Many => u = v \/ Base * u <= v
    BY <1>1, <2>1
  <2> HIDE DEF p, q, u, v
  <2>3. CASE e < Many
    BY <1>0, <1>1, <2>1, <2>3
  <2>4. CASE e >= Many /\ d < Many
    <3>1. Base * 1 <= Base * v
      BY <1>0, <2>1, TimesKeepsOrder
    <3> QED BY <1>0, <2>1, <2>4, <3>1
  <2>5. CASE e >= Many /\ d >= Many
    <3>1. Unit(d) = Base * u /\ Unit(e) = Base * v
      BY <1>0, <2>1, <2>5
    <3>2. Base * u <= v => Base * (Base * u) <= Base * v
      <4>1. Base * u \in Nat
        BY <1>0, <2>1
      <4> QED BY <1>0, <2>1, <4>1, TimesKeepsOrder
    <3> QED BY <2>2, <2>5, <3>1, <3>2
  <2> QED BY <1>0, <2>3, <2>4, <2>5
<1>2. \A n \in Nat : (n >= Many => n \div Base \in T) => n \in T
  BY <1>1
<1>3. \A n \in Nat : n \in T
  <2> HIDE DEF T
  <2> QED BY <1>2, DigitInduction
<1> QED BY <1>3

\* Rounding yields one of the two multiples next to the number.
LEMMA RoundedBetween ==
  ASSUME NEW d \in Nat, NEW u \in Nat \ {0}
  PROVE  /\ RoundTo(d, u) \in Nat
         /\ u * (d \div u) <= RoundTo(d, u)
         /\ RoundTo(d, u) <= u * ((d \div u) + 1)
<1> DEFINE q == d \div u
           r == d % u
           up == (2 * r > u) \/ (2 * r = u /\ q % 2 = 1)
<1>1. q \in Nat /\ u * q \in Nat /\ u * (q + 1) \in Nat
  BY Divided
<1>2. RoundTo(d, u) = u * (IF up THEN q + 1 ELSE q)
  BY DEF RoundTo
<1> HIDE DEF q, r, up
<1>3. u * q <= u * (q + 1)
  BY <1>1, TimesKeepsOrder
<1>4. RoundTo(d, u) = u * q \/ RoundTo(d, u) = u * (q + 1)
  BY <1>2
<1> QED BY <1>1, <1>3, <1>4 DEF q

\* Rounding to the same unit keeps an order.
LEMMA RoundedKeepsOrder ==
  ASSUME NEW d \in Nat, NEW e \in Nat, d <= e, NEW u \in Nat \ {0}
  PROVE  RoundTo(d, u) <= RoundTo(e, u)
<1> DEFINE p == d \div u
           q == e \div u
           r == d % u
           s == e % u
           odd == q % 2 = 1
<1>1. /\ p \in Nat /\ r \in Nat /\ d = u * p + r
      /\ q \in Nat /\ s \in Nat /\ e = u * q + s
      /\ u * p \in Nat /\ u * q \in Nat /\ u * (p + 1) \in Nat /\ u * (q + 1) \in Nat
  BY Divided
<1>2. p <= q
  BY DividedKeepsOrder
<1>3. /\ RoundTo(d, u) \in Nat /\ RoundTo(d, u) <= u * (p + 1)
      /\ RoundTo(e, u) \in Nat /\ u * q <= RoundTo(e, u)
  BY RoundedBetween
<1>4. CASE p = q
  <2>1. /\ RoundTo(d, u) = u * (IF (2 * r > u) \/ (2 * r = u /\ odd) THEN q + 1 ELSE q)
        /\ RoundTo(e, u) = u * (IF (2 * s > u) \/ (2 * s = u /\ odd) THEN q + 1 ELSE q)
    BY <1>4 DEF RoundTo
  <2> HIDE DEF p, q, r, s, odd
  <2>2. r <= s
    BY <1>1, <1>4
  <2>3. (2 * r > u) \/ (2 * r = u /\ odd) => (2 * s > u) \/ (2 * s = u /\ odd)
    BY <1>1, <2>2
  <2>4. u * q <= u * (q + 1)
    BY <1>1, TimesKeepsOrder
  <2> QED BY <1>1, <2>1, <2>3, <2>4
<1>5. CASE p # q
  <2> HIDE DEF p, q, r, s
  <2>1. u * (p + 1) <= u * q
    <3>1. p + 1 <= q /\ p + 1 \in Nat
      BY <1>1, <1>2, <1>5
    <3> QED BY <1>1, <3>1, TimesKeepsOrder
  <2> QED BY <1>1, <1>3, <2>1
<1> QED BY <1>4, <1>5

\* Rounding two numbers, each to the digits that %g keeps of it, keeps their order:
\* first of those that have no sign.
LEMMA UnsignedKeepsOrder ==
  ASSUME NEW d \in Nat, NEW e \in Nat, d <= e
  PROVE  PercentG(d) \in Nat /\ PercentG(e) \in Nat /\ PercentG(d) <= PercentG(e)
<1> DEFINE u == Unit(d)
           v == Unit(e)
           p == d \div u
           q == e \div v
<1>0. /\ Base \in Nat \ {0, 1} /\ Leading \in Nat \ {0} /\ Many \in Nat \ {0, 1}
      /\ Many = Base * Leading
  BY DigitsAreMany DEF Many
<1>1. /\ u \in Nat \ {0} /\ v \in Nat \ {0}
      /\ u = v \/ Base * u <= v
      /\ e < Many => v = 1
      /\ d < Many * u /\ (e >= Many => Leading * v <= e)
  BY UnitUnfolds, UnitGrows, UnitBounds
<1>2. PercentG(d) = RoundTo(d, u) /\ PercentG(e) = RoundTo(e, v)
  <2>1. ~(d < 0) /\ ~(e < 0)
    OBVIOUS
  <2> QED BY <2>1 DEF PercentG
<1> HIDE DEF u, v
<1>3. /\ RoundTo(d, u) \in Nat /\ RoundTo(d, u) <= u * (p + 1)
      /\ RoundTo(e, v) \in Nat /\ v * q <= RoundTo(e, v)
      /\ p \in Nat /\ u * p \in Nat /\ u * p <= d /\ u * (p + 1) \in Nat
      /\ q \in Nat /\ v * q \in Nat /\ v * (q + 1) \in Nat /\ e < v * (q + 1)
  BY <1>1, RoundedBetween, Divided
<1> HIDE DEF p, q
<1>4. CASE u = v
  BY <1>1, <1>2, <1>3, <1>4, RoundedKeepsOrder
<1>5. CASE Base * u <= v
  <2>1. e >= Many /\ Leading * v <= e
    <3>1. Base * 1 <= Base * u /\ Base * 1 = Base /\ Base * u \in Nat
      BY <1>0, <1>1, TimesKeepsOrder
    <3>2. v # 1
      BY <1>0, <1>1, <1>5, <3>1
    <3> QED BY <1>0, <1>1, <3>2
  <2>2. u * (p + 1) <= u * Many
    <3>1. u * p < u * Many
      <4>1. Many * u = u * Many /\ u * Many \in Nat
        BY <1>0, <1>1
      <4> QED BY <1>1, <1>3, <4>1
    <3>2. p < Many
      BY <1>0, <1>1, <1>3, <3>1, TimesKeepsOrder
    <3>3. p + 1 <= Many /\ p + 1 \in Nat
      BY <1>0, <1>3, <3>2
    <3> QED BY <1>0, <1>1, <3>3, TimesKeepsOrder
  <2>3. v * Leading <= v * q
    <3>1. v * Leading < v * (q + 1)
      <4>1. Leading * v = v * Leading /\ v * Leading \in Nat
        BY <1>0, <1>1
      <4> QED BY <1>3, <2>1, <4>1
    <3>2. Leading < q + 1
      BY <1>0, <1>1, <1>3, <3>1, TimesKeepsOrder
    <3>3. Leading <= q
      BY <1>0, <1>3, <3>2
    <3> QED BY <1>0, <1>1, <1>3, <3>3, TimesKeepsOrder
  <2>4. u * Many <= v * Leading
    <3>1. Leading * (Base * u) <= Leading * v
      <4>1. Base * u \in Nat
        BY <1>0, <1>1
      <4> QED BY <1>0, <1>1, <1>5, <4>1, TimesKeepsOrder
    <3>2. Leading * (Base * u) = u * Many /\ Leading * v = v * Leading
      BY <1>0, <1>1
    <3> QED BY <3>1, <3>2
  <2>5. u * Many \in Nat /\ v * Leading \in Nat
    BY <1>0, <1>1
  <2> QED BY <1>2, <1>3, <2>2, <2>3, <2>4, <2>5
<1> QED BY <1>1, <1>4, <1>5

LEMMA PercentGKeepsOrder ==
  ASSUME NEW d \in Int, NEW e \in Int, d <= e
  PROVE  PercentG(d) \in Int /\ PercentG(e) \in Int /\ PercentG(d) <= PercentG(e)
<1>1. ASSUME NEW n \in Int, n < 0
      PROVE  /\ -n \in Nat /\ PercentG(-n) \in Nat
             /\ PercentG(n) = -PercentG(-n)
  <2>1. -n \in Nat /\ ~(-n < 0) /\ -n <= -n
    BY <1>1
  <2>2. PercentG(-n) \in Nat
    BY <2>1, UnsignedKeepsOrder
  <2>3. PercentG(-n) = RoundTo(-n, Unit(-n)) /\ PercentG(n) = -RoundTo(-n, Unit(-n))
    BY <1>1, <2>1 DEF PercentG
  <2> QED BY <2>1, <2>2, <2>3
<1>2. CASE d >= 0
  BY <1>2, UnsignedKeepsOrder
<1>3. CASE d < 0 /\ e >= 0
  <2>1. e \in Nat /\ e <= e
    BY <1>3
  <2>2. PercentG(e) \in Nat
    BY <2>1, UnsignedKeepsOrder
  <2> QED BY <1>1, <1>3, <2>2
<1>4. CASE d < 0 /\ e < 0
  <2>1. -d \in Nat /\ -e \in Nat /\ -e <= -d
    BY <1>4
  <2>2. PercentG(-e) \in Nat /\ PercentG(-d) \in Nat /\ PercentG(-e) <= PercentG(-d)
    BY <2>1, UnsignedKeepsOrder
  <2>3. PercentG(d) = -PercentG(-d) /\ PercentG(e) = -PercentG(-e)
    BY <1>1, <1>4
  <2> QED BY <2>2, <2>3
<1> QED BY <1>2, <1>3, <1>4

\* The order of levels, infinite ones included.
LEMMA EscapedKeepsOrder ==
  ASSUME NEW d, NEW e, AtMost(d, e)
  PROVE  AtMost(escape_double(d), escape_double(e))
<1>1. {PlusInf, MinusInf, Nan} \intersect Int = {}
  BY OutputFormatterAssumption
<1>2. CASE d = MinusInf
  BY <1>2 DEF AtMost, escape_double
<1>3. CASE e = PlusInf
  BY <1>3 DEF AtMost, escape_double
<1>4. CASE d \in Int /\ e \in Int /\ d <= e
  <2>1. escape_double(d) = PercentG(d) /\ escape_double(e) = PercentG(e)
    BY <1>1, <1>4 DEF escape_double
  <2>2. PercentG(d) \in Int /\ PercentG(e) \in Int /\ PercentG(d) <= PercentG(e)
    BY <1>4, PercentGKeepsOrder
  <2> QED BY <2>1, <2>2 DEF AtMost
<1> QED BY <1>2, <1>3, <1>4 DEF AtMost

-----------------------------------------------------------------------------
(* Neighbours in a text. *)

\* The level of a bucket among its labels, and buckets of the same histogram.
LevelOf(m) == {l \in m.labels : l[1] = le}
SameHistogram(m, n) ==
  /\ "labels" \in DOMAIN m \intersect DOMAIN n
  /\ m.name = n.name
  /\ m.labels \ LevelOf(m) = n.labels \ LevelOf(n)
  /\ LevelOf(m) # {} /\ LevelOf(n) # {}
BoundOf(m) == (CHOOSE l \in LevelOf(m) : TRUE)[2][1]

InOrder(m, n) ==
  SameHistogram(m, n) => AtMost(BoundOf(m), BoundOf(n)) /\ m.value <= n.value

AllInOrder(M) == \A i \in 1..(Len(M) - 1) : InOrder(M[i], M[i + 1])

\* The first and the last line of two texts.
LEMMA OuterLines ==
  ASSUME NEW s, IsSequence(s), NEW t, IsSequence(t)
  PROVE  /\ IsSequence(s \o t) /\ Len(s \o t) = Len(s) + Len(t)
         /\ Len(s) \in Nat /\ Len(t) \in Nat
         /\ Len(s) > 0 => (s \o t)[1] = s[1]
         /\ Len(t) > 0 => (s \o t)[Len(s) + Len(t)] = t[Len(t)]
<1>1. Len(s) \in Nat /\ Len(t) \in Nat
  BY Elements
<1> DEFINE st == s \o t
<1>2. /\ IsSequence(st) /\ Len(st) = Len(s) + Len(t)
      /\ \A i \in 1..Len(s) : st[i] = s[i]
      /\ \A i \in 1..Len(t) : st[Len(s) + i] = t[i]
  BY ONLY IsSequence(s), IsSequence(t), Joined
<1> HIDE DEF st
<1>3. Len(s) > 0 => st[1] = s[1]
  BY <1>1, <1>2
<1>4. Len(t) > 0 => st[Len(s) + Len(t)] = t[Len(t)]
  BY <1>1, <1>2
<1> QED BY <1>1, <1>2, <1>3, <1>4 DEF st

\* Two texts in order, if the one may follow the other.
LEMMA OrderJoined ==
  ASSUME NEW s, IsSequence(s), AllInOrder(s), NEW t, IsSequence(t), AllInOrder(t),
         Len(s) > 0 /\ Len(t) > 0 => InOrder(s[Len(s)], t[1])
  PROVE  AllInOrder(s \o t)
<1> DEFINE st == s \o t
           m == Len(s)
           n == Len(t)
<1>1. m \in Nat /\ n \in Nat
  BY Elements
<1>2. /\ IsSequence(st) /\ Len(st) = Len(s) + Len(t)
      /\ \A i \in 1..Len(s) : st[i] = s[i]
      /\ \A i \in 1..Len(t) : st[Len(s) + i] = t[i]
  BY ONLY IsSequence(s), IsSequence(t), Joined
<1>3. /\ \A i \in 1..(m - 1) : InOrder(s[i], s[i + 1])
      /\ \A i \in 1..(n - 1) : InOrder(t[i], t[i + 1])
  BY DEF AllInOrder
<1>4. m > 0 /\ n > 0 => InOrder(s[m], t[1])
  OBVIOUS
<1>5. /\ Len(st) = m + n
      /\ \A i \in 1..m : st[i] = s[i]
      /\ \A i \in 1..n : st[m + i] = t[i]
  BY <1>2
<1> HIDE DEF st, m, n
<1>6. ASSUME NEW i \in 1..(m + n - 1)
      PROVE  InOrder(st[i], st[i + 1])
  <2>1. CASE i < m
    <3>1. i \in 1..m /\ i + 1 \in 1..m /\ i \in 1..(m - 1)
      BY <1>1, <2>1
    <3> QED BY <1>3, <1>5, <3>1
  <2>2. CASE i = m
    <3>1. m \in 1..m /\ 1 \in 1..n /\ m > 0 /\ n > 0
      BY <1>1, <2>2
    <3>2. st[m] = s[m] /\ st[m + 1] = t[1]
      BY <1>5, <3>1
    <3> QED BY <1>4, <2>2, <3>1, <3>2
  <2>3. CASE i > m
    <3> DEFINE j == i - m
    <3>1. j \in 1..n /\ j + 1 \in 1..n /\ j \in 1..(n - 1) /\ i = m + j /\ i + 1 = m + (j + 1)
      BY <1>1, <2>3
    <3> HIDE DEF j
    <3>2. st[m + j] = t[j] /\ st[m + (j + 1)] = t[j + 1]
      BY <1>5, <3>1
    <3> QED BY <1>3, <3>1, <3>2
  <2> QED BY <1>1, <2>1, <2>2, <2>3
<1>7. Len(st) - 1 = m + n - 1
  BY <1>1, <1>5
<1>8. AllInOrder(st)
  BY <1>6, <1>7 DEF AllInOrder
<1> QED BY <1>8 DEF st

\* One line is in order.
LEMMA OneInOrder ==
  ASSUME NEW m
  PROVE  IsSequence(Single(m)) /\ Len(Single(m)) = 1 /\ Single(m)[1] = m /\ AllInOrder(Single(m))
<1> DEFINE s == Single(m)
<1>1. IsSequence(s) /\ Len(s) = 1 /\ s[1] = m
  BY OneCharacter
<1> HIDE DEF s
<1>2. AllInOrder(s)
  BY <1>1 DEF AllInOrder
<1> QED BY <1>1, <1>2 DEF s

\* A list of lists of one element each.
LEMMA FlatSingles ==
  ASSUME NEW n \in Nat, NEW p, AreParts(p, n),
         NEW g, g = [i \in 1..n |-> g[i]], \A i \in 1..n : p[i] = Single(g[i])
  PROVE  FlattenSeq(p) = g
<1> DEFINE T == {k \in Nat : k <= n => Flat(p, k) = Start(g, k)}
<1>1. IsSequence(g) /\ Len(g) = n
  BY Listed
<1>2. Flat(p, 0) = <<>> /\ Flat(p, n) = FlattenSeq(p)
  BY FlatSequence
<1>3. /\ Start(g, 0) = <<>> /\ Start(g, n) = g
      /\ \A k \in Nat : IsSequence(Start(g, k))
      /\ \A k \in Nat : Start(g, k + 1) = Append(Start(g, k), g[k + 1])
  BY <1>1, StartGrows
<1>4. 0 \in T
  BY <1>2, <1>3
<1>5. ASSUME NEW k \in Nat, k \in T
      PROVE  k + 1 \in T
  <2> SUFFICES ASSUME k + 1 <= n PROVE Flat(p, k + 1) = Start(g, k + 1)
    OBVIOUS
  <2>1. k \in 0..(n - 1) /\ k + 1 \in 1..n /\ Flat(p, k) = Start(g, k)
    BY <1>5
  <2>2. Flat(p, k + 1) = Flat(p, k) \o p[k + 1]
    BY <2>1, FlatNext
  <2> DEFINE s == Start(g, k)
             x == g[k + 1]
  <2>3. IsSequence(s) /\ Start(g, k + 1) = Append(s, x)
    BY <1>3
  <2>4. p[k + 1] = Single(x)
    BY <2>1
  <2> HIDE DEF s, x
  <2>5. Append(s, x) = s \o Single(x)
    BY <2>3, Appended
  <2>6. Flat(p, k) = s
    BY <2>1 DEF s
  <2> QED BY <2>2, <2>3, <2>4, <2>5, <2>6
<1>6. n \in T
  <2> HIDE DEF T
  <2> QED BY <1>4, <1>5, NumberInduction
<1> QED BY <1>2, <1>3, <1>6

-----------------------------------------------------------------------------
(* The samples of a histogram. *)

BucketSample(name, x, b) ==
  [name |-> name, value |-> b.cumulative_count,
   labels |-> LabelSet(x) \union {<<le, <<escape_double(b.upper_bound)>> >>}]

\* What a bucket's sample tells: the labels of its histogram and its level.
LEMMA SampleLevel ==
  ASSUME NEW name, NEW x, NEW b, \A l \in LabelSet(x) : l[1] # le
  PROVE  LET m == BucketSample(name, x, b) IN
         /\ m.labels \ LevelOf(m) = LabelSet(x)
         /\ BoundOf(m) = escape_double(b.upper_bound)
         /\ m.value = b.cumulative_count
<1> DEFINE m == BucketSample(name, x, b)
           u == escape_double(b.upper_bound)
           level == <<le, <<u>> >>
<1>1. m.labels = LabelSet(x) \union {level} /\ m.value = b.cumulative_count
  BY DEF BucketSample
<1>2. level[1] = le /\ level[2][1] = u
  OBVIOUS
<1> HIDE DEF m, level
<1>3. LevelOf(m) = {level}
  BY <1>1, <1>2 DEF LevelOf
<1>4. level \notin LabelSet(x)
  BY <1>2
<1>5. m.labels \ LevelOf(m) = LabelSet(x)
  BY <1>1, <1>3, <1>4
<1>6. (CHOOSE l \in LevelOf(m) : TRUE) = level
  BY <1>3
<1>7. BoundOf(m) = u
  BY <1>2, <1>6 DEF BoundOf
<1> QED BY <1>1, <1>5, <1>7 DEF m

\* A histogram whose buckets are complete: a sample for each, in order.
LEMMA HistogramInOrder ==
  ASSUME NEW c, IsCollection(c), IsOrdered(c),
         NEW i \in DOMAIN c, NEW j \in DOMAIN c[i].metric,
         c[i].type = "HISTOGRAM", HasBuckets(c[i].metric[j]),
         \A k \in DOMAIN c[i].metric[j].value : BucketComplete(c[i].metric[j].value[k])
  PROVE  LET f == c[i]
             x == f.metric[j]
             s == SamplesOf(f.name, f.type, x)
         IN  /\ IsSequence(s) /\ Len(s) > 0 /\ Len(s) = Len(x.value) /\ AllInOrder(s)
             /\ \A k \in 1..Len(s) : s[k] = BucketSample(f.name, x, x.value[k])
<1> DEFINE f == c[i]
           x == f.metric[j]
           n == Len(x.value)
           p == Buckets(f, x)
           g == [k \in 1..n |-> BucketSample(f.name, x, x.value[k])]
           s == SamplesOf(f.name, f.type, x)
<1>1. n \in Nat /\ DOMAIN x.value = 1..n /\ AreParts(p, n)
  BY Parts
<1>2. n > 0
  <2>1. HasBuckets(x)
    BY ZenonT(60)
  <2> HIDE DEF x
  <2> QED BY ONLY <2>1 DEF HasBuckets
<1>3. \A k \in 1..n : p[k] = Single(g[k])
  BY <1>1 DEF Buckets, SampleOf, BucketSample, Single
<1>4. g = [k \in 1..n |-> g[k]]
  OBVIOUS
<1>5. s = FlattenSeq(p)
  BY DEF SamplesOf, Buckets
<1>6. /\ \A l \in LabelSet(x) : l[1] # le
      /\ \A k \in 1..(n - 1) :
           /\ AtMost(x.value[k].upper_bound, x.value[k + 1].upper_bound)
           /\ x.value[k].cumulative_count <= x.value[k + 1].cumulative_count
  <2>1. /\ \A l \in LabelSet(x) : l[1] # le
        /\ HasBuckets(x) => \A k \in 1..(n - 1) :
             LET b == x.value[k]
                 e == x.value[k + 1]
             IN  Unset \notin {b.upper_bound, b.cumulative_count,
                               e.upper_bound, e.cumulative_count} =>
                   /\ AtMost(b.upper_bound, e.upper_bound)
                   /\ b.cumulative_count <= e.cumulative_count
    BY DEF IsOrdered
  <2>2. \A k \in 1..n : Unset \notin {x.value[k].upper_bound, x.value[k].cumulative_count}
    BY <1>1 DEF BucketComplete
  <2>3. \A k \in 1..(n - 1) : k \in 1..n /\ k + 1 \in 1..n
    BY <1>1
  <2> QED BY <2>1, <2>2, <2>3
<1>7. \A k \in 1..n : g[k] = BucketSample(f.name, x, x.value[k])
  OBVIOUS
<1> HIDE DEF g, p, s, n, x, f
<1>8. s = g
  BY <1>1, <1>3, <1>4, <1>5, FlatSingles
<1>9. IsSequence(g) /\ Len(g) = n
  BY <1>1, <1>4, Listed
<1>10. ASSUME NEW k \in 1..(n - 1)
       PROVE  InOrder(g[k], g[k + 1])
  <2>1. k \in 1..n /\ k + 1 \in 1..n
    BY <1>1
  <2> DEFINE b == x.value[k]
             e == x.value[k + 1]
  <2>2. g[k] = BucketSample(f.name, x, b) /\ g[k + 1] = BucketSample(f.name, x, e)
    BY <1>7, <2>1
  <2>3. AtMost(b.upper_bound, e.upper_bound) /\ b.cumulative_count <= e.cumulative_count
    BY <1>6
  <2> HIDE DEF b, e
  <2>4. AtMost(escape_double(b.upper_bound), escape_double(e.upper_bound))
    BY <2>3, EscapedKeepsOrder
  <2>5. /\ BoundOf(g[k]) = escape_double(b.upper_bound) /\ g[k].value = b.cumulative_count
        /\ BoundOf(g[k + 1]) = escape_double(e.upper_bound)
        /\ g[k + 1].value = e.cumulative_count
    BY <1>6, <2>2, SampleLevel
  <2> QED BY <2>3, <2>4, <2>5 DEF InOrder
<1>11. AllInOrder(g)
  BY <1>9, <1>10 DEF AllInOrder
<1> QED BY <1>2, <1>7, <1>8, <1>9, <1>11 DEF f, x, s, n

-----------------------------------------------------------------------------
(* The buckets of what is written. *)

\* The samples s of a metric x: one without a level, or the buckets of a histogram.
MetricSamples(f, x, s) ==
  /\ IsSequence(s) /\ Len(s) > 0 /\ AllInOrder(s)
  /\ f.type # "HISTOGRAM" => Len(s) = 1 /\ LevelOf(s[1]) = {}
  /\ f.type = "HISTOGRAM" =>
       \A k \in 1..Len(s) : s[k].labels \ LevelOf(s[k]) = LabelSet(x)

\* What a metric that is not refused says is in order.
LEMMA MetricInOrder ==
  ASSUME NEW c, IsCollection(c), IsOrdered(c),
         NEW i \in DOMAIN c, HeaderComplete(c[i]),
         NEW j \in DOMAIN c[i].metric, ~Refuses(c[i], c[i].metric[j])
  PROVE  MetricSamples(c[i], c[i].metric[j],
                       SamplesOf(c[i].name, c[i].type, c[i].metric[j]))
<1> DEFINE f == c[i]
           x == f.metric[j]
           s == SamplesOf(f.name, f.type, x)
<1>1. \A l \in LabelSet(x) : l[1] # le
  BY DEF IsOrdered
<1>2. CASE f.type = "HISTOGRAM"
  <2>1. HasBuckets(x) /\ \A k \in DOMAIN x.value : BucketComplete(x.value[k])
    BY <1>2 DEF Refuses
  <2>2. /\ IsSequence(s) /\ Len(s) > 0 /\ Len(s) = Len(x.value) /\ AllInOrder(s)
        /\ \A k \in 1..Len(s) : s[k] = BucketSample(f.name, x, x.value[k])
    BY <1>2, <2>1, HistogramInOrder
  <2>3. \A k \in 1..Len(s) : s[k].labels \ LevelOf(s[k]) = LabelSet(x)
    <3> SUFFICES ASSUME NEW k \in 1..Len(s)
                 PROVE  s[k].labels \ LevelOf(s[k]) = LabelSet(x)
      OBVIOUS
    <3> DEFINE name == f.name
               b == x.value[k]
    <3>1. s[k] = BucketSample(name, x, b)
      BY <2>2
    <3> HIDE DEF s, x, name, b
    <3>2. BucketSample(name, x, b).labels \ LevelOf(BucketSample(name, x, b)) = LabelSet(x)
      BY <1>1, SampleLevel
    <3> QED BY <3>1, <3>2
  <2> QED BY <1>2, <2>2, <2>3 DEF MetricSamples
<1>3. CASE f.type # "HISTOGRAM"
  <2>1. f.type \in {"COUNTER", "GAUGE", "UNTYPED"} /\ HasScalar(x, f.type)
    BY <1>3 DEF Refuses, HeaderComplete, IsCollection, Types
  <2> DEFINE m == [name |-> f.name, labels |-> LabelSet(x), value |-> escape_double(x.value)]
  <2>2. s = Single(m)
    BY <2>1 DEF SamplesOf, Single
  <2>3. m.labels = LabelSet(x)
    OBVIOUS
  <2> HIDE DEF m, s, x, f
  <2>4. LevelOf(m) = {}
    BY <1>1, <2>3 DEF LevelOf
  <2>5. IsSequence(s) /\ Len(s) = 1 /\ s[1] = m /\ AllInOrder(s)
    BY <2>2, OneInOrder
  <2>6. MetricSamples(f, x, s)
    BY <1>3, <2>4, <2>5 DEF MetricSamples
  <2> QED BY <2>6 DEF s, x, f
<1> QED BY <1>2, <1>3

\* A header is followed by anything, and anything by a sample without a level.
LEMMA HeaderFollowed ==
  ASSUME NEW m, NEW n, "labels" \notin DOMAIN m \/ LevelOf(n) = {}
  PROVE  InOrder(m, n)
BY DEF InOrder, SameHistogram

\* The lines that begin a family are headers.
LEMMA HeadersInOrder ==
  ASSUME NEW f
  PROVE  LET h == HeadersOf(f) IN
         /\ IsSequence(h) /\ Len(h) > 0 /\ AllInOrder(h)
         /\ \A k \in 1..Len(h) : "labels" \notin DOMAIN h[k]
<1> DEFINE h == HeadersOf(f)
           HeaderOf(line) == [header |-> line]
<1>1. \A line : "labels" \notin DOMAIN HeaderOf(line)
  OBVIOUS
<1>2. (\E a : h = Single(HeaderOf(a))) \/ (\E a, b : h = Two(HeaderOf(a), HeaderOf(b)))
  BY DEF HeadersOf, Single, Two
<1> HIDE DEF h, HeaderOf
<1>3. \A m : IsSequence(Single(m)) /\ Len(Single(m)) = 1 /\ Single(m)[1] = m
  BY OneCharacter
<1>4. \A m, n : /\ IsSequence(Two(m, n)) /\ Len(Two(m, n)) = 2
                /\ Two(m, n)[1] = m /\ Two(m, n)[2] = n
  <2> SUFFICES ASSUME NEW m, NEW n
               PROVE  /\ IsSequence(Two(m, n)) /\ Len(Two(m, n)) = 2
                      /\ Two(m, n)[1] = m /\ Two(m, n)[2] = n
    OBVIOUS
  <2>1. <<m, n>> \in Seq({m, n}) /\ Len(<<m, n>>) = 2 /\ <<m, n>>[1] = m /\ <<m, n>>[2] = n
    OBVIOUS
  <2> QED BY <2>1, Typed DEF Two
<1>5. IsSequence(h) /\ Len(h) \in 1..2 /\ \A k \in 1..Len(h) : "labels" \notin DOMAIN h[k]
  <2>1. CASE \E a : h = Single(HeaderOf(a))
    <3>1. PICK a : h = Single(HeaderOf(a))
      BY <2>1
    <3>2. IsSequence(h) /\ Len(h) = 1 /\ h[1] = HeaderOf(a)
      BY <1>3, <3>1
    <3> QED BY <1>1, <3>2
  <2>2. CASE \E a, b : h = Two(HeaderOf(a), HeaderOf(b))
    <3>1. PICK a, b : h = Two(HeaderOf(a), HeaderOf(b))
      BY <2>2
    <3>2. IsSequence(h) /\ Len(h) = 2 /\ h[1] = HeaderOf(a) /\ h[2] = HeaderOf(b)
      BY <1>4, <3>1
    <3> QED BY <1>1, <3>2
  <2> QED BY <1>2, <2>1, <2>2
<1>6. AllInOrder(h)
  <2>1. \A k \in 1..(Len(h) - 1) : k \in 1..Len(h)
    BY <1>5
  <2>2. \A k \in 1..(Len(h) - 1) : InOrder(h[k], h[k + 1])
    BY <1>5, <2>1, HeaderFollowed
  <2> QED BY <2>2 DEF AllInOrder
<1> QED BY <1>5, <1>6 DEF h

\* How the text of a family ends that has come to its metric j.
EndsAt(M, f, j) ==
  LET last == M[Len(M)] IN
  /\ j = 0 => "labels" \notin DOMAIN last
  /\ j > 0 /\ f.type = "HISTOGRAM" => last.labels \ LevelOf(last) = LabelSet(f.metric[j])

\* One more metric keeps the text in order: no two neighbours are of the same
\* histogram.
LEMMA MetricFollows ==
  ASSUME NEW c, IsCollection(c), IsOrdered(c),
         NEW i \in DOMAIN c, HeaderComplete(c[i]),
         NEW j \in DOMAIN c[i].metric, ~Refuses(c[i], c[i].metric[j]),
         NEW M, IsSequence(M), Len(M) > 0, AllInOrder(M), EndsAt(M, c[i], j - 1)
  PROVE  LET s == SamplesOf(c[i].name, c[i].type, c[i].metric[j]) IN
         Len(M \o s) > 0 /\ AllInOrder(M \o s) /\ EndsAt(M \o s, c[i], j)
         /\ (M \o s)[1] = M[1]
<1> DEFINE f == c[i]
           x == f.metric[j]
           s == SamplesOf(f.name, f.type, x)
           ms == M \o s
<1>1. MetricSamples(f, x, s)
  BY MetricInOrder
<1>2. j \in Nat \ {0}
  <2>1. IsSequence(f.metric)
    BY DEF IsCollection
  <2>2. Len(f.metric) \in Nat /\ DOMAIN f.metric = 1..Len(f.metric)
    BY <2>1, Elements
  <2> QED BY <2>2
<1>3. f.type = "HISTOGRAM" /\ j > 1 => LabelSet(x) # LabelSet(f.metric[j - 1])
  BY DEF IsOrdered
<1>4. EndsAt(M, f, j - 1)
  OBVIOUS
<1> HIDE DEF s, x, f
<1>5. /\ IsSequence(s) /\ Len(s) > 0 /\ AllInOrder(s)
      /\ f.type # "HISTOGRAM" => Len(s) = 1 /\ LevelOf(s[1]) = {}
      /\ f.type = "HISTOGRAM" =>
           \A k \in 1..Len(s) : s[k].labels \ LevelOf(s[k]) = LabelSet(x)
  BY <1>1 DEF MetricSamples
<1>6. /\ IsSequence(ms) /\ Len(ms) = Len(M) + Len(s) /\ Len(M) \in Nat /\ Len(s) \in Nat
      /\ ms[1] = M[1] /\ ms[Len(M) + Len(s)] = s[Len(s)]
  BY <1>5, OuterLines
<1>7. 1 \in 1..Len(s) /\ Len(s) \in 1..Len(s)
  BY <1>5, <1>6
<1> DEFINE m == M[Len(M)]
           n == s[1]
<1>8. InOrder(m, n)
  <2>1. CASE f.type # "HISTOGRAM"
    BY <1>5, <2>1, HeaderFollowed
  <2>2. CASE j = 1
    BY <1>4, <2>2, HeaderFollowed DEF EndsAt
  <2>3. CASE f.type = "HISTOGRAM" /\ j > 1
    <3>1. m.labels \ LevelOf(m) = LabelSet(f.metric[j - 1])
      BY <1>2, <1>4, <2>3 DEF EndsAt
    <3>2. n.labels \ LevelOf(n) = LabelSet(x)
      BY <1>5, <1>7, <2>3
    <3> HIDE DEF m, n
    <3>3. ~SameHistogram(m, n)
      BY <1>3, <2>3, <3>1, <3>2 DEF SameHistogram
    <3> QED BY <3>3 DEF InOrder
  <2> QED BY <1>2, <2>1, <2>2, <2>3
<1> HIDE DEF m, n
<1>9. AllInOrder(ms)
  <2>1. InOrder(M[Len(M)], s[1])
    BY <1>8 DEF m, n
  <2> QED BY <1>5, <2>1, OrderJoined
<1> HIDE DEF ms
<1>10. EndsAt(ms, f, j)
  <2>1. ms[Len(ms)] = s[Len(s)]
    BY <1>6
  <2>2. f.type = "HISTOGRAM" => s[Len(s)].labels \ LevelOf(s[Len(s)]) = LabelSet(x)
    BY <1>5, <1>7
  <2>3. j # 0 /\ x = f.metric[j]
    BY <1>2 DEF x
  <2> QED BY <2>1, <2>2, <2>3 DEF EndsAt
<1>11. Len(ms) > 0
  BY <1>5, <1>6
<1> QED BY <1>6, <1>9, <1>10, <1>11 DEF ms, s, x, f

\* What a family says is in order, and begins with its header.
LEMMA FamilyInOrder ==
  ASSUME NEW c, IsCollection(c), IsOrdered(c), NEW i \in DOMAIN c, ~Malformed(c[i])
  PROVE  LET M == FamilyMeaning(c[i]) IN
         IsSequence(M) /\ Len(M) > 0 /\ AllInOrder(M) /\ "labels" \notin DOMAIN M[1]
<1> DEFINE f == c[i]
           n == Len(f.metric)
           MM(j) == MetricsMean(f, j)
           Good(j) == /\ Len(MM(j)) > 0 /\ AllInOrder(MM(j)) /\ EndsAt(MM(j), f, j)
                      /\ "labels" \notin DOMAIN MM(j)[1]
           T == {j \in Nat : j <= n => Good(j)}
<1>1. HeaderComplete(f) /\ \A j \in DOMAIN f.metric : ~Refuses(f, f.metric[j])
  BY MalformedParts
<1>2. /\ n \in Nat /\ DOMAIN f.metric = 1..n
      /\ MM(0) = HeadersOf(f) /\ MM(n) = FamilyMeaning(f)
      /\ \A j \in 0..n : IsSequence(MM(j))
      /\ \A j \in DOMAIN f.metric :
           MM(j) = MM(j - 1) \o SamplesOf(f.name, f.type, f.metric[j])
  BY MetricsMeaning
<1>3. 0 \in T
  <2>1. LET h == HeadersOf(f) IN
        /\ IsSequence(h) /\ Len(h) > 0 /\ AllInOrder(h)
        /\ \A k \in 1..Len(h) : "labels" \notin DOMAIN h[k]
    BY HeadersInOrder
  <2> DEFINE h == MM(0)
  <2>2. /\ IsSequence(h) /\ Len(h) > 0 /\ AllInOrder(h)
        /\ \A k \in 1..Len(h) : "labels" \notin DOMAIN h[k]
    BY <1>2, <2>1
  <2> HIDE DEF h, MM
  <2>3. 1 \in 1..Len(h) /\ Len(h) \in 1..Len(h)
    BY <2>2, Elements
  <2>4. EndsAt(h, f, 0)
    BY <2>2, <2>3 DEF EndsAt
  <2>5. Good(0)
    BY <2>2, <2>3, <2>4 DEF h
  <2> QED BY <2>5
<1>4. ASSUME NEW j \in Nat, j \in T
      PROVE  j + 1 \in T
  <2> SUFFICES ASSUME j + 1 <= n PROVE Good(j + 1)
    OBVIOUS
  <2>1. j \in 0..n /\ j + 1 \in DOMAIN f.metric /\ (j + 1) - 1 = j /\ Good(j)
    BY <1>2, <1>4
  <2> DEFINE k == j + 1
             M == MM(j)
             s == SamplesOf(f.name, f.type, f.metric[k])
  <2>2. /\ k \in DOMAIN f.metric /\ k - 1 = j
        /\ IsSequence(M) /\ Len(M) > 0 /\ AllInOrder(M) /\ EndsAt(M, f, j)
        /\ "labels" \notin DOMAIN M[1]
    BY <1>2, <2>1
  <2>3. MM(k) = MM(k - 1) \o s
    BY <1>2, <2>2
  <2>4. MM(k) = M \o s
    BY <2>2, <2>3
  <2> HIDE DEF k, M, MM
  <2>5. /\ Len(M \o s) > 0 /\ AllInOrder(M \o s) /\ EndsAt(M \o s, f, k)
        /\ (M \o s)[1] = M[1]
    BY <1>1, <2>2, MetricFollows
  <2>6. Good(k)
    BY <2>2, <2>4, <2>5
  <2> QED BY <2>6 DEF k
<1>5. n \in T
  <2> HIDE DEF T
  <2>1. n \in Nat
    BY <1>2
  <2> QED BY <1>3, <1>4, <2>1, NumberInduction
<1>6. Good(n) /\ IsSequence(MM(n))
  BY <1>2, <1>5
<1> QED BY <1>2, <1>6

\* What a collection says is in order.
LEMMA CollectionInOrder ==
  ASSUME NEW c, IsCollection(c), IsOrdered(c), \A i \in DOMAIN c : ~Malformed(c[i])
  PROVE  IsSequence(Meaning(c)) /\ AllInOrder(Meaning(c))
<1> DEFINE n == Len(c)
           FT(i) == FamiliesTold(c, i)
           T == {i \in Nat : i <= n => AllInOrder(FT(i + 1))}
<1>1. /\ n \in Nat /\ DOMAIN c = 1..n
  BY Parts
<1>2. /\ FT(1) = <<>> /\ FT(n + 1) = Meaning(c)
      /\ \A i \in 1..(n + 1) : IsSequence(FT(i))
      /\ \A i \in DOMAIN c : FT(i + 1) = FT(i) \o FamilyMeaning(c[i])
  BY FamiliesAreTold
<1> HIDE DEF FT, n
<1>3. 0 \in T
  <2>1. Len(<<>>) = 0
    OBVIOUS
  <2>2. AllInOrder(<<>>)
    BY <2>1 DEF AllInOrder
  <2>3. AllInOrder(FT(0 + 1))
    BY <1>2, <2>2
  <2> QED BY <2>3
<1>4. ASSUME NEW i \in Nat, i \in T
      PROVE  i + 1 \in T
  <2> SUFFICES ASSUME i + 1 <= n PROVE AllInOrder(FT((i + 1) + 1))
    OBVIOUS
  <2> DEFINE k == i + 1
             s == FT(k)
             t == FamilyMeaning(c[k])
  <2>1. k \in 1..n /\ k \in 1..(n + 1) /\ k \in DOMAIN c /\ i <= n
    BY <1>1
  <2>2. AllInOrder(s) /\ IsSequence(s)
    BY <1>2, <1>4, <2>1
  <2>3. IsSequence(t) /\ Len(t) > 0 /\ AllInOrder(t) /\ "labels" \notin DOMAIN t[1]
    BY <2>1, FamilyInOrder
  <2>4. FT(k + 1) = s \o t
    BY <1>2, <2>1
  <2> HIDE DEF k, s, t
  <2>5. InOrder(s[Len(s)], t[1])
    BY <2>3 DEF InOrder, SameHistogram
  <2>6. AllInOrder(s \o t)
    BY <2>2, <2>3, <2>5, OrderJoined
  <2> QED BY <2>4, <2>6 DEF k
<1>5. n \in T
  <2> HIDE DEF T
  <2> QED BY <1>1, <1>3, <1>4, NumberInduction
<1>6. AllInOrder(FT(n + 1)) /\ n + 1 \in 1..(n + 1)
  BY <1>1, <1>5
<1> QED BY <1>2, <1>6

\* Rounding to the digits of %g keeps the buckets of each histogram in order
\* and cumulative in the text that is returned (output_formatter.cc:168-183, 279).
THEOREM BucketsAreOrdered ==
  RenderSpec => []BucketsStayOrdered
<1> DEFINE OrderInv == TextInv /\ IsOrdered(collection)
<1>1. ASSUME OrderInv PROVE BucketsStayOrdered
  <2> DEFINE text == IF format = "fmt_text" /\ stage = "returned" THEN Read(os) ELSE <<>>
  <2>1. AllInOrder(text)
    <3>1. CASE format = "fmt_text" /\ stage = "returned"
      <4>1. IsCollection(collection) /\ \A i \in DOMAIN collection : ~Malformed(collection[i])
        BY <1>1, <3>1 DEF TextInv, FormatterInv, ThrowsIffMalformed
      <4>2. Says(os, Meaning(collection))
        BY <1>1, <3>1 DEF TextInv
      <4>3. text = Meaning(collection)
        BY <3>1, <4>2, SaysRead
      <4> QED BY <1>1, <4>1, <4>3, CollectionInOrder
    <3>2. CASE ~(format = "fmt_text" /\ stage = "returned")
      <4>1. text = <<>> /\ Len(<<>>) = 0
        BY <3>2
      <4> QED BY <4>1 DEF AllInOrder
    <3> QED BY <3>1, <3>2
  <2> HIDE DEF text
  <2>2. \A i \in 1..(Len(text) - 1) : SameHistogram(text[i], text[i + 1]) =>
          /\ AtMost(BoundOf(text[i]), BoundOf(text[i + 1]))
          /\ text[i].value <= text[i + 1].value
    BY <2>1 DEF AllInOrder, InOrder
  <2> QED BY <2>2 DEF BucketsStayOrdered, text, SameHistogram, BoundOf, LevelOf
<1>2. RenderInit => OrderInv
  BY TextInitInv, HistogramsAssumption DEF RenderInit
<1>3. OrderInv /\ [RenderNext]_renderVars => OrderInv'
  BY TextStepInv DEF RenderNext, renderVars
<1> QED BY <1>1, <1>2, <1>3, PTL DEF RenderSpec
=============================================================================
