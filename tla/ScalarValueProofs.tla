-------------------------- MODULE ScalarValueProofs --------------------------
(***************************************************************************)
(* Theorems about ScalarValue, for any number of threads and of objects    *)
(* and any arithmetic that satisfies DoubleAssumption; and about Utils,    *)
(* whose gauges of InProgress objects are exact in any arithmetic that     *)
(* also satisfies ExactAssumption.                                         *)
(***************************************************************************)
EXTENDS Utils, DataLemmas

\* The check at the start of CounterValue::inc, remembered: what is being
\* added to a counter is not negative.
AmountsAreChecked ==
  \A t \in Threads :
    call[t] # Nothing /\ call[t].object \in Counters => ~Less(call[t].amount, Zero)

Inv == TypeOK /\ AmountsAreChecked /\ ExposedNotAhead

-----------------------------------------------------------------------------

LEMMA InitInv == Init => Inv
<1> SUFFICES ASSUME Init PROVE Inv
  OBVIOUS
<1>1. TypeOK
  BY DoubleAssumption, ScalarAssumption DEF Init, TypeOK
<1>2. AmountsAreChecked
  BY DEF Init, AmountsAreChecked
<1>3. ExposedNotAhead
  BY DoubleAssumption DEF Init, ExposedNotAhead, Values
<1> QED BY <1>1, <1>2, <1>3 DEF Inv

\* The call in progress, in the terms of the model's types.
LEMMA CallType ==
  ASSUME TypeOK, NEW t \in Threads, call[t] # Nothing
  PROVE  /\ call[t].object \in Counters \union IncDecGauges
         /\ call[t].object \in Values
         /\ call[t].amount \in Double
         /\ value_[call[t].object] \in Double
BY DEF TypeOK, Values

\* A load, with which each of the three additions begins.
LEMMA LoadInv ==
  ASSUME Inv, NEW t \in Threads, NEW v \in Double,
         NEW o \in Counters \union IncDecGauges, Load(t, o, v),
         o \in Counters => ~Less(v, Zero)
  PROVE  Inv'
<1> DEFINE new == [object |-> o, amount |-> v]
<1>1. new \in [object : Counters \union IncDecGauges, amount : Double]
      /\ new.object = o /\ new.amount = v /\ o \in Values
  BY DEF Values
<1> HIDE DEF new
<1>2. /\ call' = [call EXCEPT ![t] = new]
      /\ current' = [current EXCEPT ![t] = value_[o]]
      /\ calls < MaxCalls /\ calls' = calls + 1
      /\ UNCHANGED <<value_, exposed>>
  BY DEF Load, Called, new
<1>3. TypeOK'
  <2>1. value_[o] \in Double
    BY <1>1 DEF Inv, TypeOK
  <2>2. calls' \in 0..MaxCalls
    BY <1>2, ScalarAssumption DEF Inv, TypeOK
  <2>3. call' \in [Threads -> [object : Counters \union IncDecGauges,
                               amount : Double] \union {Nothing}]
    BY <1>1, <1>2 DEF Inv, TypeOK
  <2> QED BY <1>2, <2>1, <2>2, <2>3 DEF Inv, TypeOK
<1>4. AmountsAreChecked'
  BY <1>1, <1>2 DEF Inv, TypeOK, AmountsAreChecked
<1>5. ExposedNotAhead'
  BY <1>2 DEF Inv, ExposedNotAhead
<1> QED BY <1>3, <1>4, <1>5 DEF Inv

\* What one successful compare-exchange does to the object it is about.
LEMMA SucceedsAdds ==
  ASSUME Inv, NEW t \in Threads, CompareExchangeSucceeds(t)
  PROVE  LET x == call[t].object
             a == call[t].amount
         IN  /\ x \in Values /\ x \in Counters \union IncDecGauges /\ a \in Double
             /\ value_[x] \in Double
             /\ value_' = [value_ EXCEPT ![x] = Plus(value_[x], a)]
             /\ x \in Counters => ~Less(a, Zero)
BY CallType DEF CompareExchangeSucceeds, Unchanged, Inv, AmountsAreChecked

LEMMA SucceedsInv ==
  ASSUME Inv, NEW t \in Threads, CompareExchangeSucceeds(t)
  PROVE  Inv'
<1> DEFINE x == call[t].object
           a == call[t].amount
<1>1. /\ x \in Values /\ a \in Double /\ value_[x] \in Double
      /\ value_' = [value_ EXCEPT ![x] = Plus(value_[x], a)]
      /\ x \in Counters => ~Less(a, Zero)
  BY SucceedsAdds
<1>2. call' = [call EXCEPT ![t] = Nothing]
      /\ UNCHANGED <<current, exposed, calls>>
  BY DEF CompareExchangeSucceeds
<1> HIDE DEF x, a
<1>3. TypeOK'
  <2>1. Plus(value_[x], a) \in Double
    BY <1>1, DoubleAssumption
  <2> QED BY <1>1, <1>2, <2>1 DEF Inv, TypeOK
<1>4. AmountsAreChecked'
  BY <1>2 DEF Inv, TypeOK, AmountsAreChecked
<1>5. ExposedNotAhead'
  <2> SUFFICES ASSUME NEW o \in Counters
               PROVE  ~Less(value_'[o], exposed[o])
    BY <1>2 DEF ExposedNotAhead
  <2>1. ~Less(value_[o], exposed[o]) /\ o \in Values
        /\ value_[o] \in Double /\ exposed[o] \in Double
    BY DEF Inv, ExposedNotAhead, TypeOK, Values
  <2>2. CASE o = x
    <3>1. value_'[o] = Plus(value_[o], a)
      BY <1>1, <2>1, <2>2 DEF Inv, TypeOK
    <3> QED BY <1>1, <2>1, <2>2, <3>1, DoubleAssumption
  <2>3. CASE o # x
    BY <1>1, <2>1, <2>3 DEF Inv, TypeOK
  <2> QED BY <2>2, <2>3
<1> QED BY <1>3, <1>4, <1>5 DEF Inv

\* The remaining steps do not touch a counter or a call.
LEMMA OtherInv ==
  ASSUME Inv,
         \/ \E t \in Threads : CompareExchangeFails(t)
         \/ \E t \in Threads, o \in Values, v \in Amounts :
              CounterIncThrows(t, o, v) \/ Set(t, o, v)
         \/ \E o \in Values : Collect(o)
         \/ UNCHANGED vars
  PROVE  Inv'
<1>1. ASSUME NEW t \in Threads, CompareExchangeFails(t)
      PROVE  Inv'
  <2>1. value_[call[t].object] \in Double
    BY <1>1, CallType DEF CompareExchangeFails, Inv
  <2> QED BY <1>1, <2>1
          DEF CompareExchangeFails, Inv, TypeOK, AmountsAreChecked, ExposedNotAhead
<1>2. ASSUME NEW t \in Threads, NEW o \in Values, NEW v \in Amounts, Set(t, o, v)
      PROVE  Inv'
  <2>1. TypeOK'
    BY <1>2, ScalarAssumption DEF Set, Called, Inv, TypeOK
  <2>2. \A c \in Counters : value_'[c] = value_[c]
    BY <1>2, ScalarAssumption DEF Set, Inv, TypeOK, Values
  <2>3. AmountsAreChecked' /\ ExposedNotAhead'
    BY <1>2, <2>2 DEF Set, Inv, AmountsAreChecked, ExposedNotAhead
  <2> QED BY <2>1, <2>3 DEF Inv
<1>3. ASSUME NEW t \in Threads, NEW o \in Values, NEW v \in Amounts,
             CounterIncThrows(t, o, v)
      PROVE  Inv'
  <2>1. calls' \in 0..MaxCalls
    BY <1>3, ScalarAssumption DEF CounterIncThrows, Called, Inv, TypeOK
  <2> QED BY <1>3, <2>1
          DEF CounterIncThrows, Inv, TypeOK, AmountsAreChecked, ExposedNotAhead
<1>4. ASSUME NEW o \in Values, Collect(o)
      PROVE  Inv'
  <2>1. TypeOK' /\ AmountsAreChecked'
    BY <1>4 DEF Collect, Inv, TypeOK, AmountsAreChecked
  <2>2. \A c \in Counters : exposed'[c] = exposed[c] \/ exposed'[c] = value_[c]
    BY <1>4 DEF Collect, Inv, TypeOK, Values
  <2>3. \A c \in Counters : ~Less(value_[c], value_[c])
    BY DoubleAssumption DEF Inv, TypeOK, Values
  <2>4. ExposedNotAhead'
    BY <1>4, <2>2, <2>3 DEF Collect, Inv, ExposedNotAhead
  <2> QED BY <2>1, <2>4 DEF Inv
<1>5. CASE UNCHANGED vars
  BY <1>5 DEF vars, Inv, TypeOK, AmountsAreChecked, ExposedNotAhead
<1> QED BY <1>1, <1>2, <1>3, <1>4, <1>5

LEMMA StepInv == Inv /\ [Next]_vars => Inv'
<1> SUFFICES ASSUME Inv, [Next]_vars PROVE Inv'
  OBVIOUS
<1>1. ASSUME NEW t \in Threads, NEW o \in Values, NEW v \in Amounts,
             CounterInc(t, o, v) \/ GaugeInc(t, o, v) \/ GaugeDec(t, o, v)
      PROVE  Inv'
  <2>1. v \in Double /\ Neg(v) \in Double
    BY ScalarAssumption, DoubleAssumption
  <2>2. o \in IncDecGauges => o \notin Counters
    BY ScalarAssumption
  <2> QED BY <1>1, <2>1, <2>2, LoadInv DEF CounterInc, GaugeInc, GaugeDec
<1> QED BY <1>1, SucceedsInv, OtherInv DEF Next, IncStep

\* The inductive invariant holds of every behaviour.
THEOREM Invariance == Spec => []Inv
BY InitInv, StepInv, PTL DEF Spec

-----------------------------------------------------------------------------
(* The properties that the run checks. *)

\* Every variable keeps its type.
THEOREM TypeCorrect == Spec => []TypeOK
<1>1. Inv => TypeOK
  BY DEF Inv
<1> QED BY <1>1, Invariance, PTL

\* What a scrape has read of a counter is never ahead of the counter.
THEOREM ExposedIsNotAhead == Spec => []ExposedNotAhead
<1>1. Inv => ExposedNotAhead
  BY DEF Inv
<1> QED BY <1>1, Invariance, PTL

\* No interleaving of increments, refused increments and scrapes makes a
\* counter, or what successive scrapes read of it, go down, rounding included
\* (values.cc:28-38).
THEOREM CountersAreMonotonic == Spec => CounterNeverDecreases
<1> DEFINE Monotonic == \A o \in Counters : /\ ~Less(value_'[o], value_[o])
                                            /\ ~Less(exposed'[o], exposed[o])
<1>1. Inv /\ [Next]_vars => [Monotonic]_vars
  <2> SUFFICES ASSUME Inv, Next, NEW o \in Counters
               PROVE  /\ ~Less(value_'[o], value_[o])
                      /\ ~Less(exposed'[o], exposed[o])
    OBVIOUS
  <2>1. /\ o \in Values /\ o \notin SetGauges
        /\ value_[o] \in Double /\ exposed[o] \in Double
        /\ ~Less(value_[o], exposed[o])
        /\ ~Less(value_[o], value_[o]) /\ ~Less(exposed[o], exposed[o])
    BY ScalarAssumption, DoubleAssumption
       DEF Inv, TypeOK, ExposedNotAhead, Values
  <2>2. ASSUME UNCHANGED exposed, value_'[o] = value_[o]
        PROVE  ~Less(value_'[o], value_[o]) /\ ~Less(exposed'[o], exposed[o])
    BY <2>1, <2>2
  <2>3. ASSUME NEW t \in Threads, CompareExchangeSucceeds(t)
        PROVE  ~Less(value_'[o], value_[o]) /\ ~Less(exposed'[o], exposed[o])
    <3> DEFINE x == call[t].object
               a == call[t].amount
    <3>1. /\ x \in Values /\ a \in Double
          /\ value_' = [value_ EXCEPT ![x] = Plus(value_[x], a)]
          /\ x \in Counters => ~Less(a, Zero)
      BY <2>3, SucceedsAdds
    <3> HIDE DEF x, a
    <3>2. UNCHANGED exposed
      BY <2>3 DEF CompareExchangeSucceeds
    <3>3. CASE o = x
      <4>1. value_'[o] = Plus(value_[o], a) /\ ~Less(a, Zero)
        BY <2>1, <3>1, <3>3 DEF Inv, TypeOK
      <4> QED BY <2>1, <3>1, <3>2, <4>1, DoubleAssumption
    <3>4. CASE o # x
      BY <2>1, <2>2, <3>1, <3>2, <3>4 DEF Inv, TypeOK
    <3> QED BY <3>3, <3>4
  <2>4. ASSUME NEW p \in Values, Collect(p)
        PROVE  ~Less(value_'[o], value_[o]) /\ ~Less(exposed'[o], exposed[o])
    BY <2>1, <2>4 DEF Collect, Inv, TypeOK
  <2>5. ASSUME NEW t \in Threads, NEW p \in Values, NEW v \in Amounts,
               Set(t, p, v)
        PROVE  ~Less(value_'[o], value_[o]) /\ ~Less(exposed'[o], exposed[o])
    BY <2>1, <2>2, <2>5 DEF Set, Inv, TypeOK
  <2>6. ASSUME NEW t \in Threads, NEW p \in Values, NEW v \in Amounts,
               \/ CounterInc(t, p, v) \/ CounterIncThrows(t, p, v)
               \/ GaugeInc(t, p, v) \/ GaugeDec(t, p, v)
        PROVE  ~Less(value_'[o], value_[o]) /\ ~Less(exposed'[o], exposed[o])
    BY <2>2, <2>6 DEF CounterInc, CounterIncThrows, GaugeInc, GaugeDec, Load
  <2>7. ASSUME NEW t \in Threads, CompareExchangeFails(t)
        PROVE  ~Less(value_'[o], value_[o]) /\ ~Less(exposed'[o], exposed[o])
    BY <2>2, <2>7 DEF CompareExchangeFails
  <2> QED BY <2>3, <2>4, <2>5, <2>6, <2>7 DEF Next, IncStep
<1> QED BY <1>1, Invariance, PTL DEF Spec, CounterNeverDecreases

\* Every addition is applied exactly once, to the value of that moment: the
\* compare-exchange loop implements an atomic addition (values.cc:18-47).
THEOREM LoopIsAtomicAddition == Spec => ImplementsAtomic
<1>1. Init => Abstract!Init
  BY DEF Init, Abstract!Init
<1>2. Inv /\ [Next]_vars => [Abstract!Next]_(Abstract!vars)
  <2> SUFFICES ASSUME Inv, [Next]_vars
               PROVE  [Abstract!Next]_(Abstract!vars)
    OBVIOUS
  <2>1. ASSUME NEW t \in Threads, NEW v \in Double,
               NEW o \in Counters \union IncDecGauges, Load(t, o, v)
        PROVE  Abstract!Next
    <3>1. o \in Values \ SetGauges
      BY ScalarAssumption DEF Values
    <3>2. Abstract!Ask(t, o, v)
      BY <2>1 DEF Load, Abstract!Ask
    <3> QED BY <3>1, <3>2 DEF Abstract!Next
  <2>2. ASSUME NEW t \in Threads, NEW o \in Values, NEW v \in Amounts,
               CounterInc(t, o, v) \/ GaugeInc(t, o, v) \/ GaugeDec(t, o, v)
        PROVE  Abstract!Next
    <3>1. v \in Double /\ Neg(v) \in Double
      BY ScalarAssumption, DoubleAssumption
    <3> QED BY <2>1, <2>2, <3>1 DEF CounterInc, GaugeInc, GaugeDec
  <2>3. ASSUME NEW t \in Threads, CompareExchangeSucceeds(t)
        PROVE  Abstract!Next
    <3>1. Abstract!Apply(t)
      BY <2>3 DEF CompareExchangeSucceeds, Unchanged, Abstract!Apply
    <3> QED BY <3>1 DEF Abstract!Next
  <2>4. ASSUME NEW t \in Threads, NEW o \in Values, NEW v \in Amounts,
               Set(t, o, v)
        PROVE  Abstract!Next
    <3>1. Abstract!Overwrite(o, v) /\ o \in SetGauges /\ v \in Double
      BY <2>4, ScalarAssumption DEF Set, Abstract!Overwrite
    <3> QED BY <3>1 DEF Abstract!Next
  <2>5. ASSUME \/ \E t \in Threads : CompareExchangeFails(t)
               \/ \E t \in Threads, o \in Values, v \in Amounts :
                    CounterIncThrows(t, o, v)
               \/ \E o \in Values : Collect(o)
               \/ UNCHANGED vars
        PROVE  UNCHANGED Abstract!vars
    BY <2>5 DEF CompareExchangeFails, CounterIncThrows, Collect, vars,
                Abstract!vars
  <2> QED BY <2>2, <2>3, <2>4, <2>5 DEF Next, IncStep
<1> QED BY <1>1, <1>2, Invariance, PTL DEF Spec, ImplementsAtomic, Abstract!Spec

-----------------------------------------------------------------------------
(* InProgress. *)

\* An InProgress object remembers a gauge and an amount a client may pass, so
\* that its destructor makes a call a client may make.
Scope == [gauge : ScopedGauges, amount : ScopeAmounts]

ScopesAreTyped == scopes \in [Threads -> Seq(Scope)]

LEMMA ScopeStep ==
  ASSUME ScopesAreTyped, [UNext]_allVars
  PROVE  [Next]_vars /\ ScopesAreTyped'
<1> USE UtilsAssumption
<1>1. CASE UNCHANGED allVars
  BY <1>1 DEF allVars, ScopesAreTyped
<1>2. CASE Elsewhere
  BY <1>2 DEF Elsewhere, ScopesAreTyped
<1>3. ASSUME NEW t \in Threads, Leave(t)
      PROVE  [Next]_vars /\ ScopesAreTyped'
  <2>1. /\ scopes[t] \in Seq(Scope) /\ scopes[t] # <<>>
    BY <1>3 DEF Leave, ScopesAreTyped
  <2>2. Last(scopes[t]) \in Scope /\ Front(scopes[t]) \in Seq(Scope)
    BY <2>1, FrontAndLast
  <2>3. /\ Last(scopes[t]).gauge \in Values /\ Last(scopes[t]).amount \in Amounts
        /\ GaugeDec(t, Last(scopes[t]).gauge, Last(scopes[t]).amount)
    BY <1>3, <2>2 DEF Leave, Values, Scope
  <2>4. Next
    BY <2>3 DEF Next
  <2>5. ScopesAreTyped'
    BY <1>3, <2>2 DEF Leave, ScopesAreTyped
  <2> QED BY <2>4, <2>5
<1>4. ASSUME NEW t \in Threads, NEW g \in ScopedGauges, NEW v \in ScopeAmounts,
             Enter(t, g, v)
      PROVE  [Next]_vars /\ ScopesAreTyped'
  <2>1. Next
    BY <1>4 DEF Enter, Next, Values
  <2>2. [gauge |-> g, amount |-> v] \in Scope /\ scopes[t] \in Seq(Scope)
    BY DEF ScopesAreTyped, Scope
  <2>3. Append(scopes[t], [gauge |-> g, amount |-> v]) \in Seq(Scope)
    BY <2>2
  <2>4. ScopesAreTyped'
    BY <1>4, <2>3 DEF Enter, ScopesAreTyped
  <2> QED BY <2>1, <2>4
<1> QED BY <1>1, <1>2, <1>3, <1>4 DEF UNext

\* A program with InProgress objects calls inc() and dec() as any client does
\* (utils.cc:13-18), so that the theorems above hold for it.
THEOREM ScopesAreCalls == USpec => Spec
<1>1. UInit => Init /\ ScopesAreTyped
  BY DEF UInit, ScopesAreTyped
<1>2. ScopesAreTyped /\ [UNext]_allVars => [Next]_vars /\ ScopesAreTyped'
  BY ScopeStep
<1> QED BY <1>1, <1>2, PTL DEF USpec, Spec

-----------------------------------------------------------------------------
(* The number that a gauge counts. *)

\* Amounts as the whole numbers that ExactAssumption says they are.
UnitsOf(d) == CHOOSE n \in (-Exact)..Exact : Whole[n] = d

\* What the scopes s add up to on g, what the call c is adding to it, and the
\* sums of these over the threads.
Entered(s, g) ==
  SumFunction([i \in DOMAIN s |-> IF s[i].gauge = g THEN UnitsOf(s[i].amount) ELSE 0])
Pending(c, g) == IF c # Nothing /\ c.object = g THEN UnitsOf(c.amount) ELSE 0
AllEntered(sc, g) == SumFunction([t \in Threads |-> Entered(sc[t], g)])
AllPending(ca, g) == SumFunction([t \in Threads |-> Pending(ca[t], g)])
AllOpen(sc) == SumFunction([t \in Threads |-> Len(sc[t])])

\* The calls under way on a scoped gauge add amounts that add up exactly.
IsExactCall(c) ==
  c # Nothing /\ c.object \in ScopedGauges =>
    \E n \in (-Units)..Units : c.amount = Whole[n]

\* What a gauge holds is what the scopes add up to, but for what is still being
\* added, exactly.
UInv ==
  /\ Inv
  /\ ScopesAreTyped
  /\ \A t \in Threads : IsExactCall(call[t])
  /\ AllOpen(scopes) <= MaxOpen
  /\ \A g \in ScopedGauges :
       value_[g] = Whole[AllEntered(scopes, g) - AllPending(call, g)]

\* The numbers that the assumptions make of the bounds.
LEMMA ExactBounds ==
  /\ Units \in Nat /\ MaxOpen \in Nat /\ Cardinality(Threads) \in Nat
  /\ Exact \in Nat
  /\ \A n \in Nat : Units * n \in Nat
  /\ \A m, n \in Nat : m <= n => Units * m <= Units * n
  /\ Exact = Units * MaxOpen + Units * Cardinality(Threads)
<1>1. Units \in Nat /\ MaxOpen \in Nat /\ Cardinality(Threads) \in Nat
  BY UtilsAssumption, ExactAssumption, FS_CardinalityType
<1>2. \A u, m, n \in Nat :
        u * n \in Nat /\ (m <= n => u * m <= u * n) /\ u * (m + n) = u * m + u * n
  OBVIOUS
<1> QED BY <1>1, <1>2 DEF Exact

\* If there is a thread or room for an object, one amount is in range.
LEMMA UnitsInRange ==
  ASSUME NEW t \in Threads
  PROVE  Units <= Exact
<1>1. Cardinality(Threads) >= 1
  <2>1. Cardinality(Threads) # 0
    BY UtilsAssumption, FS_EmptySet
  <2> QED BY <2>1, ExactBounds
<1>2. Units * 1 <= Units * Cardinality(Threads) /\ Units * 1 = Units
  BY <1>1, ExactBounds
<1>3. Units * MaxOpen \in Nat /\ Units * Cardinality(Threads) \in Nat
  BY ExactBounds
<1> QED BY <1>2, <1>3, ExactBounds

LEMMA UnitsOfWhole ==
  ASSUME NEW n \in (-Exact)..Exact
  PROVE  UnitsOf(Whole[n]) = n
BY ExactAssumption DEF UnitsOf

\* Sum, where the recursion that it folds with has a solution.
LEMMA SumUnfolds ==
  ASSUME NEW f,
         NEW h, h = [s \in SUBSET DOMAIN f |-> IF s = {} THEN Zero
                                               ELSE Plus(f[Some(s)], h[s \ {Some(s)}])]
  PROVE  \E g : /\ g = [s \in SUBSET DOMAIN f |-> IF s = {} THEN Zero
                                               ELSE Plus(f[Some(s)], g[s \ {Some(s)}])]
               /\ Sum(f) = g[DOMAIN f]
BY Zenon DEF Sum, FoldFunction, FoldFunctionOnSet, MapThenFoldSet, Some

\* Sums that stay in range are exact.
LEMMA SumIsExact ==
  ASSUME NEW S, IsFiniteSet(S), NEW e \in [S -> Int],
         \A x \in S : e[x] \in (-Exact)..Exact,
         NEW k, IsSum(k, e), \A s \in SUBSET S : k[s] \in (-Exact)..Exact
  PROVE  Sum([x \in S |-> Whole[e[x]]]) = Whole[k[S]]
<1> DEFINE f == [x \in S |-> Whole[e[x]]]
<1>0. DOMAIN f = S /\ DOMAIN e = S /\ \A x \in S : f[x] = Whole[e[x]]
  OBVIOUS
<1> HIDE DEF f
<1>1. \A s \in SUBSET S : s # {} => /\ Some(s) \in s
                                    /\ k[s] = e[Some(s)] + k[s \ {Some(s)}]
  BY <1>0, SomeIsElement DEF IsSum
<1>2. k[{}] = 0
  BY <1>0 DEF IsSum
<1>3. ASSUME NEW s \in SUBSET S, s # {}
      PROVE  Whole[k[s]] = Plus(f[Some(s)], Whole[k[s \ {Some(s)}]])
  <2>1. Some(s) \in S /\ s \ {Some(s)} \in SUBSET S
    BY <1>1, <1>3
  <2>2. /\ e[Some(s)] \in (-Exact)..Exact /\ k[s \ {Some(s)}] \in (-Exact)..Exact
        /\ e[Some(s)] + k[s \ {Some(s)}] \in (-Exact)..Exact
        /\ k[s] = e[Some(s)] + k[s \ {Some(s)}]
        /\ f[Some(s)] = Whole[e[Some(s)]]
    BY <1>0, <1>1, <1>3, <2>1
  <2> QED BY <2>2, ExactAssumption
<1> DEFINE h == [s \in SUBSET S |-> Whole[k[s]]]
<1>4. \A s \in SUBSET S : h[s] = IF s = {} THEN Zero ELSE Plus(f[Some(s)], h[s \ {Some(s)}])
  BY <1>1, <1>2, <1>3, ExactAssumption
<1>5. h = [s \in SUBSET S |-> h[s]]
  OBVIOUS
<1> HIDE DEF h
<1>6. h = [s \in SUBSET DOMAIN f |-> IF s = {} THEN Zero
                                     ELSE Plus(f[Some(s)], h[s \ {Some(s)}])]
  BY <1>0, <1>4, <1>5, Zenon
<1>7. \E g : /\ g = [s \in SUBSET DOMAIN f |-> IF s = {} THEN Zero
                                            ELSE Plus(f[Some(s)], g[s \ {Some(s)}])]
             /\ Sum(f) = g[DOMAIN f]
  BY <1>6, SumUnfolds, Zenon
<1>8. PICK g : /\ g = [s \in SUBSET S |-> IF s = {} THEN Zero
                                          ELSE Plus(f[Some(s)], g[s \ {Some(s)}])]
               /\ Sum(f) = g[S]
  BY <1>0, <1>7, Zenon
<1> DEFINE T == {s \in SUBSET S : g[s] = Whole[k[s]]}
<1>9. ASSUME NEW s \in SUBSET S, \A r \in SUBSET s : r # s => r \in T
      PROVE  s \in T
  <2>1. CASE s = {}
    BY <1>2, <1>8, <2>1, ExactAssumption
  <2>2. CASE s # {}
    <3>1. g[s \ {Some(s)}] = Whole[k[s \ {Some(s)}]]
      BY <1>1, <1>9, <2>2
    <3>2. g[s] = Plus(f[Some(s)], g[s \ {Some(s)}])
      BY <1>8, <2>2
    <3> QED BY <1>3, <2>2, <3>1, <3>2
  <2> QED BY <2>1, <2>2
<1>10. SUBSET S \subseteq T
  <2> HIDE DEF T
  <2>1. \A s \in SUBSET S : (\A r \in SUBSET s : r # s => r \in T) => s \in T
    BY <1>9
  <2> QED BY <2>1, SubsetInduction, Zenon
<1> QED BY <1>8, <1>10 DEF f

\* Numbers of at most Units * c[x] each, where c adds up to a number in range,
\* add up to a number in range, and the amounts they stand for to its amount.
LEMMA BoundedSumIsExact ==
  ASSUME NEW S, IsFiniteSet(S), NEW c \in [S -> Nat], NEW e \in [S -> Int],
         \A x \in S : -(Units * c[x]) <= e[x] /\ e[x] <= Units * c[x]
  PROVE  LET bound == Units * SumFunction(c)
         IN  /\ SumFunction(e) \in Int
             /\ -bound <= SumFunction(e) /\ SumFunction(e) <= bound
             /\ bound <= Exact =>
                  Sum([x \in S |-> Whole[e[x]]]) = Whole[SumFunction(e)]
<1> DEFINE bound == Units * SumFunction(c)
<1>1. PICK k : IsSum(k, e) /\ SumFunction(e) = k[S]
  BY SumFunctionIsSum
<1>2. Units \in Nat /\ Exact \in Nat
  BY ExactBounds
<1>3. /\ SumFunction(c) \in Nat /\ bound \in Nat
      /\ \A x \in S : c[x] <= SumFunction(c)
  BY <1>2, SumFunctionCovers, ExactBounds
<1>4. \A U \in SUBSET S : k[U] \in Int /\ -bound <= k[U] /\ k[U] <= bound
  BY <1>1, <1>2, SumBounded
<1>5. ASSUME NEW x \in S
      PROVE  e[x] \in Int /\ -bound <= e[x] /\ e[x] <= bound
  <2>1. c[x] \in Nat /\ c[x] <= SumFunction(c) /\ SumFunction(c) \in Nat
    BY <1>3
  <2>2. Units * c[x] <= bound /\ Units * c[x] \in Nat
    BY <2>1, ExactBounds
  <2>3. e[x] \in Int /\ -(Units * c[x]) <= e[x] /\ e[x] <= Units * c[x]
    OBVIOUS
  <2> HIDE DEF bound
  <2> QED BY <1>3, <2>2, <2>3
<1>6. S \in SUBSET S
  OBVIOUS
<1> HIDE DEF bound
<1>7. ASSUME bound <= Exact
      PROVE  Sum([x \in S |-> Whole[e[x]]]) = Whole[k[S]]
  <2>1. \A x \in S : e[x] \in (-Exact)..Exact
    BY <1>2, <1>3, <1>5, <1>7
  <2>2. \A U \in SUBSET S : k[U] \in (-Exact)..Exact
    BY <1>2, <1>3, <1>4, <1>7
  <2> QED BY <1>1, <2>1, <2>2, SumIsExact
<1> QED BY <1>1, <1>4, <1>6, <1>7 DEF bound

\* An amount of a scope, and its negation, in units.
LEMMA AmountUnits ==
  ASSUME NEW t \in Threads, NEW v \in ScopeAmounts
  PROVE  \E n \in (-Units)..Units :
           /\ n \in (-Exact)..Exact /\ -n \in (-Exact)..Exact
           /\ v = Whole[n] /\ Neg(v) = Whole[-n]
           /\ UnitsOf(v) = n /\ UnitsOf(Neg(v)) = -n
<1>1. PICK n \in ((-Units)..Units) \ {0} : v = Whole[n] /\ Neg(v) = Whole[-n]
  BY ExactAssumption
<1>2. n \in (-Exact)..Exact /\ -n \in (-Exact)..Exact
  BY <1>1, UnitsInRange, ExactBounds
<1> QED BY <1>1, <1>2, UnitsOfWhole

\* What the scopes of one thread add up to.
LEMMA EnteredBounds ==
  ASSUME NEW t \in Threads, NEW s \in Seq(Scope), NEW g
  PROVE  /\ Len(s) \in Nat
         /\ Entered(s, g) \in Int
         /\ -(Units * Len(s)) <= Entered(s, g) /\ Entered(s, g) <= Units * Len(s)
         /\ Len(s) <= MaxOpen =>
              Sum([i \in DOMAIN s |-> IF s[i].gauge = g THEN s[i].amount ELSE Zero])
                = Whole[Entered(s, g)]
<1> DEFINE S == DOMAIN s
           a == [i \in S |-> IF s[i].gauge = g THEN s[i].amount ELSE Zero]
           e == [i \in S |-> IF s[i].gauge = g THEN UnitsOf(s[i].amount) ELSE 0]
           c == [i \in S |-> 1]
<1>1. /\ Len(s) \in Nat /\ S = 1..Len(s)
      /\ \A i \in S : s[i] \in Scope
  BY LenProperties, ElementOfSeq
<1>2. IsFiniteSet(S) /\ Cardinality(S) = Len(s)
  BY <1>1, FS_Interval
<1>3. ASSUME NEW i \in S
      PROVE  /\ e[i] \in (-Units)..Units
             /\ e[i] \in (-Exact)..Exact
             /\ a[i] = Whole[e[i]] /\ a[i] \in Double
  <2>1. s[i].amount \in ScopeAmounts
    BY <1>1 DEF Scope
  <2>2. PICK n \in (-Units)..Units :
          n \in (-Exact)..Exact /\ s[i].amount = Whole[n] /\ UnitsOf(s[i].amount) = n
    BY <2>1, AmountUnits
  <2>3. 0 \in (-Units)..Units /\ 0 \in (-Exact)..Exact /\ Zero = Whole[0]
    BY ExactBounds, ExactAssumption
  <2>4. Zero \in Double /\ s[i].amount \in Double
    BY <2>2, <2>3, ExactAssumption
  <2>5. CASE s[i].gauge = g
    BY <2>2, <2>4, <2>5
  <2>6. CASE s[i].gauge # g
    BY <2>3, <2>4, <2>6
  <2> QED BY <2>5, <2>6
<1>4. /\ e \in [S -> Int] /\ c \in [S -> Nat] /\ c \in [S -> Int]
      /\ a \in [S -> Double] /\ \A i \in S : c[i] = 1
  BY <1>3
<1>5. Entered(s, g) = SumFunction(e)
  BY DEF Entered
<1>6. a = [i \in S |-> Whole[e[i]]]
  BY <1>3
<1> HIDE DEF S, a, e, c
<1>7. SumFunction(c) = Len(s)
  BY <1>2, <1>4, SumOfOnes
<1>8. ASSUME NEW i \in S
      PROVE  -(Units * c[i]) <= e[i] /\ e[i] <= Units * c[i]
  <2>1. Units * c[i] = Units /\ Units \in Nat
    BY <1>4, ExactBounds
  <2> QED BY <1>3, <2>1
<1>9. /\ SumFunction(e) \in Int
      /\ -(Units * Len(s)) <= SumFunction(e) /\ SumFunction(e) <= Units * Len(s)
      /\ Units * Len(s) <= Exact => Sum(a) = Whole[SumFunction(e)]
  BY <1>2, <1>4, <1>6, <1>7, <1>8, BoundedSumIsExact
<1>10. Len(s) <= MaxOpen => Units * Len(s) <= Exact
  <2>1. Len(s) <= MaxOpen => Units * Len(s) <= Units * MaxOpen
    BY <1>1, ExactBounds
  <2>2. /\ Units * Len(s) \in Nat /\ Units * MaxOpen \in Nat
        /\ Units * Cardinality(Threads) \in Nat
    BY <1>1, ExactBounds
  <2> QED BY <2>1, <2>2, ExactBounds
<1> QED BY <1>1, <1>5, <1>9, <1>10 DEF a, S

\* A further scope.
LEMMA EnteredAppend ==
  ASSUME NEW t \in Threads, NEW s \in Seq(Scope), NEW x \in Scope, NEW g
  PROVE  Entered(Append(s, x), g)
           = Entered(s, g) + IF x.gauge = g THEN UnitsOf(x.amount) ELSE 0
<1> DEFINE S == DOMAIN s
           m == Len(s) + 1
           R == S \union {m}
           r == Append(s, x)
           e == [i \in S |-> IF s[i].gauge = g THEN UnitsOf(s[i].amount) ELSE 0]
           d == [i \in DOMAIN r |-> IF r[i].gauge = g THEN UnitsOf(r[i].amount) ELSE 0]
<1>1. /\ Len(s) \in Nat /\ S = 1..Len(s) /\ m \notin S
      /\ DOMAIN r = S \union {m} /\ r[m] = x /\ \A i \in S : r[i] = s[i]
      /\ \A i \in S : s[i] \in Scope
  BY LenProperties, ElementOfSeq
<1>2. IsFiniteSet(S)
  BY <1>1, FS_Interval
<1>3. \A y \in Scope : (IF y.gauge = g THEN UnitsOf(y.amount) ELSE 0) \in Int
  <2> SUFFICES ASSUME NEW y \in Scope PROVE UnitsOf(y.amount) \in Int
    OBVIOUS
  <2>1. y.amount \in ScopeAmounts
    BY DEF Scope
  <2> QED BY <2>1, AmountUnits
<1>4. /\ e \in [S -> Int] /\ d \in [S \union {m} -> Int]
      /\ \A i \in S : d[i] = e[i]
      /\ d[m] = IF x.gauge = g THEN UnitsOf(x.amount) ELSE 0
  BY <1>1, <1>3
<1>5. Entered(s, g) = SumFunction(e) /\ Entered(r, g) = SumFunction(d)
  BY DEF Entered
<1>6. e = [i \in R \ {m} |-> d[i]]
  BY <1>1, <1>4
<1>7. IsFiniteSet(R) /\ m \in R
  BY <1>2, FS_AddElement
<1>8. d \in [R -> Int]
  BY <1>4
<1> HIDE DEF S, m, R, r, e, d
<1>9. SumFunction(d) = SumFunction(e) + d[m]
  BY <1>6, <1>7, <1>8, SumFunctionWithout
<1> QED BY <1>4, <1>5, <1>9 DEF r

\* What the scopes of all threads add up to, where no more than MaxOpen exist.
LEMMA AllEnteredIsExact ==
  ASSUME NEW sc \in [Threads -> Seq(Scope)], AllOpen(sc) <= MaxOpen, NEW g
  PROVE  /\ AllEntered(sc, g) \in Int
         /\ -(Units * MaxOpen) <= AllEntered(sc, g)
         /\ AllEntered(sc, g) <= Units * MaxOpen
         /\ Sum([t \in Threads |->
                   Sum([i \in DOMAIN sc[t] |->
                          IF sc[t][i].gauge = g THEN sc[t][i].amount ELSE Zero])])
              = Whole[AllEntered(sc, g)]
<1> DEFINE a == [t \in Threads |->
                   Sum([i \in DOMAIN sc[t] |->
                          IF sc[t][i].gauge = g THEN sc[t][i].amount ELSE Zero])]
           e == [t \in Threads |-> Entered(sc[t], g)]
           c == [t \in Threads |-> Len(sc[t])]
<1>1. IsFiniteSet(Threads)
  BY UtilsAssumption
<1>2. c \in [Threads -> Nat] /\ \A t \in Threads : c[t] = Len(sc[t])
  BY EnteredBounds
<1>3. AllOpen(sc) = SumFunction(c)
  BY DEF AllOpen
<1>4. SumFunction(c) \in Nat /\ \A t \in Threads : c[t] <= SumFunction(c)
  <2> HIDE DEF c
  <2> QED BY <1>1, <1>2, SumFunctionCovers
<1>5. ASSUME NEW t \in Threads
      PROVE  /\ e[t] \in Int /\ -(Units * c[t]) <= e[t] /\ e[t] <= Units * c[t]
             /\ a[t] = Whole[e[t]]
  <2>1. c[t] \in Nat /\ c[t] <= SumFunction(c) /\ c[t] = Len(sc[t])
    BY <1>2, <1>4
  <2> HIDE DEF c
  <2>2. Len(sc[t]) <= MaxOpen /\ sc[t] \in Seq(Scope)
    BY <1>3, <1>4, <2>1, ExactBounds
  <2> USE DEF c
  <2> QED BY <2>2, EnteredBounds
<1>6. /\ e \in [Threads -> Int] /\ AllEntered(sc, g) = SumFunction(e)
      /\ a = [t \in Threads |-> Whole[e[t]]]
  BY <1>5 DEF AllEntered
<1> HIDE DEF a, e, c
<1>7. /\ SumFunction(e) \in Int
      /\ -(Units * SumFunction(c)) <= SumFunction(e)
      /\ SumFunction(e) <= Units * SumFunction(c)
      /\ Units * SumFunction(c) <= Exact => Sum(a) = Whole[SumFunction(e)]
  BY <1>1, <1>2, <1>5, <1>6, BoundedSumIsExact
<1>8. /\ Units * SumFunction(c) <= Units * MaxOpen
      /\ Units * SumFunction(c) \in Nat /\ Units * MaxOpen \in Nat
      /\ Units * Cardinality(Threads) \in Nat
  BY <1>3, <1>4, ExactBounds
<1>9. Units * SumFunction(c) <= Exact
  BY <1>8, ExactBounds
<1> QED BY <1>6, <1>7, <1>8, <1>9 DEF a

\* What all threads are adding to a scoped gauge.
LEMMA AllPendingIsExact ==
  ASSUME NEW ca, \A t \in Threads : IsExactCall(ca[t]), NEW g \in ScopedGauges
  PROVE  /\ AllPending(ca, g) \in Int
         /\ -(Units * Cardinality(Threads)) <= AllPending(ca, g)
         /\ AllPending(ca, g) <= Units * Cardinality(Threads)
         /\ Sum([t \in Threads |-> IF ca[t] # Nothing /\ ca[t].object = g
                                   THEN ca[t].amount ELSE Zero])
              = Whole[AllPending(ca, g)]
         /\ \A t \in Threads : Pending(ca[t], g) \in (-Units)..Units
<1> DEFINE a == [t \in Threads |-> IF ca[t] # Nothing /\ ca[t].object = g
                                   THEN ca[t].amount ELSE Zero]
           e == [t \in Threads |-> Pending(ca[t], g)]
           c == [t \in Threads |-> 1]
<1>1. IsFiniteSet(Threads)
  BY UtilsAssumption
<1>2. /\ c \in [Threads -> Nat] /\ c \in [Threads -> Int]
      /\ \A t \in Threads : c[t] = 1
  OBVIOUS
<1>3. ASSUME NEW t \in Threads
      PROVE  /\ e[t] \in (-Units)..Units /\ e[t] \in (-Exact)..Exact
             /\ a[t] = Whole[e[t]] /\ a[t] \in Double
  <2>1. 0 \in (-Units)..Units /\ 0 \in (-Exact)..Exact /\ Zero = Whole[0]
    BY ExactBounds, ExactAssumption
  <2>2. CASE ca[t] # Nothing /\ ca[t].object = g
    <3>1. PICK n \in (-Units)..Units : ca[t].amount = Whole[n]
      BY <2>2 DEF IsExactCall
    <3>2. n \in (-Exact)..Exact
      BY UnitsInRange, ExactBounds
    <3>3. e[t] = n /\ a[t] = Whole[n]
      BY <2>2, <3>1, <3>2, UnitsOfWhole DEF Pending
    <3> QED BY <3>2, <3>3, ExactAssumption
  <2>3. CASE ~(ca[t] # Nothing /\ ca[t].object = g)
    <3>1. e[t] = 0 /\ a[t] = Whole[0]
      BY <2>1, <2>3 DEF Pending
    <3> QED BY <2>1, <3>1, ExactAssumption
  <2> QED BY <2>2, <2>3
<1>4. /\ e \in [Threads -> Int] /\ AllPending(ca, g) = SumFunction(e)
      /\ a = [t \in Threads |-> Whole[e[t]]]
  BY <1>3 DEF AllPending
<1>5. \A t \in Threads : Pending(ca[t], g) \in (-Units)..Units
  BY <1>3
<1> HIDE DEF a, e, c
<1>6. SumFunction(c) = Cardinality(Threads)
  BY <1>1, <1>2, SumOfOnes
<1>7. ASSUME NEW t \in Threads
      PROVE  -(Units * c[t]) <= e[t] /\ e[t] <= Units * c[t]
  <2>1. Units * c[t] = Units /\ Units \in Nat
    BY <1>2, ExactBounds
  <2> QED BY <1>3, <2>1
<1>8. /\ SumFunction(e) \in Int
      /\ -(Units * Cardinality(Threads)) <= SumFunction(e)
      /\ SumFunction(e) <= Units * Cardinality(Threads)
      /\ Units * Cardinality(Threads) <= Exact => Sum(a) = Whole[SumFunction(e)]
  BY <1>1, <1>2, <1>4, <1>6, <1>7, BoundedSumIsExact
<1>9. Units * Cardinality(Threads) <= Exact
  <2>1. Units * Cardinality(Threads) \in Nat /\ Units * MaxOpen \in Nat
    BY ExactBounds
  <2> QED BY <2>1, ExactBounds
<1> QED BY <1>4, <1>5, <1>8, <1>9 DEF a

\* A thread that enters or leaves scopes changes the sums by what it adds.
LEMMA ScopesOfOneThread ==
  ASSUME NEW sc \in [Threads -> Seq(Scope)], NEW sd \in [Threads -> Seq(Scope)],
         NEW t \in Threads, \A u \in Threads \ {t} : sd[u] = sc[u], NEW g
  PROVE  /\ AllEntered(sc, g) \in Int /\ AllOpen(sc) \in Int
         /\ AllEntered(sd, g) = AllEntered(sc, g) - Entered(sc[t], g) + Entered(sd[t], g)
         /\ AllOpen(sd) = AllOpen(sc) - Len(sc[t]) + Len(sd[t])
<1> DEFINE e == [u \in Threads |-> Entered(sc[u], g)]
           d == [u \in Threads |-> Entered(sd[u], g)]
           m == [u \in Threads |-> Len(sc[u])]
           n == [u \in Threads |-> Len(sd[u])]
<1>1. IsFiniteSet(Threads)
  BY UtilsAssumption
<1>2. /\ e \in [Threads -> Int] /\ d \in [Threads -> Int]
      /\ m \in [Threads -> Int] /\ n \in [Threads -> Int]
  <2>1. ASSUME NEW u \in Threads
        PROVE  /\ Entered(sc[u], g) \in Int /\ Len(sc[u]) \in Int
               /\ Entered(sd[u], g) \in Int /\ Len(sd[u]) \in Int
    <3>1. sc[u] \in Seq(Scope) /\ sd[u] \in Seq(Scope)
      OBVIOUS
    <3>2. Entered(sc[u], g) \in Int /\ Len(sc[u]) \in Nat
      BY <3>1, EnteredBounds
    <3>3. Entered(sd[u], g) \in Int /\ Len(sd[u]) \in Nat
      BY <3>1, EnteredBounds
    <3> QED BY <3>2, <3>3
  <2> QED BY <2>1
<1>3. \A u \in Threads \ {t} : d[u] = e[u] /\ n[u] = m[u]
  OBVIOUS
<1>4. /\ e[t] = Entered(sc[t], g) /\ d[t] = Entered(sd[t], g)
      /\ m[t] = Len(sc[t]) /\ n[t] = Len(sd[t])
  OBVIOUS
<1>5. /\ AllEntered(sc, g) = SumFunction(e) /\ AllEntered(sd, g) = SumFunction(d)
      /\ AllOpen(sc) = SumFunction(m) /\ AllOpen(sd) = SumFunction(n)
  BY DEF AllEntered, AllOpen
<1> HIDE DEF e, d, m, n
<1>6. SumFunction(e) \in Int /\ SumFunction(m) \in Int
  BY <1>1, <1>2, SumFunctionType
<1>7. SumFunction(d) = SumFunction(e) - e[t] + d[t]
  <2>1. /\ e \in [Threads -> Int] /\ d \in [Threads -> Int]
        /\ \A u \in Threads \ {t} : d[u] = e[u]
    BY <1>2, <1>3
  <2> QED BY <1>1, <2>1, SumFunctionUpdate, ZenonT(60)
<1>8. SumFunction(n) = SumFunction(m) - m[t] + n[t]
  <2>1. /\ m \in [Threads -> Int] /\ n \in [Threads -> Int]
        /\ \A u \in Threads \ {t} : n[u] = m[u]
    BY <1>2, <1>3
  <2> QED BY <1>1, <2>1, SumFunctionUpdate, ZenonT(60)
<1> QED BY <1>4, <1>5, <1>6, <1>7, <1>8

\* A thread that starts or ends a call changes the sum by the amount of it.
LEMMA CallOfOneThread ==
  ASSUME NEW ca, \A u \in Threads : IsExactCall(ca[u]),
         NEW cb, \A u \in Threads : IsExactCall(cb[u]),
         NEW t \in Threads, \A u \in Threads \ {t} : cb[u] = ca[u],
         NEW g \in ScopedGauges
  PROVE  AllPending(cb, g) = AllPending(ca, g) - Pending(ca[t], g) + Pending(cb[t], g)
<1> DEFINE e == [u \in Threads |-> Pending(ca[u], g)]
           d == [u \in Threads |-> Pending(cb[u], g)]
<1>1. IsFiniteSet(Threads)
  BY UtilsAssumption
<1>2. e \in [Threads -> Int] /\ d \in [Threads -> Int]
  <2>1. \A u \in Threads : Pending(ca[u], g) \in (-Units)..Units
    BY AllPendingIsExact
  <2>2. \A u \in Threads : Pending(cb[u], g) \in (-Units)..Units
    BY AllPendingIsExact
  <2> QED BY <2>1, <2>2
<1>3. \A u \in Threads \ {t} : d[u] = e[u]
  OBVIOUS
<1>4. e[t] = Pending(ca[t], g) /\ d[t] = Pending(cb[t], g)
  OBVIOUS
<1>5. AllPending(ca, g) = SumFunction(e) /\ AllPending(cb, g) = SumFunction(d)
  BY DEF AllPending
<1> HIDE DEF e, d
<1>6. SumFunction(d) = SumFunction(e) - e[t] + d[t]
  BY <1>1, <1>2, <1>3, SumFunctionUpdate
<1> QED BY <1>4, <1>5, <1>6

\* The balance of what has been entered and what is being added is in range.
LEMMA BalanceInRange ==
  ASSUME NEW sc \in [Threads -> Seq(Scope)], AllOpen(sc) <= MaxOpen,
         NEW ca, \A t \in Threads : IsExactCall(ca[t]), NEW g \in ScopedGauges
  PROVE  /\ AllEntered(sc, g) - AllPending(ca, g) \in (-Exact)..Exact
         /\ AllEntered(sc, g) \in (-Exact)..Exact
         /\ AllPending(ca, g) \in (-Exact)..Exact
<1>1. /\ AllEntered(sc, g) \in Int
      /\ -(Units * MaxOpen) <= AllEntered(sc, g)
      /\ AllEntered(sc, g) <= Units * MaxOpen
  BY AllEnteredIsExact
<1>2. /\ AllPending(ca, g) \in Int
      /\ -(Units * Cardinality(Threads)) <= AllPending(ca, g)
      /\ AllPending(ca, g) <= Units * Cardinality(Threads)
  BY AllPendingIsExact
<1>3. /\ Units * MaxOpen \in Nat /\ Units * Cardinality(Threads) \in Nat
      /\ Exact = Units * MaxOpen + Units * Cardinality(Threads)
  BY ExactBounds
<1> QED BY <1>1, <1>2, <1>3

\* The inductive invariant is strong enough.
LEMMA UInvCounts == UInv => InProgressCounts
<1> SUFFICES ASSUME UInv, NEW g \in ScopedGauges
             PROVE  Plus(value_[g], Sum([t \in Threads |-> Adding(t, g)]))
                      = Sum([t \in Threads |-> InScope(t, g)])
  BY DEF InProgressCounts
<1> DEFINE a == AllEntered(scopes, g)
           b == AllPending(call, g)
<1>1. /\ scopes \in [Threads -> Seq(Scope)] /\ AllOpen(scopes) <= MaxOpen
      /\ \A t \in Threads : IsExactCall(call[t])
      /\ value_[g] = Whole[a - b]
  BY DEF UInv, ScopesAreTyped
<1>2. Sum([t \in Threads |-> InScope(t, g)]) = Whole[a]
  BY <1>1, AllEnteredIsExact DEF InScope
<1>3. Sum([t \in Threads |-> Adding(t, g)]) = Whole[b]
  BY <1>1, AllPendingIsExact DEF Adding
<1>4. a - b \in (-Exact)..Exact /\ a \in (-Exact)..Exact /\ b \in (-Exact)..Exact
  BY <1>1, BalanceInRange
<1> HIDE DEF a, b
<1>5. (a - b) + b = a
  BY <1>4, ExactBounds
<1> QED BY <1>1, <1>2, <1>3, <1>4, <1>5, ExactAssumption

LEMMA UInitInv == UInit => UInv
<1> SUFFICES ASSUME UInit PROVE UInv
  OBVIOUS
<1>1. Inv /\ ScopesAreTyped
  BY InitInv DEF UInit, ScopesAreTyped
<1>2. \A t \in Threads : IsExactCall(call[t])
  BY DEF UInit, Init, IsExactCall
<1>3. IsFiniteSet(Threads)
  BY UtilsAssumption
<1>4. AllOpen(scopes) <= MaxOpen
  <2> DEFINE n == [t \in Threads |-> Len(scopes[t])]
  <2>1. n \in [Threads -> Int] /\ \A t \in Threads : n[t] = 0
    BY DEF UInit
  <2>2. AllOpen(scopes) = SumFunction(n)
    BY DEF AllOpen
  <2> HIDE DEF n
  <2>3. SumFunction(n) = 0
    BY <1>3, <2>1, SumFunctionZero
  <2> QED BY <2>2, <2>3, ExactBounds
<1>5. ASSUME NEW g \in ScopedGauges
      PROVE  value_[g] = Whole[AllEntered(scopes, g) - AllPending(call, g)]
  <2> DEFINE e == [t \in Threads |-> Entered(scopes[t], g)]
             p == [t \in Threads |-> Pending(call[t], g)]
             z == [i \in DOMAIN <<>> |-> IF <<>>[i].gauge = g
                                         THEN UnitsOf(<<>>[i].amount) ELSE 0]
  <2>1. Entered(<<>>, g) = 0
    <3>1. Entered(<<>>, g) = SumFunction(z)
      BY DEF Entered
    <3>2. DOMAIN <<>> = {}
      OBVIOUS
    <3>3. z \in [{} -> Int] /\ IsFiniteSet({})
      BY <3>2, FS_EmptySet
    <3> HIDE DEF z
    <3>4. SumFunction(z) = 0
      BY <3>3, SumFunctionZero
    <3> QED BY <3>1, <3>4
  <2>2. /\ e \in [Threads -> Int] /\ \A t \in Threads : e[t] = 0
        /\ AllEntered(scopes, g) = SumFunction(e)
    BY <2>1 DEF UInit, AllEntered
  <2>3. /\ p \in [Threads -> Int] /\ \A t \in Threads : p[t] = 0
        /\ AllPending(call, g) = SumFunction(p)
    BY DEF UInit, Init, Pending, AllPending
  <2> HIDE DEF e, p
  <2>4. SumFunction(e) = 0
    BY <1>3, <2>2, SumFunctionZero
  <2>5. SumFunction(p) = 0
    BY <1>3, <2>3, SumFunctionZero
  <2>6. g \in Values /\ value_[g] = Zero
    BY UtilsAssumption DEF UInit, Init, Values
  <2> QED BY <2>2, <2>3, <2>4, <2>5, <2>6, ExactAssumption
<1> QED BY <1>1, <1>2, <1>4, <1>5 DEF UInv

\* A thread that enters or leaves a scope of n units starts to add as many.
LEMMA ScopeAndCall ==
  ASSUME UInv, Inv', ScopesAreTyped', NEW t \in Threads,
         \A u \in Threads \ {t} : scopes'[u] = scopes[u] /\ call'[u] = call[u],
         UNCHANGED value_,
         call[t] = Nothing, IsExactCall(call'[t]), AllOpen(scopes') <= MaxOpen,
         \A g \in ScopedGauges :
           Entered(scopes'[t], g) = Entered(scopes[t], g) + Pending(call'[t], g)
  PROVE  UInv'
<1>1. \A u \in Threads : IsExactCall(call[u]) /\ IsExactCall(call'[u])
  BY DEF UInv
<1>2. /\ scopes \in [Threads -> Seq(Scope)] /\ scopes' \in [Threads -> Seq(Scope)]
      /\ AllOpen(scopes) <= MaxOpen
  BY DEF UInv, ScopesAreTyped
<1>3. ASSUME NEW g \in ScopedGauges
      PROVE  value_'[g] = Whole[AllEntered(scopes', g) - AllPending(call', g)]
  <2>1. /\ AllEntered(scopes', g)
             = AllEntered(scopes, g) - Entered(scopes[t], g) + Entered(scopes'[t], g)
        /\ AllEntered(scopes, g) \in Int
    BY <1>2, ScopesOfOneThread
  <2>2. AllPending(call', g)
          = AllPending(call, g) - Pending(call[t], g) + Pending(call'[t], g)
    BY <1>1, CallOfOneThread
  <2>3. Pending(call[t], g) = 0
    BY DEF Pending
  <2>4. AllPending(call, g) \in Int
    BY <1>1, AllPendingIsExact
  <2>5. Pending(call'[t], g) \in Int
    <3>1. Pending(call'[t], g) \in (-Units)..Units
      BY <1>1, AllPendingIsExact
    <3> QED BY <3>1
  <2>6. Entered(scopes[t], g) \in Int
    BY <1>2, EnteredBounds
  <2>7. Entered(scopes'[t], g) = Entered(scopes[t], g) + Pending(call'[t], g)
    OBVIOUS
  <2>8. AllEntered(scopes', g) - AllPending(call', g)
          = AllEntered(scopes, g) - AllPending(call, g)
    BY <2>1, <2>2, <2>3, <2>4, <2>5, <2>6, <2>7
  <2> QED BY <2>8 DEF UInv
<1> QED BY <1>1, <1>3 DEF UInv

LEMMA EnterInv ==
  ASSUME UInv, Inv', ScopesAreTyped', NEW t \in Threads, NEW g \in ScopedGauges,
         NEW v \in ScopeAmounts, Enter(t, g, v)
  PROVE  UInv'
<1> DEFINE x == [gauge |-> g, amount |-> v]
           c == [object |-> g, amount |-> v]
<1>1. PICK n \in (-Units)..Units : v = Whole[n] /\ UnitsOf(v) = n
  BY AmountUnits
<1>2. /\ x \in Scope /\ x.gauge = g /\ x.amount = v
      /\ c \in [object : Values, amount : Double] /\ c.object = g /\ c.amount = v
  BY UtilsAssumption, ScalarAssumption DEF Scope, Values
<1> HIDE DEF x, c
<1>3. c # Nothing
  BY <1>2, ScalarAssumption
<1>4. /\ call[t] = Nothing /\ call' = [call EXCEPT ![t] = c] /\ UNCHANGED value_
      /\ scopes' = [scopes EXCEPT ![t] = Append(scopes[t], x)]
      /\ AllOpen(scopes) < MaxOpen
  BY DEF Enter, GaugeInc, Load, AllOpen, x, c
<1>5. /\ scopes \in [Threads -> Seq(Scope)] /\ scopes' \in [Threads -> Seq(Scope)]
      /\ DOMAIN call = Threads /\ scopes[t] \in Seq(Scope)
  BY DEF UInv, ScopesAreTyped, Inv, TypeOK
<1>6. /\ call'[t] = c /\ scopes'[t] = Append(scopes[t], x)
      /\ \A u \in Threads \ {t} : scopes'[u] = scopes[u] /\ call'[u] = call[u]
  BY <1>4, <1>5
<1>7. IsExactCall(call'[t])
  BY <1>1, <1>2, <1>6 DEF IsExactCall
<1>8. AllOpen(scopes') <= MaxOpen
  <2>1. /\ AllOpen(scopes) \in Int
        /\ AllOpen(scopes') = AllOpen(scopes) - Len(scopes[t]) + Len(scopes'[t])
    BY <1>5, <1>6, ScopesOfOneThread
  <2>2. Len(scopes'[t]) = Len(scopes[t]) + 1 /\ Len(scopes[t]) \in Nat
    BY <1>5, <1>6, LenProperties
  <2> QED BY <1>4, <2>1, <2>2, ExactBounds
<1>9. ASSUME NEW h \in ScopedGauges
      PROVE  Entered(scopes'[t], h) = Entered(scopes[t], h) + Pending(call'[t], h)
  <2>1. Entered(scopes'[t], h)
          = Entered(scopes[t], h) + IF x.gauge = h THEN UnitsOf(x.amount) ELSE 0
    BY <1>2, <1>5, <1>6, EnteredAppend
  <2>2. Pending(call'[t], h) = IF x.gauge = h THEN UnitsOf(x.amount) ELSE 0
    BY <1>2, <1>3, <1>6 DEF Pending
  <2> QED BY <2>1, <2>2
<1> QED BY <1>4, <1>6, <1>7, <1>8, <1>9, ScopeAndCall

LEMMA LeaveInv ==
  ASSUME UInv, Inv', ScopesAreTyped', NEW t \in Threads, Leave(t)
  PROVE  UInv'
<1> DEFINE x == Last(scopes[t])
           s == Front(scopes[t])
           c == [object |-> x.gauge, amount |-> Neg(x.amount)]
<1>1. /\ scopes \in [Threads -> Seq(Scope)] /\ scopes' \in [Threads -> Seq(Scope)]
      /\ DOMAIN call = Threads /\ scopes[t] \in Seq(Scope) /\ scopes[t] # <<>>
  BY DEF UInv, ScopesAreTyped, Inv, TypeOK, Leave
<1>2. x \in Scope /\ s \in Seq(Scope) /\ scopes[t] = Append(s, x)
  BY <1>1, FrontAndLast, FrontThenLast
<1>3. /\ call[t] = Nothing /\ call' = [call EXCEPT ![t] = c] /\ UNCHANGED value_
      /\ scopes' = [scopes EXCEPT ![t] = s]
  BY DEF Leave, GaugeDec, GaugeInc, Load
<1> HIDE DEF x, s
<1>4. x.gauge \in ScopedGauges /\ x.amount \in ScopeAmounts
  BY <1>2 DEF Scope
<1>5. PICK n \in (-Units)..Units :
        /\ n \in (-Exact)..Exact /\ -n \in (-Exact)..Exact
        /\ Neg(x.amount) = Whole[-n] /\ UnitsOf(x.amount) = n
        /\ UnitsOf(Neg(x.amount)) = -n
  BY <1>4, AmountUnits
<1>6. /\ c \in [object : Values, amount : Double] /\ c.object = x.gauge
      /\ c.amount = Neg(x.amount)
  <2>1. Neg(x.amount) \in Double
    BY <1>5, ExactAssumption
  <2> QED BY <1>4, <2>1, UtilsAssumption DEF Values
<1> HIDE DEF c
<1>7. c # Nothing
  BY <1>6, ScalarAssumption
<1>8. /\ call'[t] = c /\ scopes'[t] = s
      /\ \A u \in Threads \ {t} : scopes'[u] = scopes[u] /\ call'[u] = call[u]
  BY <1>1, <1>3
<1>9. IsExactCall(call'[t])
  <2>1. -n \in (-Units)..Units
    BY <1>5, ExactBounds
  <2> QED BY <1>5, <1>6, <1>8, <2>1 DEF IsExactCall
<1>10. AllOpen(scopes') <= MaxOpen
  <2>1. /\ AllOpen(scopes) \in Int
        /\ AllOpen(scopes') = AllOpen(scopes) - Len(scopes[t]) + Len(scopes'[t])
    BY <1>1, <1>8, ScopesOfOneThread
  <2>2. Len(scopes[t]) = Len(scopes'[t]) + 1 /\ Len(scopes'[t]) \in Nat
    BY <1>2, <1>8, LenProperties
  <2>3. AllOpen(scopes) <= MaxOpen
    BY DEF UInv
  <2> QED BY <2>1, <2>2, <2>3, ExactBounds
<1>11. ASSUME NEW h \in ScopedGauges
       PROVE  Entered(scopes'[t], h) = Entered(scopes[t], h) + Pending(call'[t], h)
  <2>1. Entered(scopes[t], h)
          = Entered(s, h) + IF x.gauge = h THEN UnitsOf(x.amount) ELSE 0
    BY <1>2, EnteredAppend
  <2>2. Pending(call'[t], h) = IF x.gauge = h THEN UnitsOf(Neg(x.amount)) ELSE 0
    BY <1>6, <1>7, <1>8 DEF Pending
  <2>3. Entered(s, h) \in Int
    BY <1>2, EnteredBounds
  <2> QED BY <1>5, <1>8, <2>1, <2>2, <2>3
<1> QED BY <1>3, <1>8, <1>9, <1>10, <1>11, ScopeAndCall

\* A step that adds nothing to the scoped gauges and begins nothing there.
LEMMA ApartFromScopes ==
  ASSUME UInv, Inv', ScopesAreTyped', UNCHANGED scopes,
         \A u \in Threads : IsExactCall(call'[u]),
         \A g \in ScopedGauges : value_'[g] = value_[g],
         \A u \in Threads, g \in ScopedGauges :
           Pending(call'[u], g) = Pending(call[u], g)
  PROVE  UInv'
<1>1. ASSUME NEW g \in ScopedGauges
      PROVE  AllPending(call', g) = AllPending(call, g)
  <2>1. [u \in Threads |-> Pending(call'[u], g)] = [u \in Threads |-> Pending(call[u], g)]
    OBVIOUS
  <2> QED BY <2>1, Zenon DEF AllPending
<1> QED BY <1>1 DEF UInv

\* The compare-exchange of a call on a scoped gauge adds what was pending.
LEMMA SucceedsCounts ==
  ASSUME UInv, Inv', ScopesAreTyped', UNCHANGED scopes,
         NEW t \in Threads, CompareExchangeSucceeds(t)
  PROVE  UInv'
<1> DEFINE x == call[t].object
           a == call[t].amount
<1>1. /\ x \in Values /\ a \in Double /\ value_[x] \in Double
      /\ value_' = [value_ EXCEPT ![x] = Plus(value_[x], a)]
  BY SucceedsAdds DEF UInv
<1>2. /\ call[t] # Nothing /\ call' = [call EXCEPT ![t] = Nothing]
      /\ DOMAIN call = Threads /\ DOMAIN value_ = Values
      /\ \A u \in Threads : IsExactCall(call[u])
      /\ scopes \in [Threads -> Seq(Scope)] /\ AllOpen(scopes) <= MaxOpen
  BY DEF CompareExchangeSucceeds, UInv, Inv, TypeOK, ScopesAreTyped
<1>3. call'[t] = Nothing /\ \A u \in Threads \ {t} : call'[u] = call[u]
  BY <1>2
<1>4. \A u \in Threads : IsExactCall(call'[u])
  BY <1>2, <1>3 DEF IsExactCall
<1> HIDE DEF x, a
<1>5. ASSUME NEW g \in ScopedGauges
      PROVE  value_'[g] = Whole[AllEntered(scopes, g) - AllPending(call', g)]
  <2> DEFINE b == AllEntered(scopes, g) - AllPending(call, g)
             d == AllEntered(scopes, g) - AllPending(call', g)
  <2>1. /\ AllPending(call', g)
             = AllPending(call, g) - Pending(call[t], g) + Pending(call'[t], g)
    <3>1. \A u \in Threads : IsExactCall(call[u])
      BY <1>2
    <3>2. \A u \in Threads \ {t} : call'[u] = call[u]
      BY <1>3
    <3> QED BY <1>4, <3>1, <3>2, CallOfOneThread
  <2>2. Pending(call'[t], g) = 0
    BY <1>3 DEF Pending
  <2>3. /\ b \in (-Exact)..Exact /\ AllEntered(scopes, g) \in (-Exact)..Exact
        /\ AllPending(call, g) \in (-Exact)..Exact
    BY <1>2, BalanceInRange
  <2>4. d \in (-Exact)..Exact
    BY <1>2, <1>4, BalanceInRange
  <2>5. Pending(call[t], g) \in (-Units)..Units
    BY <1>2, AllPendingIsExact
  <2>6. d = b + Pending(call[t], g)
    BY <2>1, <2>2, <2>3, <2>5, ExactBounds
  <2>7. value_[g] = Whole[b] /\ g \in Values
    BY UtilsAssumption DEF UInv, Values
  <2> HIDE DEF b, d
  <2>8. CASE g = x
    <3>1. PICK n \in (-Units)..Units : a = Whole[n]
      BY <1>2, <2>8 DEF IsExactCall, x, a
    <3>2. n \in (-Exact)..Exact
      BY UnitsInRange, ExactBounds
    <3>3. Pending(call[t], g) = n
      BY <1>2, <2>8, <3>1, <3>2, UnitsOfWhole DEF Pending, x, a
    <3>4. value_'[g] = Plus(Whole[b], Whole[n])
      BY <1>1, <1>2, <2>7, <2>8, <3>1
    <3> QED BY <2>3, <2>4, <2>6, <3>2, <3>3, <3>4, ExactAssumption DEF d
  <2>9. CASE g # x
    <3>1. Pending(call[t], g) = 0
      BY <2>9 DEF Pending, x
    <3>2. value_'[g] = value_[g] /\ d = b
      BY <1>1, <1>2, <2>3, <2>6, <2>7, <2>9, <3>1
    <3> QED BY <2>7, <3>2 DEF d
  <2> QED BY <2>8, <2>9
<1> QED BY <1>4, <1>5 DEF UInv

LEMMA ElsewhereInv ==
  ASSUME UInv, Inv', ScopesAreTyped', Elsewhere
  PROVE  UInv'
<1> USE DEF Elsewhere
<1>0. UNCHANGED scopes /\ DOMAIN call = Threads /\ DOMAIN value_ = Values
      /\ \A u \in Threads : IsExactCall(call[u])
  BY DEF UInv, Inv, TypeOK
<1>1. ASSUME UNCHANGED call, \A g \in ScopedGauges : value_'[g] = value_[g]
      PROVE  UInv'
  BY <1>0, <1>1, ApartFromScopes
<1>2. ASSUME NEW t \in Threads, NEW o, NEW v, Load(t, o, v)
      PROVE  UInv'
  <2>1. /\ call[t] = Nothing /\ call'[t] = [object |-> o, amount |-> v]
        /\ \A u \in Threads \ {t} : call'[u] = call[u]
        /\ UNCHANGED value_
    BY <1>0, <1>2 DEF Load
  <2>2. call'[t] # Nothing => call'[t].object \notin ScopedGauges
    BY <2>1
  <2>3. \A u \in Threads : IsExactCall(call'[u])
    BY <1>0, <2>1, <2>2 DEF IsExactCall
  <2>4. \A u \in Threads, g \in ScopedGauges : Pending(call'[u], g) = Pending(call[u], g)
    BY <2>1, <2>2 DEF Pending
  <2> QED BY <1>0, <2>1, <2>3, <2>4, ApartFromScopes
<1>3. ASSUME NEW t \in Threads, NEW o \in Values, NEW v \in Amounts, Set(t, o, v)
      PROVE  UInv'
  <2>1. ScopedGauges \intersect SetGauges = {} /\ ScopedGauges \subseteq Values
    BY UtilsAssumption, ScalarAssumption DEF Values
  <2> QED BY <1>0, <1>1, <1>3, <2>1 DEF Set
<1>4. ASSUME \/ \E t \in Threads : CompareExchangeFails(t)
             \/ \E t \in Threads, o \in Values, v \in Amounts : CounterIncThrows(t, o, v)
             \/ \E o \in Values : Collect(o)
      PROVE  UInv'
  BY <1>1, <1>4 DEF CompareExchangeFails, CounterIncThrows, Collect
<1>5. ASSUME NEW t \in Threads, CompareExchangeSucceeds(t)
      PROVE  UInv'
  BY <1>0, <1>5, SucceedsCounts
<1>6. ASSUME NEW t \in Threads, NEW o \in Values, NEW v \in Amounts,
             CounterInc(t, o, v) \/ GaugeInc(t, o, v) \/ GaugeDec(t, o, v)
      PROVE  UInv'
  BY <1>2, <1>6 DEF CounterInc, GaugeInc, GaugeDec
<1> QED BY <1>3, <1>4, <1>5, <1>6 DEF Next, IncStep

LEMMA UStepInv == UInv /\ [UNext]_allVars => UInv'
<1> SUFFICES ASSUME UInv, [UNext]_allVars PROVE UInv'
  OBVIOUS
<1>1. Inv' /\ ScopesAreTyped'
  <2>1. [Next]_vars /\ ScopesAreTyped'
    BY ScopeStep DEF UInv
  <2> QED BY <2>1, StepInv DEF UInv
<1>2. CASE UNCHANGED allVars
  BY <1>1, <1>2 DEF UInv, allVars, vars
<1> QED BY <1>1, <1>2, EnterInv, LeaveInv, ElsewhereInv DEF UNext

\* A gauge that only InProgress objects change is the sum of the amounts of
\* those that exist, but for the additions under way, however the threads
\* interleave, as long as the sums are exact (utils.hh:17-21, utils.cc:13-18).
THEOREM ScopesAreCounted == USpec => []InProgressCounts
BY UInitInv, UStepInv, UInvCounts, PTL DEF USpec
=============================================================================
