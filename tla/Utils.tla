-------------------------------- MODULE Utils --------------------------------
(***************************************************************************)
(* InProgress (src/prometheus/utils.cc, utils.hh): a local object whose    *)
(* constructor adds to an IncDecGauge and whose destructor takes the same  *)
(* amount off again, so that the gauge counts what is in progress.  Locals *)
(* nest, and leave in the opposite order, by an exception as well; the     *)
(* threads of a program do so at their own pace, around each other's       *)
(* compare-exchange loops.                                                 *)
(***************************************************************************)
EXTENDS ScalarValue, Integers, FiniteSets, Functions, SequencesExt

CONSTANTS
  ScopedGauges,   \* the gauges that only InProgress objects change
  ScopeAmounts,   \* the amounts InProgress objects are given
  MaxOpen,        \* bound on the number of them that exist at once
  Units, Whole    \* amounts are Whole[n], for an n of at most Units

ASSUME UtilsAssumption ==
  /\ IsFiniteSet(Threads)
  /\ ScopedGauges \subseteq IncDecGauges
  /\ ScopeAmounts \subseteq Amounts
  /\ MaxOpen \in Nat

\* As many amounts as there can be objects and calls add up exactly: doubles
\* hold the multiples of a power of two exactly, up to 2^53 of them.
Exact == Units * (MaxOpen + Cardinality(Threads))

ASSUME ExactAssumption ==
  /\ Units \in Nat
  /\ Whole \in [(-Exact)..Exact -> Double]
  /\ Whole[0] = Zero
  /\ \A m, n \in (-Exact)..Exact :
       /\ Whole[m] = Whole[n] => m = n
       /\ m + n \in (-Exact)..Exact => Plus(Whole[m], Whole[n]) = Whole[m + n]
  /\ \A v \in ScopeAmounts : \E n \in ((-Units)..Units) \ {0} :
       v = Whole[n] /\ Neg(v) = Whole[-n]

VARIABLE scopes   \* scopes[t]: t's InProgress objects, the innermost last

allVars == <<vars, scopes>>

UInit ==
  /\ Init
  /\ scopes = [t \in Threads |-> <<>>]

\* InProgress::InProgress
Enter(t, g, v) ==
  /\ SumFunction([u \in Threads |-> Len(scopes[u])]) < MaxOpen
  /\ GaugeInc(t, g, v)
  /\ scopes' = [scopes EXCEPT ![t] = Append(@, [gauge |-> g, amount |-> v])]

\* InProgress::~InProgress
Leave_Default(t) ==                             \* mutant: dec(), which is dec(1)
  /\ scopes[t] # <<>>
  /\ GaugeDec(t, Last(scopes[t]).gauge, CHOOSE v \in ScopeAmounts : ~Less(v, Zero))
  /\ scopes' = [scopes EXCEPT ![t] = Front(@)]

Leave(t) ==
  /\ scopes[t] # <<>>
  /\ GaugeDec(t, Last(scopes[t]).gauge, Last(scopes[t]).amount)
  /\ scopes' = [scopes EXCEPT ![t] = Front(@)]

\* The rest of the program leaves the scoped gauges alone.
Elsewhere ==
  /\ Next
  /\ \A t \in Threads : call'[t] \notin {call[t], Nothing} =>
                          call'[t].object \notin ScopedGauges
  /\ UNCHANGED scopes

UNext ==
  \/ \E t \in Threads :
       \/ Leave(t)
       \/ \E g \in ScopedGauges, v \in ScopeAmounts : Enter(t, g, v)
  \/ Elsewhere

USpec == UInit /\ [][UNext]_allVars

UFairSpec == USpec /\ \A t \in Threads : WF_vars(IncStep(t))

-----------------------------------------------------------------------------
(* Properties *)

Sum(f) == FoldFunction(Plus, Zero, f)

\* What thread t is adding to g at the moment, and what its scopes there add up
\* to.
Adding(t, g) ==
  IF call[t] # Nothing /\ call[t].object = g THEN call[t].amount ELSE Zero

InScope(t, g) ==
  Sum([i \in DOMAIN scopes[t] |->
         IF scopes[t][i].gauge = g THEN scopes[t][i].amount ELSE Zero])

\* A gauge that only InProgress objects change is the sum of the amounts of
\* those that exist, but for the additions under way: none is lost, doubled or
\* taken off again by another amount, however the threads' loops interleave
\* (utils.hh:17-21), as long as the sums are exact.
InProgressCounts ==
  \A g \in ScopedGauges :
    Plus(value_[g], Sum([t \in Threads |-> Adding(t, g)]))
      = Sum([t \in Threads |-> InScope(t, g)])
=============================================================================
