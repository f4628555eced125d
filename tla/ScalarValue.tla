----------------------------- MODULE ScalarValue -----------------------------
(***************************************************************************)
(* Counters and gauges (src/prometheus/values.cc, values.hh): an           *)
(* std::atomic<double> each, updated without a lock.                       *)
(*                                                                         *)
(* inc() is a load followed by a compare-exchange loop; each of the two is *)
(* one step, since each is one atomic operation on one object.  A weak     *)
(* compare-exchange that fails spuriously loads the value it already had,  *)
(* which is a stuttering step here.  Doubles stay abstract: the constants  *)
(* Plus, Neg and Less stand for their arithmetic, rounding, infinities and *)
(* NaN included.                                                           *)
(***************************************************************************)
EXTENDS Naturals

CONSTANTS
  Threads,
  Counters, IncDecGauges, SetGauges,      \* the objects of each class
  Double, Zero, Plus(_, _), Neg(_), Less(_, _),
  Amounts,                                \* the arguments clients pass
  Nothing,                                \* no call in progress
  MaxCalls                                \* bound on the number of calls

Values == Counters \union IncDecGauges \union SetGauges

ASSUME ScalarAssumption ==
  /\ Counters \intersect IncDecGauges = {}
  /\ (Counters \union IncDecGauges) \intersect SetGauges = {}
  /\ Amounts \subseteq Double
  /\ MaxCalls \in Nat
  /\ Nothing \notin [object : Values, amount : Double]

\* What the model relies on in IEEE 754 addition.  Adding a number that is
\* not negative never takes a double below what it was not below; a NaN
\* compares as not less and stays a NaN.
ASSUME DoubleAssumption ==
  /\ Zero \in Double
  /\ \A a \in Double : Neg(a) \in Double
  /\ \A a, b \in Double : Plus(a, b) \in Double
  /\ \A a, b \in Double : Less(a, b) \in BOOLEAN
  /\ \A a \in Double : ~Less(a, a)
  /\ \A a, b, c \in Double :
       ~Less(b, Zero) /\ ~Less(a, c) => ~Less(Plus(a, b), c)

VARIABLES
  value_,    \* value_[o]: the atomic of object o
  call,      \* call[t]: the addition thread t is making, or Nothing
  current,   \* current[t]: what t last loaded
  exposed,   \* exposed[o]: what the last scrape read
  calls      \* number of calls so far

vars == <<value_, call, current, exposed, calls>>

Init ==
  /\ value_ = [o \in Values |-> Zero]
  /\ call = [t \in Threads |-> Nothing]
  /\ current = [t \in Threads |-> Zero]
  /\ exposed = [o \in Values |-> Zero]
  /\ calls = 0

Called ==
  /\ calls < MaxCalls
  /\ calls' = calls + 1

\* The part inc() has in common: value_.load().
Load(t, o, v) ==
  /\ call[t] = Nothing
  /\ Called
  /\ call' = [call EXCEPT ![t] = [object |-> o, amount |-> v]]
  /\ current' = [current EXCEPT ![t] = value_[o]]
  /\ UNCHANGED <<value_, exposed>>

\* CounterValue::inc refuses a negative value before it touches the counter.
CounterInc_Unchecked(t, o, v) ==                \* mutant: no check
  /\ o \in Counters
  /\ Load(t, o, v)

CounterInc(t, o, v) ==
  /\ o \in Counters
  /\ ~Less(v, Zero)
  /\ Load(t, o, v)

CounterIncThrows(t, o, v) ==
  /\ o \in Counters
  /\ Less(v, Zero)
  /\ call[t] = Nothing
  /\ Called
  /\ UNCHANGED <<value_, call, current, exposed>>

GaugeInc(t, o, v) == o \in IncDecGauges /\ Load(t, o, v)
GaugeDec(t, o, v) == GaugeInc(t, o, Neg(v))

\* The compare-exchange of t would succeed (it compares representations).
Unchanged(t) == value_[call[t].object] = current[t]

\* mutant: load, add and store instead of a compare-exchange
CompareExchangeSucceeds_PlainStore(t) ==
  /\ call[t] # Nothing
  /\ value_' = [value_ EXCEPT ![call[t].object] = Plus(current[t], call[t].amount)]
  /\ call' = [call EXCEPT ![t] = Nothing]
  /\ UNCHANGED <<current, exposed, calls>>

CompareExchangeSucceeds(t) ==
  /\ call[t] # Nothing
  /\ Unchanged(t)
  /\ value_' = [value_ EXCEPT ![call[t].object] = Plus(current[t], call[t].amount)]
  /\ call' = [call EXCEPT ![t] = Nothing]
  /\ UNCHANGED <<current, exposed, calls>>

\* A failed one loads the value into `current`.
CompareExchangeFails_NoReload(t) ==             \* mutant: it does not
  /\ call[t] # Nothing
  /\ ~Unchanged(t)
  /\ UNCHANGED vars

CompareExchangeFails(t) ==
  /\ call[t] # Nothing
  /\ ~Unchanged(t)
  /\ current' = [current EXCEPT ![t] = value_[call[t].object]]
  /\ UNCHANGED <<value_, call, exposed, calls>>

Set_Uninitialised(t, o, v) ==                   \* mutant: stores something else
  /\ o \in SetGauges
  /\ call[t] = Nothing
  /\ Called
  /\ value_' = [value_ EXCEPT ![o] = Nothing]
  /\ UNCHANGED <<call, current, exposed>>

Set(t, o, v) ==
  /\ o \in SetGauges
  /\ call[t] = Nothing
  /\ Called
  /\ value_' = [value_ EXCEPT ![o] = v]
  /\ UNCHANGED <<call, current, exposed>>

\* value() and collect_value(): one load.
Collect(o) ==
  /\ exposed' = [exposed EXCEPT ![o] = value_[o]]
  /\ UNCHANGED <<value_, call, current, calls>>

IncStep(t) == CompareExchangeSucceeds(t) \/ CompareExchangeFails(t)

Next ==
  \/ \E t \in Threads :
       \/ IncStep(t)
       \/ \E o \in Values, v \in Amounts :
            \/ CounterInc(t, o, v)
            \/ CounterIncThrows(t, o, v)
            \/ GaugeInc(t, o, v)
            \/ GaugeDec(t, o, v)
            \/ Set(t, o, v)
  \/ \E o \in Values : Collect(o)

Spec == Init /\ [][Next]_vars

\* A thread inside inc() keeps running, and spurious failures do not go on
\* for ever.
FairSpec == Spec /\ \A t \in Threads : WF_vars(IncStep(t))

-----------------------------------------------------------------------------
(* Properties *)

\* Every variable keeps its type.
TypeOK ==
  /\ value_ \in [Values -> Double]
  /\ call \in [Threads -> [object : Counters \union IncDecGauges,
                           amount : Double] \union {Nothing}]
  /\ current \in [Threads -> Double]
  /\ exposed \in [Values -> Double]
  /\ calls \in 0..MaxCalls

\* A counter never goes down (values.hh:84-86), in the middle of concurrent
\* increments and at the rounding limit included, and so two successive scrapes
\* never see a decrease, which Prometheus would take for a restart.
CounterNeverDecreases ==
  [][\A o \in Counters : /\ ~Less(value_'[o], value_[o])
                         /\ ~Less(exposed'[o], exposed[o])]_vars

\* What a scrape has read of a counter is never ahead of it.
ExposedNotAhead == \A o \in Counters : ~Less(value_[o], exposed[o])

\* No increment is lost and none is applied twice: every inc() or dec() that
\* returns has added its amount once, to the value of that moment.
Abstract == INSTANCE AtomicScalar WITH
  Overwritable <- SetGauges, value <- value_, pending <- call

ImplementsAtomic == Abstract!Spec

\* The loop is lock-free: a thread only retries because another call has
\* completed, so with finitely many calls (MaxCalls) every call returns.
CallsReturn == \A t \in Threads : call[t] # Nothing ~> call[t] = Nothing
=============================================================================
