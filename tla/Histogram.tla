------------------------------ MODULE Histogram ------------------------------
(***************************************************************************)
(* HistogramValue (src/prometheus/values.cc): cumulative bucket counts and *)
(* a sum behind one std::mutex.  observe() and collect_value() visit the   *)
(* buckets one at a time, so each visit is a step; what makes an           *)
(* observation indivisible for the scrapes is the mutex alone.             *)
(***************************************************************************)
EXTENDS Naturals

CONSTANTS
  Threads,
  N,                  \* number of levels, the +Inf that add_inf adds included
  Observations,       \* the values clients observe, NaN possibly among them
  AtMost(_, _),       \* AtMost(v, b): v <= levels_[b]
  Sum, Plus(_, _),    \* the doubles samples_sum_ takes, and their addition
  Fresh,              \* what samples_sum_ may hold after construction
  Nothing,
  MaxCalls            \* bound on the number of observations

Levels == 1..N

\* The protobuf Histogram that collect_value fills in, and what clients make
\* of it.
OutType == [count : Nat, sum : Sum, buckets : [Levels -> Nat]]
Exposed == [counts : [Levels -> Nat], sum : Sum]

\* The constructor refuses levels that do not increase (values.cc:104-109), so
\* a value at most one level is at most the next.  Its check lets a NaN pass:
\* levels with a NaN among them are outside this assumption.
ASSUME HistogramAssumption ==
  /\ N \in Nat \ {0}
  /\ MaxCalls \in Nat
  /\ Nothing \notin Threads \union Observations
  /\ Fresh \subseteq Sum
  /\ \A s \in Sum, v \in Observations : Plus(s, v) \in Sum
  /\ \A v \in Observations, b \in Levels : AtMost(v, b) \in BOOLEAN
  /\ \A v \in Observations, b \in 1..(N - 1) : AtMost(v, b) => AtMost(v, b + 1)
  /\ Nothing \notin OutType \union Exposed

VARIABLES
  values_,        \* values_[b]: the count of bucket b
  samples_sum_,
  mutex_,         \* the thread that holds the mutex, or Nothing
  pc,             \* "idle", "observe" (waits for the mutex), "add", "collect"
  arg,            \* arg[t]: the value t observes, or Nothing
  it,             \* it[t]: the bucket the loop of t is at
  out,            \* out[t]: the protobuf Histogram t fills in
  calls           \* number of observations so far

vars == <<values_, samples_sum_, mutex_, pc, arg, it, out, calls>>

\* Both constructors value-initialise values_ and leave samples_sum_ alone:
\* zero in static storage, indeterminate anywhere else.
Init ==
  /\ values_ = [b \in Levels |-> 0]
  /\ samples_sum_ \in Fresh
  /\ mutex_ = Nothing
  /\ pc = [t \in Threads |-> "idle"]
  /\ arg = [t \in Threads |-> Nothing]
  /\ it = [t \in Threads |-> 1]
  /\ out = [t \in Threads |-> Nothing]
  /\ calls = 0

Lock_FromZero(t, p) ==                          \* mutant: off by one
  /\ mutex_ = Nothing
  /\ mutex_' = t
  /\ pc' = [pc EXCEPT ![t] = p]
  /\ it' = [it EXCEPT ![t] = 0]

Lock(t, p) ==
  /\ mutex_ = Nothing
  /\ mutex_' = t
  /\ pc' = [pc EXCEPT ![t] = p]
  /\ it' = [it EXCEPT ![t] = 1]

Unlock_Forgotten(t) ==                          \* mutant: lock() without unlock()
  /\ it[t] > N
  /\ UNCHANGED mutex_
  /\ pc' = [pc EXCEPT ![t] = "idle"]

Unlock(t) ==
  /\ it[t] > N
  /\ mutex_' = Nothing
  /\ pc' = [pc EXCEPT ![t] = "idle"]

Advance(t) == it[t] <= N /\ it' = [it EXCEPT ![t] = @ + 1]

-----------------------------------------------------------------------------
(* observe(v) *)

ObserveCalled(t, v) ==
  /\ pc[t] = "idle"
  /\ calls < MaxCalls
  /\ calls' = calls + 1
  /\ pc' = [pc EXCEPT ![t] = "observe"]
  /\ arg' = [arg EXCEPT ![t] = v]
  /\ UNCHANGED <<values_, samples_sum_, mutex_, it, out>>

ObserveLocks(t) ==
  /\ pc[t] = "observe"
  /\ Lock(t, "add")
  /\ UNCHANGED <<values_, samples_sum_, arg, out, calls>>

ObserveBucket_FirstOnly(t) ==                   \* mutant: not cumulative
  /\ pc[t] = "add"
  /\ Advance(t)
  /\ values_' = [values_ EXCEPT ![it[t]] =
       @ + (IF /\ AtMost(arg[t], it[t])
               /\ it[t] = 1 \/ ~AtMost(arg[t], it[t] - 1) THEN 1 ELSE 0)]
  /\ UNCHANGED <<samples_sum_, mutex_, pc, arg, out, calls>>

ObserveBucket(t) ==
  /\ pc[t] = "add"
  /\ Advance(t)
  /\ values_' = [values_ EXCEPT
                   ![it[t]] = @ + (IF AtMost(arg[t], it[t]) THEN 1 ELSE 0)]
  /\ UNCHANGED <<samples_sum_, mutex_, pc, arg, out, calls>>

\* samples_sum_ += v, and the guard's destructor.
ObserveReturns_NoSum(t) ==                      \* mutant: sum forgotten
  /\ pc[t] = "add"
  /\ Unlock(t)
  /\ arg' = [arg EXCEPT ![t] = Nothing]
  /\ UNCHANGED <<values_, samples_sum_, it, out, calls>>

ObserveReturns(t) ==
  /\ pc[t] = "add"
  /\ Unlock(t)
  /\ samples_sum_' = Plus(samples_sum_, arg[t])
  /\ arg' = [arg EXCEPT ![t] = Nothing]
  /\ UNCHANGED <<values_, it, out, calls>>

-----------------------------------------------------------------------------
(* collect_value(m) *)

CollectLocks(t) ==
  /\ pc[t] = "idle"
  /\ Lock(t, "collect")
  /\ out' = [out EXCEPT ![t] =
               [count |-> values_[N], sum |-> samples_sum_,
                buckets |-> [b \in Levels |-> 0]]]
  /\ UNCHANGED <<values_, samples_sum_, arg, calls>>

CollectBucket(t) ==
  /\ pc[t] = "collect"
  /\ Advance(t)
  /\ out' = [out EXCEPT ![t].buckets[it[t]] = values_[it[t]]]
  /\ UNCHANGED <<values_, samples_sum_, mutex_, pc, arg, calls>>

CollectReturns(t) ==
  /\ pc[t] = "collect"
  /\ Unlock(t)
  /\ UNCHANGED <<values_, samples_sum_, arg, it, out, calls>>

\* A step of a thread that is inside its critical section.
LockedStep(t) ==
  \/ ObserveBucket(t) \/ ObserveReturns(t)
  \/ CollectBucket(t) \/ CollectReturns(t)

Next == \E t \in Threads :
  \/ \E v \in Observations : ObserveCalled(t, v)
  \/ ObserveLocks(t)
  \/ CollectLocks(t)
  \/ LockedStep(t)

Spec == Init /\ [][Next]_vars

\* Neither loop waits for anything once it holds the mutex.
FairSpec == Spec /\ \A t \in Threads : WF_vars(LockedStep(t))

-----------------------------------------------------------------------------
(* Properties *)

\* Every variable keeps its type.
TypeOK ==
  /\ values_ \in [Levels -> Nat]
  /\ samples_sum_ \in Sum
  /\ mutex_ \in Threads \union {Nothing}
  /\ pc \in [Threads -> {"idle", "observe", "add", "collect"}]
  /\ arg \in [Threads -> Observations \union {Nothing}]
  /\ it \in [Threads -> 1..(N + 1)]
  /\ out \in [Threads -> OutType \union {Nothing}]
  /\ calls \in 0..MaxCalls

\* No two threads touch the buckets at the same time, and the mutex is held by
\* whoever does: no exit of either function keeps it.
MutualExclusion ==
  \A t \in Threads : pc[t] \in {"add", "collect"} <=> mutex_ = t

\* An exposed histogram is one Prometheus accepts: its buckets are cumulative
\* and the last of them is the sample count (values.cc:165-179), whatever
\* observations were under way.
ExposedIsCoherent ==
  \A t \in Threads : pc[t] # "collect" /\ out[t] # Nothing =>
    /\ \A b \in 1..(N - 1) : out[t].buckets[b] <= out[t].buckets[b + 1]
    /\ out[t].count = out[t].buckets[N]

\* The mutex does not stay held.
MutexIsReleased == mutex_ # Nothing ~> mutex_ = Nothing

\* A histogram that has not observed anything exposes a sum of zero, also when
\* labels() has just created it as a copy of the master (metrics.hh:83-86).
EmptyHasZeroSum ==
  \A t \in Threads : out[t] # Nothing /\ out[t].count = 0 => out[t].sum = 0

\* What the observation that holds the mutex has added to bucket b so far.
Partial(b) ==
  IF \E t \in Threads : pc[t] = "add" /\ b < it[t] /\ AtMost(arg[t], b)
  THEN 1 ELSE 0

\* An observation counts everywhere at once, exactly once, and every scrape
\* exposes all buckets and the sum of one single moment.
Abstract == INSTANCE AtomicHistogram WITH
  Buckets  <- Levels,
  counts   <- [b \in Levels |-> values_[b] - Partial(b)],
  sum      <- samples_sum_,
  pending  <- arg,
  snapshot <- [t \in Threads |->
                 IF out[t] = Nothing \/ pc[t] = "collect" THEN Nothing
                 ELSE [counts |-> out[t].buckets, sum |-> out[t].sum]]

ImplementsAtomic == Abstract!Spec
=============================================================================
