--------------------------- MODULE HistogramProofs ---------------------------
(***************************************************************************)
(* Theorems about Histogram, for any number of threads and of levels and   *)
(* any observations.                                                       *)
(***************************************************************************)
EXTENDS Histogram, Integers, TLAPS

\* A thread has an argument exactly inside observe().
ArgumentsAreHeld ==
  \A t \in Threads : pc[t] \in {"observe", "add"} <=> arg[t] # Nothing

\* The count of bucket b without the observation that holds the mutex.
Settled(b) == values_[b] - Partial(b)

BucketsAreCumulative == \A b \in 1..(N - 1) : Settled(b) <= Settled(b + 1)

\* What the loop of collect_value has copied so far is what it copied from.
CopyIsFaithful ==
  \A t \in Threads : pc[t] = "collect" =>
    /\ out[t] # Nothing
    /\ out[t].count = values_[N] /\ out[t].sum = samples_sum_
    /\ \A b \in Levels : b < it[t] => out[t].buckets[b] = values_[b]

\* The inductive invariant: MutualExclusion keeps the buckets still under the
\* copying loop, and makes Partial the share of one thread at most.
Inv ==
  /\ TypeOK
  /\ MutualExclusion
  /\ ArgumentsAreHeld
  /\ BucketsAreCumulative
  /\ CopyIsFaithful
  /\ ExposedIsCoherent

PcValues == {"idle", "observe", "add", "collect"}

-----------------------------------------------------------------------------
(* Partial, in the states that matter. *)

LEMMA PartialOfOne ==
  ASSUME Inv, NEW t \in Threads, pc[t] = "add", NEW b \in Levels
  PROVE  Partial(b) = IF b < it[t] /\ AtMost(arg[t], b) THEN 1 ELSE 0
<1>1. \A u \in Threads : pc[u] = "add" => u = t
  BY DEF Inv, MutualExclusion
<1> QED BY <1>1 DEF Partial

LEMMA PartialOfNone ==
  ASSUME \A t \in Threads : pc[t] # "add", NEW b
  PROVE  Partial(b) = 0
BY DEF Partial

LEMMA LevelFacts ==
  ASSUME Inv
  PROVE  /\ N \in Nat /\ N >= 1 /\ N \in Levels
         /\ \A b \in Levels : values_[b] \in Nat /\ b \in Nat /\ b <= N
         /\ \A b \in Levels : Partial(b) \in {0, 1}
         /\ \A t \in Threads : it[t] \in Nat /\ it[t] >= 1 /\ it[t] <= N + 1
BY HistogramAssumption DEF Inv, TypeOK, Levels, Partial

-----------------------------------------------------------------------------

LEMMA InitInv == Init => Inv
<1> SUFFICES ASSUME Init PROVE Inv
  OBVIOUS
<1> USE HistogramAssumption DEF Init
<1>1. TypeOK
  BY DEF TypeOK
<1>2. MutualExclusion /\ ArgumentsAreHeld
  BY DEF MutualExclusion, ArgumentsAreHeld
<1>3. BucketsAreCumulative
  BY PartialOfNone DEF BucketsAreCumulative, Settled, Levels
<1>4. CopyIsFaithful /\ ExposedIsCoherent
  BY DEF CopyIsFaithful, ExposedIsCoherent
<1> QED BY <1>1, <1>2, <1>3, <1>4 DEF Inv

\* Taking and releasing the mutex, and calling observe(), leave the buckets
\* and what the others copy alone.
LEMMA ObserveCalledInv ==
  ASSUME Inv, NEW t \in Threads, NEW v \in Observations, ObserveCalled(t, v)
  PROVE  Inv'
<1> USE DEF ObserveCalled
<1>1. /\ UNCHANGED <<values_, samples_sum_, mutex_, it, out>>
      /\ pc[t] = "idle" /\ pc'[t] = "observe" /\ arg'[t] = v /\ v # Nothing
      /\ \A u \in Threads \ {t} : pc'[u] = pc[u] /\ arg'[u] = arg[u]
  BY HistogramAssumption DEF Inv, TypeOK
<1>2. TypeOK'
  <2>1. calls' \in 0..MaxCalls
    BY HistogramAssumption DEF Inv, TypeOK
  <2> QED BY <2>1 DEF Inv, TypeOK
<1>3. MutualExclusion' /\ ArgumentsAreHeld'
  BY <1>1 DEF Inv, MutualExclusion, ArgumentsAreHeld
<1>4. \A b : Partial(b)' = Partial(b)
  BY <1>1 DEF Partial
<1>5. BucketsAreCumulative'
  BY <1>1, <1>4 DEF Inv, BucketsAreCumulative, Settled
<1>6. CopyIsFaithful' /\ ExposedIsCoherent'
  BY <1>1 DEF Inv, CopyIsFaithful, ExposedIsCoherent
<1> QED BY <1>2, <1>3, <1>5, <1>6 DEF Inv

LEMMA ObserveLocksInv ==
  ASSUME Inv, NEW t \in Threads, ObserveLocks(t)
  PROVE  Inv'
<1> USE DEF ObserveLocks, Lock
<1>1. /\ UNCHANGED <<values_, samples_sum_, arg, out>>
      /\ mutex_ = Nothing /\ mutex_' = t
      /\ pc[t] = "observe" /\ pc'[t] = "add" /\ it'[t] = 1
      /\ \A u \in Threads \ {t} : pc'[u] = pc[u] /\ it'[u] = it[u]
  BY DEF Inv, TypeOK
<1>2. \A u \in Threads : pc[u] \notin {"add", "collect"}
  BY <1>1, HistogramAssumption DEF Inv, MutualExclusion
<1>3. TypeOK'
  BY HistogramAssumption DEF Inv, TypeOK
<1>4. MutualExclusion' /\ ArgumentsAreHeld'
  BY <1>1, <1>2 DEF Inv, MutualExclusion, ArgumentsAreHeld
<1>5. \A b \in Levels : Partial(b) = 0 /\ Partial(b)' = 0
  BY <1>1, <1>2 DEF Partial, Levels
<1>6. BucketsAreCumulative'
  BY <1>1, <1>5, HistogramAssumption DEF Inv, BucketsAreCumulative, Settled, Levels
<1>7. CopyIsFaithful' /\ ExposedIsCoherent'
  BY <1>1, <1>2 DEF Inv, CopyIsFaithful, ExposedIsCoherent
<1> QED BY <1>3, <1>4, <1>6, <1>7 DEF Inv

\* Adding to a bucket moves as much into Partial as into the bucket.
LEMMA BucketSettles ==
  ASSUME Inv, NEW t \in Threads, ObserveBucket(t), NEW b \in Levels
  PROVE  Settled(b)' = Settled(b)
<1> USE DEF ObserveBucket, Advance
<1>1. /\ UNCHANGED <<samples_sum_, mutex_, pc, arg, out>>
      /\ pc[t] = "add" /\ it[t] \in Levels /\ it'[t] = it[t] + 1
      /\ \A u \in Threads \ {t} : it'[u] = it[u]
      /\ values_'[b] = IF b = it[t] /\ AtMost(arg[t], b)
                       THEN values_[b] + 1 ELSE values_[b]
  BY LevelFacts DEF Inv, TypeOK, Levels
<1>2. \A u \in Threads : pc[u] = "add" => u = t
  BY <1>1 DEF Inv, MutualExclusion
<1>3. Partial(b)' = IF b < it[t] + 1 /\ AtMost(arg[t], b) THEN 1 ELSE 0
  BY <1>1, <1>2 DEF Partial
<1>4. Partial(b) = IF b < it[t] /\ AtMost(arg[t], b) THEN 1 ELSE 0
  BY <1>1, PartialOfOne
<1>5. b \in Nat /\ it[t] \in Nat /\ values_[b] \in Nat
  BY LevelFacts
<1> QED BY <1>1, <1>3, <1>4, <1>5 DEF Settled

LEMMA ObserveBucketInv ==
  ASSUME Inv, NEW t \in Threads, ObserveBucket(t)
  PROVE  Inv'
<1> USE DEF ObserveBucket, Advance
<1>1. /\ UNCHANGED <<samples_sum_, mutex_, pc, arg, out>>
      /\ pc[t] = "add" /\ \A u \in Threads \ {t} : pc[u] # "collect"
  BY DEF Inv, MutualExclusion
<1>2. TypeOK'
  <2>1. it' \in [Threads -> 1..(N + 1)]
    BY HistogramAssumption DEF Inv, TypeOK
  <2>2. values_' \in [Levels -> Nat]
    <3>1. values_ \in [Levels -> Nat] /\ it[t] \in Levels
      BY LevelFacts DEF Inv, TypeOK, Levels
    <3>2. values_[it[t]] + (IF AtMost(arg[t], it[t]) THEN 1 ELSE 0) \in Nat
      BY <3>1
    <3> QED BY <3>1, <3>2
  <2> QED BY <2>1, <2>2 DEF Inv, TypeOK
<1>3. MutualExclusion' /\ ArgumentsAreHeld' /\ ExposedIsCoherent'
  BY <1>1 DEF Inv, MutualExclusion, ArgumentsAreHeld, ExposedIsCoherent
<1>4. BucketsAreCumulative'
  <2> SUFFICES ASSUME NEW b \in 1..(N - 1)
               PROVE  Settled(b)' <= Settled(b + 1)'
    BY DEF BucketsAreCumulative
  <2>1. b \in Levels /\ b + 1 \in Levels
    BY HistogramAssumption DEF Levels
  <2>2. Settled(b)' = Settled(b) /\ Settled(b + 1)' = Settled(b + 1)
    BY <2>1, BucketSettles
  <2> QED BY <2>2 DEF Inv, BucketsAreCumulative
<1>5. CopyIsFaithful'
  BY <1>1 DEF CopyIsFaithful
<1> QED BY <1>2, <1>3, <1>4, <1>5 DEF Inv

LEMMA ObserveReturnsInv ==
  ASSUME Inv, NEW t \in Threads, ObserveReturns(t)
  PROVE  Inv'
<1> USE DEF ObserveReturns, Unlock
<1>1. /\ UNCHANGED <<values_, it, out, calls>>
      /\ mutex_ = t /\ mutex_' = Nothing
      /\ pc[t] = "add" /\ pc'[t] = "idle" /\ it[t] > N
      /\ arg[t] \in Observations /\ arg'[t] = Nothing
      /\ \A u \in Threads \ {t} : /\ pc'[u] = pc[u] /\ arg'[u] = arg[u]
                                  /\ pc[u] \notin {"add", "collect"}
  BY DEF Inv, TypeOK, MutualExclusion, ArgumentsAreHeld
<1>2. TypeOK'
  BY <1>1, HistogramAssumption DEF Inv, TypeOK
<1>3. MutualExclusion' /\ ArgumentsAreHeld'
  BY <1>1, HistogramAssumption DEF Inv, MutualExclusion, ArgumentsAreHeld
<1>4. \A b \in Levels : Settled(b)' = Settled(b) + (IF AtMost(arg[t], b) THEN 1 ELSE 0)
  <2> SUFFICES ASSUME NEW b \in Levels
               PROVE  Settled(b)' = Settled(b) + (IF AtMost(arg[t], b) THEN 1 ELSE 0)
    OBVIOUS
  <2>1. Partial(b)' = 0
    BY <1>1 DEF Partial
  <2>2. b < it[t] /\ values_[b] \in Nat
    BY <1>1, LevelFacts
  <2>3. Partial(b) = IF AtMost(arg[t], b) THEN 1 ELSE 0
    BY <1>1, <2>2, PartialOfOne
  <2> QED BY <1>1, <2>1, <2>2, <2>3 DEF Settled
<1>5. BucketsAreCumulative'
  <2> SUFFICES ASSUME NEW b \in 1..(N - 1)
               PROVE  Settled(b)' <= Settled(b + 1)'
    BY DEF BucketsAreCumulative
  <2>1. b \in Levels /\ b + 1 \in Levels
    BY HistogramAssumption DEF Levels
  <2>2. AtMost(arg[t], b) => AtMost(arg[t], b + 1)
    BY <1>1, HistogramAssumption
  <2>3. Settled(b) \in Int /\ Settled(b + 1) \in Int /\ Settled(b) <= Settled(b + 1)
    BY <2>1, LevelFacts DEF Inv, BucketsAreCumulative, Settled
  <2>4. /\ Settled(b)' = Settled(b) + (IF AtMost(arg[t], b) THEN 1 ELSE 0)
        /\ Settled(b + 1)' = Settled(b + 1) + (IF AtMost(arg[t], b + 1) THEN 1 ELSE 0)
    BY <1>4, <2>1
  <2> HIDE DEF Settled
  <2> QED BY <2>2, <2>3, <2>4
<1>6. CopyIsFaithful' /\ ExposedIsCoherent'
  BY <1>1 DEF Inv, CopyIsFaithful, ExposedIsCoherent
<1> QED BY <1>2, <1>3, <1>5, <1>6 DEF Inv

LEMMA CollectLocksInv ==
  ASSUME Inv, NEW t \in Threads, CollectLocks(t)
  PROVE  Inv'
<1> DEFINE o == [count |-> values_[N], sum |-> samples_sum_,
                 buckets |-> [b \in Levels |-> 0]]
<1>1. /\ UNCHANGED <<values_, samples_sum_, arg, calls>>
      /\ mutex_ = Nothing /\ mutex_' = t
      /\ pc[t] = "idle" /\ pc' = [pc EXCEPT ![t] = "collect"]
      /\ it' = [it EXCEPT ![t] = 1] /\ out' = [out EXCEPT ![t] = o]
  BY DEF CollectLocks, Lock
<1>2. \A u \in Threads : pc[u] \notin {"add", "collect"}
  BY <1>1, HistogramAssumption DEF Inv, MutualExclusion
<1>3. o \in OutType /\ o.count = values_[N] /\ o.sum = samples_sum_
  BY LevelFacts DEF OutType, Inv, TypeOK
<1>4. o # Nothing
  BY <1>3, HistogramAssumption
<1> HIDE DEF o
<1>5. TypeOK'
  BY <1>1, <1>3, HistogramAssumption DEF Inv, TypeOK
<1>6. /\ pc'[t] = "collect" /\ it'[t] = 1 /\ out'[t] = o
      /\ \A u \in Threads \ {t} : /\ pc'[u] = pc[u] /\ it'[u] = it[u]
                                  /\ out'[u] = out[u]
  BY <1>1 DEF Inv, TypeOK
<1>7. MutualExclusion' /\ ArgumentsAreHeld'
  BY <1>1, <1>2, <1>6 DEF Inv, MutualExclusion, ArgumentsAreHeld
<1>8. BucketsAreCumulative'
  <2>1. \A b \in Levels : Partial(b) = 0 /\ Partial(b)' = 0
    BY <1>2, <1>6 DEF Partial
  <2> QED BY <1>1, <2>1, HistogramAssumption
          DEF Inv, BucketsAreCumulative, Settled, Levels
<1>9. CopyIsFaithful'
  BY <1>1, <1>2, <1>3, <1>4, <1>6 DEF CopyIsFaithful, Levels
<1>10. ExposedIsCoherent'
  BY <1>2, <1>6 DEF Inv, ExposedIsCoherent
<1> QED BY <1>5, <1>7, <1>8, <1>9, <1>10 DEF Inv

\* One iteration of the copying loop.
LEMMA CollectBucketCopies ==
  ASSUME Inv, NEW t \in Threads, CollectBucket(t)
  PROVE  /\ out'[t] \in OutType /\ out[t] \in OutType
         /\ out' = [out EXCEPT ![t] = out'[t]]
         /\ out'[t].count = out[t].count /\ out'[t].sum = out[t].sum
         /\ \A b \in Levels : out'[t].buckets[b] =
              IF b = it[t] THEN values_[b] ELSE out[t].buckets[b]
         /\ it[t] \in Levels
<1> DEFINE f == [out[t].buckets EXCEPT ![it[t]] = values_[it[t]]]
           r == [out[t] EXCEPT !.buckets = f]
<1>1. out[t] \in OutType
  BY DEF CollectBucket, Inv, TypeOK, CopyIsFaithful
<1>2. out' = [out EXCEPT ![t] = r] /\ it[t] \in Levels
  BY LevelFacts DEF CollectBucket, Advance, Levels
<1>3. f \in [Levels -> Nat]
      /\ \A b \in Levels : f[b] = IF b = it[t] THEN values_[b] ELSE out[t].buckets[b]
  BY <1>1, <1>2, LevelFacts DEF OutType
<1> HIDE DEF f
<1>4. r \in OutType /\ r.count = out[t].count /\ r.sum = out[t].sum /\ r.buckets = f
  BY <1>1, <1>3 DEF OutType
<1> HIDE DEF r
<1>5. out'[t] = r
  BY <1>2 DEF Inv, TypeOK
<1> QED BY <1>1, <1>2, <1>3, <1>4, <1>5

LEMMA CollectBucketInv ==
  ASSUME Inv, NEW t \in Threads, CollectBucket(t)
  PROVE  Inv'
<1>1. /\ UNCHANGED <<values_, samples_sum_, mutex_, pc, arg, calls>>
      /\ pc[t] = "collect" /\ it[t] \in Levels /\ it'[t] = it[t] + 1
      /\ it' \in [Threads -> 1..(N + 1)]
      /\ \A u \in Threads \ {t} : it'[u] = it[u] /\ pc[u] \notin {"add", "collect"}
  BY LevelFacts DEF CollectBucket, Advance, Inv, TypeOK, MutualExclusion, Levels
<1> DEFINE o == out'[t]
<1>2. /\ o \in OutType /\ out' = [out EXCEPT ![t] = o]
      /\ o.count = out[t].count /\ o.sum = out[t].sum
      /\ \A b \in Levels : o.buckets[b] =
           IF b = it[t] THEN values_[b] ELSE out[t].buckets[b]
  BY CollectBucketCopies
<1>3. \A u \in Threads \ {t} : out'[u] = out[u]
  BY <1>2 DEF Inv, TypeOK
<1>4. TypeOK'
  <2> HIDE DEF o
  <2> QED BY <1>1, <1>2 DEF Inv, TypeOK
<1>5. MutualExclusion' /\ ArgumentsAreHeld' /\ ExposedIsCoherent'
  BY <1>1, <1>3 DEF Inv, MutualExclusion, ArgumentsAreHeld, ExposedIsCoherent
<1>6. BucketsAreCumulative'
  <2>1. \A b \in Levels : Partial(b) = 0 /\ Partial(b)' = 0
    BY <1>1 DEF Partial
  <2> QED BY <1>1, <2>1, HistogramAssumption
          DEF Inv, BucketsAreCumulative, Settled, Levels
<1>7. CopyIsFaithful'
  <2> SUFFICES /\ o # Nothing
               /\ o.count = values_[N] /\ o.sum = samples_sum_
               /\ \A b \in Levels : b < it'[t] => o.buckets[b] = values_[b]
    BY <1>1 DEF CopyIsFaithful
  <2>1. o # Nothing
    BY <1>2, HistogramAssumption
  <2>2. /\ out[t].count = values_[N] /\ out[t].sum = samples_sum_
        /\ \A b \in Levels : b < it[t] => out[t].buckets[b] = values_[b]
    BY <1>1 DEF Inv, CopyIsFaithful
  <2>3. \A b \in Levels : b < it[t] + 1 => b < it[t] \/ b = it[t]
    BY <1>1 DEF Levels
  <2> QED BY <1>1, <1>2, <2>1, <2>2, <2>3
<1> QED BY <1>4, <1>5, <1>6, <1>7 DEF Inv

\* At the end of the loop the copy is the histogram of that moment.
LEMMA CopyIsComplete ==
  ASSUME Inv, NEW t \in Threads, CollectReturns(t)
  PROVE  /\ out[t] \in OutType /\ out[t] # Nothing
         /\ out[t].sum = samples_sum_ /\ out[t].count = values_[N]
         /\ \A b \in Levels : /\ out[t].buckets[b] = values_[b]
                              /\ values_[b] = Settled(b)
<1>1. pc[t] = "collect" /\ it[t] > N
  BY DEF CollectReturns, Unlock
<1>2. \A b \in Levels : b < it[t]
  BY <1>1, LevelFacts DEF Levels
<1>3. \A u \in Threads : pc[u] # "add"
  BY <1>1 DEF Inv, MutualExclusion
<1>4. \A b \in Levels : values_[b] = Settled(b)
  BY <1>3, PartialOfNone, LevelFacts DEF Settled
<1> QED BY <1>1, <1>2, <1>4 DEF Inv, TypeOK, CopyIsFaithful

LEMMA CollectReturnsInv ==
  ASSUME Inv, NEW t \in Threads, CollectReturns(t)
  PROVE  Inv'
<1>1. /\ UNCHANGED <<values_, samples_sum_, arg, it, out, calls>>
      /\ pc[t] = "collect" /\ pc' = [pc EXCEPT ![t] = "idle"]
      /\ mutex_ = t /\ mutex_' = Nothing
  BY DEF CollectReturns, Unlock, Inv, MutualExclusion
<1>2. pc'[t] = "idle" /\ \A u \in Threads \ {t} : /\ pc'[u] = pc[u]
                                                 /\ pc[u] \notin {"add", "collect"}
  BY <1>1 DEF Inv, TypeOK, MutualExclusion
<1>3. TypeOK'
  BY <1>1 DEF Inv, TypeOK
<1>4. MutualExclusion' /\ ArgumentsAreHeld' /\ CopyIsFaithful'
  BY <1>1, <1>2, HistogramAssumption
     DEF Inv, MutualExclusion, ArgumentsAreHeld, CopyIsFaithful
<1>5. BucketsAreCumulative'
  <2>1. \A b \in Levels : Partial(b) = 0 /\ Partial(b)' = 0
    BY <1>1, <1>2 DEF Partial
  <2> QED BY <1>1, <2>1, HistogramAssumption
          DEF Inv, BucketsAreCumulative, Settled, Levels
<1>6. ExposedIsCoherent'
  <2>1. \A b \in 1..(N - 1) : b \in Levels /\ b + 1 \in Levels
    BY HistogramAssumption DEF Levels
  <2>2. \A b \in 1..(N - 1) : out[t].buckets[b] <= out[t].buckets[b + 1]
    BY <2>1, CopyIsComplete DEF Inv, BucketsAreCumulative
  <2>3. out[t].count = out[t].buckets[N]
    BY CopyIsComplete, LevelFacts
  <2> QED BY <1>1, <1>2, <2>2, <2>3 DEF Inv, ExposedIsCoherent
<1> QED BY <1>3, <1>4, <1>5, <1>6 DEF Inv

LEMMA StepInv == Inv /\ [Next]_vars => Inv'
<1> SUFFICES ASSUME Inv, [Next]_vars PROVE Inv'
  OBVIOUS
<1>1. CASE UNCHANGED vars
  BY <1>1 DEF vars, Inv, TypeOK, MutualExclusion, ArgumentsAreHeld, Partial,
              BucketsAreCumulative, Settled, CopyIsFaithful, ExposedIsCoherent
<1> QED BY <1>1, ObserveCalledInv, ObserveLocksInv, ObserveBucketInv,
           ObserveReturnsInv, CollectLocksInv, CollectBucketInv,
           CollectReturnsInv DEF Next, LockedStep

\* The inductive invariant holds of every behaviour.
THEOREM Invariance == Spec => []Inv
BY InitInv, StepInv, PTL DEF Spec

-----------------------------------------------------------------------------
(* The properties that the run checks. *)

\* Every variable keeps its type.
THEOREM TypeCorrect == Spec => []TypeOK
<1>1. Inv => TypeOK
  BY DEF Inv
<1> QED BY <1>1, Invariance, PTL

\* The mutex is held by the one thread that is among the buckets, and by no
\* thread that has left them (values.cc:133-142, 165-179).
THEOREM BucketsAreLocked == Spec => []MutualExclusion
<1>1. Inv => MutualExclusion
  BY DEF Inv
<1> QED BY <1>1, Invariance, PTL

\* Whatever is observed meanwhile, an exposed histogram has cumulative buckets
\* and the last of them is its sample count (values.cc:165-179).
THEOREM ExpositionIsCoherent == Spec => []ExposedIsCoherent
<1>1. Inv => ExposedIsCoherent
  BY DEF Inv
<1> QED BY <1>1, Invariance, PTL

\* What the abstract histogram holds as exposed by t.
Snapshot(t) ==
  IF out[t] = Nothing \/ pc[t] = "collect" THEN Nothing
  ELSE [counts |-> out[t].buckets, sum |-> out[t].sum]

\* The bucket-by-bucket loops under the mutex implement an observation and a
\* scrape that are each one indivisible step.
THEOREM LoopsAreAtomic == Spec => ImplementsAtomic
<1>1. Init => Abstract!Init
  <2> SUFFICES ASSUME Init PROVE Abstract!Init
    OBVIOUS
  <2>1. \A b \in Levels : values_[b] - Partial(b) = 0
    BY PartialOfNone DEF Init
  <2>2. [b \in Levels |-> values_[b] - Partial(b)] = [b \in Levels |-> 0]
    BY <2>1
  <2> QED BY <2>2 DEF Init, Abstract!Init
<1>2. Inv /\ [Next]_vars => [Abstract!Next]_(Abstract!vars)
  <2> SUFFICES ASSUME Inv, [Next]_vars
               PROVE  [Abstract!Next]_(Abstract!vars)
    OBVIOUS
  <2>1. ASSUME \A b \in Levels : Settled(b)' = Settled(b),
               UNCHANGED <<samples_sum_, arg>>,
               \A u \in Threads : Snapshot(u)' = Snapshot(u)
        PROVE  UNCHANGED Abstract!vars
    BY <2>1 DEF Abstract!vars, Settled, Snapshot
  <2>2. ASSUME NEW t \in Threads, NEW v \in Observations, ObserveCalled(t, v)
        PROVE  Abstract!Next
    <3>1. /\ UNCHANGED <<values_, samples_sum_, it, out>>
          /\ pc[t] = "idle" /\ pc' = [pc EXCEPT ![t] = "observe"]
          /\ arg[t] = Nothing /\ arg' = [arg EXCEPT ![t] = v]
      BY <2>2 DEF ObserveCalled, Inv, TypeOK, ArgumentsAreHeld
    <3>2. \A u \in Threads : /\ pc'[u] = "collect" <=> pc[u] = "collect"
                             /\ pc'[u] = "add" <=> pc[u] = "add"
                             /\ pc[u] = "add" => arg'[u] = arg[u]
      BY <3>1 DEF Inv, TypeOK
    <3>3. \A b \in Levels : Partial(b)' = Partial(b)
      BY <3>1, <3>2 DEF Partial
    <3>4. Abstract!Ask(t, v)
      BY <3>1, <3>2, <3>3 DEF Abstract!Ask
    <3> QED BY <3>4 DEF Abstract!Next
  <2>3. ASSUME NEW t \in Threads, ObserveLocks(t)
        PROVE  UNCHANGED Abstract!vars
    <3>1. /\ UNCHANGED <<values_, samples_sum_, arg, out>> /\ mutex_ = Nothing
          /\ pc[t] = "observe" /\ pc'[t] = "add" /\ it'[t] = 1
          /\ \A u \in Threads \ {t} : pc'[u] = pc[u] /\ it'[u] = it[u]
      BY <2>3 DEF ObserveLocks, Lock, Inv, TypeOK
    <3>2. \A u \in Threads : pc[u] \notin {"add", "collect"}
      BY <3>1, HistogramAssumption DEF Inv, MutualExclusion
    <3>3. \A b \in Levels : Partial(b) = 0 /\ Partial(b)' = 0
      BY <3>1, <3>2 DEF Partial, Levels
    <3>4. \A b \in Levels : Settled(b)' = Settled(b)
      BY <3>1, <3>3 DEF Settled
    <3>5. \A u \in Threads : Snapshot(u)' = Snapshot(u)
      BY <3>1 DEF Snapshot
    <3> QED BY <2>1, <3>1, <3>4, <3>5
  <2>4. ASSUME NEW t \in Threads, ObserveBucket(t)
        PROVE  UNCHANGED Abstract!vars
    <3>1. UNCHANGED <<samples_sum_, arg, pc, out>>
      BY <2>4 DEF ObserveBucket
    <3> QED BY <2>1, <2>4, <3>1, BucketSettles DEF Snapshot
  <2>5. ASSUME NEW t \in Threads, ObserveReturns(t)
        PROVE  Abstract!Next
    <3>1. /\ UNCHANGED <<values_, it, out>>
          /\ samples_sum_' = Plus(samples_sum_, arg[t])
          /\ pc[t] = "add" /\ pc' = [pc EXCEPT ![t] = "idle"] /\ it[t] > N
          /\ arg[t] # Nothing /\ arg' = [arg EXCEPT ![t] = Nothing]
          /\ \A u \in Threads \ {t} : pc[u] # "add"
      BY <2>5 DEF ObserveReturns, Unlock, Inv, MutualExclusion, ArgumentsAreHeld
    <3>2. \A u \in Threads : /\ pc'[u] # "add"
                             /\ pc'[u] = "collect" <=> pc[u] = "collect"
      BY <3>1 DEF Inv, TypeOK
    <3>3. ASSUME NEW b \in Levels
          PROVE  values_'[b] - Partial(b)' =
                   values_[b] - Partial(b) + (IF AtMost(arg[t], b) THEN 1 ELSE 0)
      <4>1. Partial(b)' = 0
        BY <3>2 DEF Partial
      <4>2. b < it[t] /\ values_[b] \in Nat
        BY <3>1, LevelFacts
      <4>3. Partial(b) = IF AtMost(arg[t], b) THEN 1 ELSE 0
        BY <3>1, <4>2, PartialOfOne
      <4> QED BY <3>1, <4>1, <4>2, <4>3
    <3>4. [b \in Levels |-> values_'[b] - Partial(b)'] =
          [b \in Levels |-> [c \in Levels |-> values_[c] - Partial(c)][b]
                             + (IF AtMost(arg[t], b) THEN 1 ELSE 0)]
      BY <3>3
    <3>5. Abstract!Observe(t)
      BY <3>1, <3>2, <3>4 DEF Abstract!Observe
    <3> QED BY <3>5 DEF Abstract!Next
  <2>6. ASSUME NEW t \in Threads, CollectLocks(t)
        PROVE  Abstract!Next
    <3>1. /\ UNCHANGED <<values_, samples_sum_, arg>> /\ mutex_ = Nothing
          /\ pc'[t] = "collect"
          /\ \A u \in Threads \ {t} : pc'[u] = pc[u] /\ out'[u] = out[u]
      BY <2>6 DEF CollectLocks, Lock, Inv, TypeOK
    <3>2. \A u \in Threads : pc[u] # "add" /\ pc'[u] # "add"
      BY <3>1, HistogramAssumption DEF Inv, MutualExclusion
    <3>3. \A b \in Levels : Partial(b)' = Partial(b)
      BY <3>2 DEF Partial
    <3>4. Abstract!Forget(t)
      BY <3>1, <3>3 DEF Abstract!Forget
    <3> QED BY <3>4 DEF Abstract!Next
  <2>7. ASSUME NEW t \in Threads, CollectBucket(t)
        PROVE  UNCHANGED Abstract!vars
    <3>1. /\ UNCHANGED <<values_, samples_sum_, arg, pc>> /\ pc[t] = "collect"
          /\ \A u \in Threads : pc[u] # "add"
      BY <2>7 DEF CollectBucket, Inv, MutualExclusion
    <3>2. \A u \in Threads \ {t} : out'[u] = out[u]
      BY <2>7, CollectBucketCopies DEF Inv, TypeOK
    <3>3. \A b \in Levels : Settled(b)' = Settled(b)
      BY <3>1 DEF Settled, Partial
    <3>4. \A u \in Threads : Snapshot(u)' = Snapshot(u)
      BY <3>1, <3>2 DEF Snapshot
    <3> QED BY <2>1, <3>1, <3>3, <3>4
  <2>8. ASSUME NEW t \in Threads, CollectReturns(t)
        PROVE  Abstract!Next
    <3>1. /\ UNCHANGED <<values_, samples_sum_, arg, out>>
          /\ pc[t] = "collect" /\ pc' = [pc EXCEPT ![t] = "idle"]
          /\ \A u \in Threads : pc[u] # "add"
      BY <2>8 DEF CollectReturns, Unlock, Inv, MutualExclusion
    <3>2. /\ pc'[t] = "idle" /\ \A u \in Threads \ {t} : pc'[u] = pc[u]
          /\ \A u \in Threads : pc'[u] # "add"
      BY <3>1 DEF Inv, TypeOK
    <3>3. \A b \in Levels : Partial(b) = 0 /\ Partial(b)' = 0
      BY <3>1, <3>2 DEF Partial
    <3>4. /\ out[t] # Nothing /\ out[t].sum = samples_sum_
          /\ out[t].buckets = [b \in Levels |-> values_[b] - Partial(b)]
      <4>1. out[t].buckets \in [Levels -> Nat]
        BY <2>8, CopyIsComplete DEF OutType
      <4>2. \A b \in Levels : out[t].buckets[b] = values_[b] - Partial(b)
        BY <2>8, CopyIsComplete DEF Settled
      <4> QED BY <2>8, CopyIsComplete, <4>1, <4>2
    <3>5. Abstract!Expose(t)
      BY <3>1, <3>2, <3>3, <3>4 DEF Abstract!Expose
    <3> QED BY <3>5 DEF Abstract!Next
  <2>9. CASE UNCHANGED vars
    BY <2>1, <2>9 DEF vars, Settled, Partial, Snapshot
  <2> QED BY <2>2, <2>3, <2>4, <2>5, <2>6, <2>7, <2>8, <2>9 DEF Next, LockedStep
<1> QED BY <1>1, <1>2, Invariance, PTL DEF Spec, ImplementsAtomic, Abstract!Spec
=============================================================================
