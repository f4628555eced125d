------------------------- MODULE LabeledMetricProofs -------------------------
(***************************************************************************)
(* Theorems about LabeledMetric, for any number of threads and any sets of *)
(* label values.                                                           *)
(***************************************************************************)
EXTENDS LabeledMetric, TLAPS

\* The mutex is held exactly inside labels() and collect().
MutexIsHeld ==
  \A t \in Threads : pc[t] \in {"labels", "collect"} <=> mutex_ = t

\* Between its two steps labels() keeps a lookup that stays right.
LookupIsCurrent ==
  \A t \in Threads : pc[t] = "labels" =>
    key[t] \in Keys /\ values_[key[t]] = ref[t]

\* The nodes in the map have been created.
NodesAreMade == \A k \in Keys : values_[k] <= made

\* What the loop has visited and what it has still to visit are the series
\* that exist, none of which has become smaller since the scrape began.
LoopInvariant ==
  \A t \in Threads : pc[t] = "collect" =>
    /\ DOMAIN before[t] = Present
    /\ todo[t] \union DOMAIN exposed[t] = Present
    /\ \A k \in Present : before[t][k] <= count[values_[k]]

ScrapesAreFunctions ==
  /\ exposed = [t \in Threads |-> exposed[t]]
  /\ before = [t \in Threads |-> before[t]]

\* The inductive invariant.  MutexIsHeld is what keeps the map still under a
\* lookup and under a loop, so that the facts about each survive the other
\* threads' steps.
Inv ==
  /\ TypeOK
  /\ MutexIsHeld
  /\ LookupIsCurrent
  /\ ReferencesAreCurrent
  /\ NodesAreMade
  /\ NodesAreNotShared
  /\ LoopInvariant
  /\ ExposedIncludesEarlier
  /\ ScrapesAreFunctions

\* The parts about the map and the references, and the parts about scrapes.
MapInv ==
  /\ LookupIsCurrent /\ ReferencesAreCurrent
  /\ NodesAreMade /\ NodesAreNotShared
ScrapeInv == LoopInvariant /\ ExposedIncludesEarlier /\ ScrapesAreFunctions

USE DEF Absent, Nodes

-----------------------------------------------------------------------------

LEMMA InitInv == Init => Inv
<1> SUFFICES ASSUME Init PROVE Inv
  OBVIOUS
<1> USE LabeledAssumption DEF Init
<1>1. IsPartialCount(<<>>)
  BY DEF IsPartialCount
<1>2. TypeOK
  BY <1>1 DEF TypeOK
<1>3. MutexIsHeld
  BY DEF MutexIsHeld
<1>4. LookupIsCurrent /\ ReferencesAreCurrent
      /\ NodesAreMade /\ NodesAreNotShared
  BY DEF LookupIsCurrent, ReferencesAreCurrent,
         NodesAreMade, NodesAreNotShared, Present
<1>5. LoopInvariant /\ ExposedIncludesEarlier /\ ScrapesAreFunctions
  BY DEF LoopInvariant, ExposedIncludesEarlier, ScrapesAreFunctions
<1> QED BY <1>2, <1>3, <1>4, <1>5 DEF Inv

\* A thread inside labels() is the only one under the mutex.
LEMMA InsideAlone ==
  ASSUME Inv, NEW t \in Threads, pc[t] \in {"labels", "collect"}
  PROVE  mutex_ = t /\ \A u \in Threads \ {t} : pc[u] = "idle"
BY DEF Inv, TypeOK, MutexIsHeld

LEMMA OutsideAlone ==
  ASSUME Inv, CanLock
  PROVE  \A u \in Threads : pc[u] = "idle"
BY LabeledAssumption DEF Inv, TypeOK, MutexIsHeld, CanLock

LEMMA LabelsLooksUpInv ==
  ASSUME Inv, NEW t \in Threads, NEW k \in Keys, LabelsLooksUp(t, k)
  PROVE  Inv'
<1> USE DEF LabelsLooksUp
<1>1. \A u \in Threads : pc[u] = "idle"
  BY OutsideAlone
<1>2. /\ mutex_' = t /\ UNCHANGED <<values_, made, count, todo, exposed, before>>
      /\ pc'[t] = "labels" /\ key'[t] = k /\ ref'[t] = values_[k]
      /\ \A u \in Threads \ {t} : /\ pc'[u] = pc[u] /\ key'[u] = key[u]
                                  /\ ref'[u] = ref[u]
  BY DEF Inv, TypeOK
<1>3. TypeOK'
  BY DEF Inv, TypeOK
<1>4. MutexIsHeld'
  BY <1>1, <1>2 DEF MutexIsHeld
<1>5. MapInv'
  BY <1>1, <1>2 DEF Inv, MapInv, LookupIsCurrent, ReferencesAreCurrent,
                    NodesAreMade, NodesAreNotShared, Present
<1>6. ScrapeInv'
  BY <1>1, <1>2 DEF Inv, ScrapeInv, LoopInvariant, ExposedIncludesEarlier,
                    ScrapesAreFunctions, Present
<1> QED BY <1>3, <1>4, <1>5, <1>6 DEF Inv, MapInv, ScrapeInv

LEMMA LabelsReturnsInv ==
  ASSUME Inv, NEW t \in Threads, LabelsReturns(t)
  PROVE  Inv'
<1> DEFINE k == key[t]
<1> USE DEF LabelsReturns
<1>1. mutex_ = t /\ \A u \in Threads \ {t} : pc[u] = "idle"
  BY InsideAlone
<1>2. /\ mutex_' = Nothing /\ UNCHANGED <<count, key, todo, exposed, before>>
      /\ \A u \in Threads : pc'[u] = "idle"
      /\ k \in Keys /\ values_[k] = ref[t]
  BY <1>1 DEF Inv, TypeOK, LookupIsCurrent
<1>3. MutexIsHeld'
  BY <1>2, LabeledAssumption DEF MutexIsHeld
<1>4. ScrapeInv'
  BY <1>2 DEF Inv, ScrapeInv, LoopInvariant, ExposedIncludesEarlier,
              ScrapesAreFunctions
<1>5. CASE ref[t] # Absent
  <2>1. UNCHANGED <<values_, made, ref>>
    BY <1>5
  <2>2. TypeOK'
    BY <2>1 DEF Inv, TypeOK
  <2>3. MapInv'
    BY <1>2, <2>1 DEF Inv, MapInv, LookupIsCurrent, ReferencesAreCurrent,
                      NodesAreMade, NodesAreNotShared, Present
  <2> QED BY <1>3, <1>4, <2>2, <2>3 DEF Inv, MapInv, ScrapeInv
<1>6. CASE ref[t] = Absent
  <2>1. /\ made \in Nat /\ made < MaxNodes /\ made' = made + 1
        /\ values_' = [values_ EXCEPT ![k] = made + 1]
        /\ ref' = [ref EXCEPT ![t] = made + 1]
    BY <1>6, LabeledAssumption DEF Inv, TypeOK
  <2>2. made + 1 \in 1..MaxNodes /\ made + 1 \in 0..MaxNodes
    BY <2>1, LabeledAssumption
  <2>3. TypeOK'
    BY <2>1, <2>2 DEF Inv, TypeOK
  <2>4. /\ values_'[k] = made + 1 /\ ref'[t] = made + 1
        /\ \A j \in Keys \ {k} : values_'[j] = values_[j]
        /\ \A u \in Threads \ {t} : ref'[u] = ref[u]
        /\ \A j \in Keys : values_[j] \in Nat /\ values_[j] <= made
    BY <1>2, <2>1 DEF Inv, TypeOK, NodesAreMade
  <2>5. LookupIsCurrent'
    BY <1>2, <2>4 DEF Inv, LookupIsCurrent
  <2>6. ReferencesAreCurrent'
    <3> SUFFICES ASSUME NEW u \in Threads, ref'[u] # Absent
                 PROVE  key[u] \in Keys /\ values_'[key[u]] = ref'[u]
      BY <1>2 DEF ReferencesAreCurrent
    <3>1. CASE u = t
      BY <1>2, <2>4, <3>1
    <3>2. CASE u # t
      <4>1. ref[u] # Absent /\ key[u] \in Keys /\ values_[key[u]] = ref[u]
        BY <2>4, <3>2 DEF Inv, ReferencesAreCurrent
      <4>2. key[u] # k
        BY <1>2, <1>6, <4>1
      <4> QED BY <2>4, <3>2, <4>1, <4>2
    <3> QED BY <3>1, <3>2
  <2>7. NodesAreMade'
    BY <2>1, <2>4 DEF NodesAreMade
  <2>8. NodesAreNotShared'
    BY <2>1, <2>4 DEF Inv, NodesAreNotShared, Present
  <2> QED BY <1>3, <1>4, <2>3, <2>5, <2>6, <2>7, <2>8 DEF Inv, ScrapeInv
<1> QED BY <1>5, <1>6

LEMMA IncrementInv ==
  ASSUME Inv, NEW t \in Threads, Increment(t)
  PROVE  Inv'
<1> DEFINE n == ref[t]
<1>1. /\ UNCHANGED <<values_, made, mutex_, pc, key, ref, todo, exposed, before>>
      /\ n \in Nodes /\ count' = [count EXCEPT ![n] = count[n] + 1]
      /\ count \in [Nodes -> Nat]
  BY DEF Increment, Inv, TypeOK
<1> HIDE DEF n
<1>2. count' \in [Nodes -> Nat] /\ \A m \in Nodes : count[m] <= count'[m]
  BY <1>1
<1>3. TypeOK'
  BY <1>1, <1>2 DEF Inv, TypeOK
<1>4. MutexIsHeld' /\ MapInv'
  BY <1>1 DEF Inv, MutexIsHeld, MapInv, LookupIsCurrent, ReferencesAreCurrent,
              NodesAreMade, NodesAreNotShared, Present
<1>5. LoopInvariant'
  <2> SUFFICES ASSUME NEW u \in Threads, pc[u] = "collect"
               PROVE  /\ DOMAIN before[u] = Present
                      /\ todo[u] \union DOMAIN exposed[u] = Present
                      /\ \A k \in Present : before[u][k] <= count'[values_[k]]
    BY <1>1 DEF LoopInvariant, Present
  <2>1. /\ DOMAIN before[u] = Present
        /\ todo[u] \union DOMAIN exposed[u] = Present
        /\ \A k \in Present : before[u][k] <= count[values_[k]]
    BY DEF Inv, LoopInvariant
  <2>2. \A k \in Present : values_[k] \in Nodes
    BY DEF Inv, TypeOK, Present
  <2>3. \A k \in Present : before[u][k] \in Nat
    BY <2>1 DEF Inv, TypeOK, IsPartialCount
  <2>4. ASSUME NEW k \in Present
        PROVE  before[u][k] <= count'[values_[k]]
    <3>1. /\ before[u][k] <= count[values_[k]]
          /\ count[values_[k]] <= count'[values_[k]]
          /\ before[u][k] \in Nat
          /\ count[values_[k]] \in Nat /\ count'[values_[k]] \in Nat
      BY <1>1, <1>2, <2>1, <2>2, <2>3
    <3> QED BY <3>1
  <2> QED BY <2>1, <2>4
<1>6. ExposedIncludesEarlier' /\ ScrapesAreFunctions'
  BY <1>1 DEF Inv, ExposedIncludesEarlier, ScrapesAreFunctions
<1> QED BY <1>3, <1>4, <1>5, <1>6 DEF Inv, MapInv

LEMMA EraseInv ==
  ASSUME Inv, NEW ks \in SUBSET Keys, Erase(ks)
  PROVE  Inv'
<1> USE DEF Erase
<1>1. \A u \in Threads : pc[u] = "idle" /\ pc'[u] = "idle"
  BY OutsideAlone
<1>2. /\ UNCHANGED <<made, count, mutex_, pc, todo, exposed, before>>
      /\ \A k \in Keys : values_'[k] = IF k \in ks THEN Absent ELSE values_[k]
      /\ \A u \in Threads :
           /\ ref'[u] = IF key[u] \in ks THEN Absent ELSE ref[u]
           /\ key'[u] = IF key[u] \in ks THEN Nothing ELSE key[u]
  OBVIOUS
<1>3. TypeOK'
  BY DEF Inv, TypeOK
<1>4. MutexIsHeld' /\ ScrapeInv'
  BY <1>1, <1>2 DEF Inv, MutexIsHeld, ScrapeInv, LoopInvariant,
                    ExposedIncludesEarlier, ScrapesAreFunctions
<1>5. LookupIsCurrent' /\ ReferencesAreCurrent'
  BY <1>1, <1>2 DEF Inv, LookupIsCurrent, ReferencesAreCurrent
<1>6. NodesAreMade' /\ NodesAreNotShared'
  BY <1>2 DEF Inv, TypeOK, NodesAreMade, NodesAreNotShared, Present
<1> QED BY <1>3, <1>4, <1>5, <1>6 DEF Inv, ScrapeInv

LEMMA CollectBeginInv ==
  ASSUME Inv, NEW t \in Threads, CollectBegin(t)
  PROVE  Inv'
<1> DEFINE b == [k \in Present |-> count[values_[k]]]
<1> USE DEF CollectBegin
<1>1. \A u \in Threads : pc[u] = "idle"
  BY OutsideAlone
<1>2. /\ mutex_' = t /\ UNCHANGED <<values_, made, count, key, ref>>
      /\ pc'[t] = "collect" /\ todo'[t] = Present
      /\ \A u \in Threads \ {t} : pc'[u] = "idle"
  BY <1>1 DEF Inv, TypeOK
<1>3. /\ exposed'[t] = <<>> /\ before'[t] = b
      /\ \A u \in Threads \ {t} : exposed'[u] = exposed[u] /\ before'[u] = before[u]
      /\ ScrapesAreFunctions'
  BY DEF Inv, ScrapesAreFunctions
<1>4. Present \subseteq Keys
      /\ \A k \in Present : count[values_[k]] \in Nat /\ values_[k] \in Nodes
  BY DEF Present, Inv, TypeOK
<1>5. IsPartialCount(b) /\ IsPartialCount(<<>>)
  BY <1>4 DEF IsPartialCount
<1>6. TypeOK'
  <2>1. \A u \in Threads : IsPartialCount(exposed[u])' /\ IsPartialCount(before[u])'
    BY <1>3, <1>5 DEF Inv, TypeOK, IsPartialCount
  <2> HIDE DEF b
  <2> QED BY <1>4, <2>1 DEF Inv, TypeOK
<1>7. MutexIsHeld' /\ MapInv'
  BY <1>1, <1>2 DEF Inv, MutexIsHeld, MapInv, LookupIsCurrent,
                    ReferencesAreCurrent, NodesAreMade, NodesAreNotShared,
                    Present
<1>8. LoopInvariant'
  <2>1. Present' = Present
    BY <1>2 DEF Present
  <2>2. /\ DOMAIN b = Present /\ DOMAIN <<>> = {}
        /\ \A k \in Present : b[k] <= count[values_[k]]
    BY <1>4
  <2> HIDE DEF b
  <2> QED BY <1>2, <1>3, <2>1, <2>2 DEF LoopInvariant
<1>9. ExposedIncludesEarlier'
  <2>1. DOMAIN exposed'[t] = {}
    BY <1>3
  <2> QED BY <1>3, <2>1 DEF Inv, ExposedIncludesEarlier
<1> QED BY <1>3, <1>6, <1>7, <1>8, <1>9 DEF Inv, MapInv

LEMMA CollectSeriesInv ==
  ASSUME Inv, NEW t \in Threads, NEW k \in Keys, CollectSeries(t, k)
  PROVE  Inv'
<1> DEFINE e == [x \in DOMAIN exposed[t] \union {k} |->
                   IF x = k THEN collect_value(k) ELSE exposed[t][x]]
<1> USE DEF CollectSeries
<1>1. /\ UNCHANGED <<values_, made, count, mutex_, pc, key, ref, before>>
      /\ pc[t] = "collect" /\ k \in todo[t]
      /\ exposed' = [exposed EXCEPT ![t] = e]
      /\ todo'[t] = todo[t] \ {k}
      /\ \A u \in Threads \ {t} : todo'[u] = todo[u]
  BY DEF Inv, TypeOK
<1>2. /\ exposed'[t] = e
      /\ \A u \in Threads \ {t} : exposed'[u] = exposed[u]
      /\ ScrapesAreFunctions'
  BY <1>1 DEF Inv, ScrapesAreFunctions
<1>3. /\ DOMAIN before[t] = Present
      /\ todo[t] \union DOMAIN exposed[t] = Present
      /\ \A x \in Present : before[t][x] <= count[values_[x]]
  BY <1>1 DEF Inv, LoopInvariant
<1>4. k \in Present /\ values_[k] \in Nodes /\ collect_value(k) \in Nat
  BY <1>1, <1>3 DEF Inv, TypeOK, Present, collect_value
<1>5. IsPartialCount(e) /\ DOMAIN e = DOMAIN exposed[t] \union {k}
  <2>1. IsPartialCount(exposed[t])
    BY DEF Inv, TypeOK
  <2> QED BY <1>4, <2>1 DEF IsPartialCount
<1>6. /\ e[k] = count[values_[k]]
      /\ \A x \in DOMAIN exposed[t] : x # k => e[x] = exposed[t][x]
  BY DEF collect_value
<1> HIDE DEF e
<1>7. TypeOK'
  <2>1. \A u \in Threads : IsPartialCount(exposed[u])' /\ IsPartialCount(before[u])'
    BY <1>1, <1>2, <1>5 DEF Inv, TypeOK, IsPartialCount
  <2>2. todo' \in [Threads -> SUBSET Keys]
    BY DEF Inv, TypeOK
  <2> QED BY <1>1, <2>1, <2>2 DEF Inv, TypeOK
<1>8. MutexIsHeld' /\ MapInv'
  BY <1>1 DEF Inv, MutexIsHeld, MapInv, LookupIsCurrent, ReferencesAreCurrent,
              NodesAreMade, NodesAreNotShared, Present
<1>9. LoopInvariant'
  <2>1. Present' = Present
    BY <1>1 DEF Present
  <2>2. todo'[t] \union DOMAIN exposed'[t] = Present
    BY <1>1, <1>2, <1>3, <1>4, <1>5
  <2> QED BY <1>1, <1>2, <1>3, <2>1, <2>2 DEF Inv, LoopInvariant
<1>10. ExposedIncludesEarlier'
  <2>1. \A x \in DOMAIN e : x \in DOMAIN before[t] /\ before[t][x] <= e[x]
    BY <1>3, <1>4, <1>5, <1>6 DEF Inv, ExposedIncludesEarlier
  <2> QED BY <1>1, <1>2, <2>1 DEF Inv, ExposedIncludesEarlier
<1> QED BY <1>2, <1>7, <1>8, <1>9, <1>10 DEF Inv, MapInv

LEMMA CollectReturnsInv ==
  ASSUME Inv, NEW t \in Threads, CollectReturns(t)
  PROVE  Inv'
<1> USE DEF CollectReturns
<1>1. mutex_ = t /\ \A u \in Threads \ {t} : pc[u] = "idle"
  BY InsideAlone
<1>2. /\ mutex_' = Nothing
      /\ UNCHANGED <<values_, made, count, key, ref, todo, exposed, before>>
      /\ \A u \in Threads : pc'[u] = "idle"
  BY <1>1 DEF Inv, TypeOK
<1>3. TypeOK'
  BY <1>2 DEF Inv, TypeOK
<1>4. MutexIsHeld'
  BY <1>2, LabeledAssumption DEF MutexIsHeld
<1>5. MapInv' /\ ScrapeInv'
  BY <1>2 DEF Inv, MapInv, LookupIsCurrent, ReferencesAreCurrent, NodesAreMade,
              NodesAreNotShared, Present,
              ScrapeInv, LoopInvariant, ExposedIncludesEarlier,
              ScrapesAreFunctions
<1> QED BY <1>3, <1>4, <1>5 DEF Inv, MapInv, ScrapeInv

LEMMA StepInv == Inv /\ [Next]_vars => Inv'
<1> SUFFICES ASSUME Inv, [Next]_vars PROVE Inv'
  OBVIOUS
<1>1. CASE UNCHANGED vars
  BY <1>1 DEF vars, Inv, TypeOK, MutexIsHeld, LookupIsCurrent,
              ReferencesAreCurrent, NodesAreMade,
              NodesAreNotShared, Present, LoopInvariant,
              ExposedIncludesEarlier, ScrapesAreFunctions
<1>2. ASSUME NEW t \in Threads, clear(t) \/ \E k \in Keys : remove(t, k)
      PROVE  Inv'
  BY <1>2, EraseInv DEF clear, remove
<1> QED BY <1>1, <1>2, LabelsLooksUpInv, LabelsReturnsInv, IncrementInv,
           CollectBeginInv, CollectSeriesInv, CollectReturnsInv DEF Next

\* The inductive invariant holds of every behaviour.
THEOREM Invariance == Spec => []Inv
BY InitInv, StepInv, PTL DEF Spec

-----------------------------------------------------------------------------
(* The properties that the run checks. *)

\* Every variable keeps its type.
THEOREM TypeCorrect == Spec => []TypeOK
<1>1. Inv => TypeOK
  BY DEF Inv
<1> QED BY <1>1, Invariance, PTL

\* However threads create, look up, remove and scrape series, the reference
\* that labels(k) returned is the value exposed for k until k is removed
\* (metrics.hh:105-123).
THEOREM ReferencesStayCurrent == Spec => []ReferencesAreCurrent
<1>1. Inv => ReferencesAreCurrent
  BY DEF Inv
<1> QED BY <1>1, Invariance, PTL

\* Increments that returned before a scrape took the mutex are in what it
\* exposes, although they do not take the mutex (metrics.hh:125-131).
THEOREM NoEarlierIncrementIsMissed == Spec => []ExposedIncludesEarlier
<1>1. Inv => ExposedIncludesEarlier
  BY DEF Inv
<1> QED BY <1>1, Invariance, PTL

\* A scrape exposes exactly the series that exist when it takes the mutex.
THEOREM LabeledMetricImplementsSnapshot == Spec => ImplementsSnapshot
<1>1. Init => Abstract!Init
  <2> SUFFICES ASSUME Init PROVE Abstract!Init
    OBVIOUS
  <2>1. Present = {}
    BY DEF Init, Present
  <2>2. \A t \in Threads : pc[t] = "idle" /\ exposed[t] = <<>>
    BY DEF Init
  <2>3. ASSUME NEW t \in Threads
        PROVE  DOMAIN exposed[t] = {}
    <3>1. DOMAIN <<>> = {}
      OBVIOUS
    <3> QED BY <2>2, <3>1, Zenon
  <2> QED BY <2>1, <2>2, <2>3 DEF Abstract!Init
<1>2. Inv /\ [Next]_vars => [Abstract!Next]_(Abstract!vars)
  <2> SUFFICES ASSUME Inv, [Next]_vars
               PROVE  [Abstract!Next]_(Abstract!vars)
    OBVIOUS
  <2>1. ASSUME \A t \in Threads : pc[t] # "collect" /\ pc'[t] # "collect",
               UNCHANGED exposed
        PROVE  [Abstract!Next]_(Abstract!vars)
    <3>1. Present' \in SUBSET Keys
      BY DEF Present
    <3>2. Abstract!Change(Present')
      BY <2>1 DEF Abstract!Change
    <3> QED BY <3>1, <3>2 DEF Abstract!Next
  <2>2. ASSUME UNCHANGED <<values_, pc>>,
               \A t \in Threads : pc[t] # "collect" => exposed'[t] = exposed[t]
        PROVE  [Abstract!Next]_(Abstract!vars)
    BY <2>2 DEF Abstract!vars, Present
  <2>3. ASSUME NEW t \in Threads, LabelsReturns(t)
        PROVE  [Abstract!Next]_(Abstract!vars)
    <3>1. \A u \in Threads : pc[u] # "collect" /\ pc'[u] # "collect"
      BY <2>3, InsideAlone DEF LabelsReturns, Inv, TypeOK
    <3> QED BY <2>1, <2>3, <3>1 DEF LabelsReturns
  <2>4. ASSUME NEW ks \in SUBSET Keys, Erase(ks)
        PROVE  [Abstract!Next]_(Abstract!vars)
    BY <2>1, <2>4, OutsideAlone DEF Erase
  <2>5. ASSUME NEW t \in Threads, NEW k \in Keys, LabelsLooksUp(t, k)
        PROVE  [Abstract!Next]_(Abstract!vars)
    <3>1. \A u \in Threads : pc[u] # "collect" /\ pc'[u] # "collect"
      BY <2>5, OutsideAlone DEF LabelsLooksUp, Inv, TypeOK
    <3> QED BY <2>1, <2>5, <3>1 DEF LabelsLooksUp
  <2>6. ASSUME NEW t \in Threads, Increment(t)
        PROVE  [Abstract!Next]_(Abstract!vars)
    BY <2>2, <2>6 DEF Increment
  <2>7. ASSUME NEW t \in Threads, NEW k \in Keys, CollectSeries(t, k)
        PROVE  [Abstract!Next]_(Abstract!vars)
    <3>1. \A u \in Threads : pc[u] # "collect" => exposed'[u] = exposed[u]
      BY <2>7 DEF CollectSeries, Inv, ScrapesAreFunctions
    <3> QED BY <2>2, <2>7, <3>1 DEF CollectSeries
  <2>8. ASSUME NEW t \in Threads, CollectBegin(t)
        PROVE  [Abstract!Next]_(Abstract!vars)
    <3>1. /\ UNCHANGED values_ /\ pc[t] = "idle" /\ pc'[t] = "collect"
          /\ \A u \in Threads \ {t} : /\ pc'[u] = pc[u]
                                      /\ exposed'[u] = exposed[u]
      BY <2>8 DEF CollectBegin, Inv, TypeOK, ScrapesAreFunctions
    <3>2. Abstract!Open(t)
      BY <3>1 DEF Abstract!Open, Present
    <3> QED BY <3>2 DEF Abstract!Next
  <2>9. ASSUME NEW t \in Threads, CollectReturns(t)
        PROVE  [Abstract!Next]_(Abstract!vars)
    <3>1. /\ UNCHANGED <<values_, exposed>> /\ pc[t] = "collect" /\ pc'[t] = "idle"
          /\ \A u \in Threads \ {t} : pc'[u] = pc[u]
      BY <2>9 DEF CollectReturns, Inv, TypeOK
    <3>2. DOMAIN exposed[t] = Present
      BY <2>9 DEF CollectReturns, Inv, LoopInvariant
    <3>3. Abstract!Deliver(t)
      BY <3>1, <3>2 DEF Abstract!Deliver, Abstract!Leave, Present
    <3> QED BY <3>3 DEF Abstract!Next
  <2>10. CASE UNCHANGED vars
    BY <2>2, <2>10 DEF vars
  <2>11. ASSUME NEW t \in Threads, clear(t) \/ \E k \in Keys : remove(t, k)
         PROVE  [Abstract!Next]_(Abstract!vars)
    BY <2>4, <2>11 DEF clear, remove
  <2> QED BY <2>3, <2>5, <2>6, <2>7, <2>8, <2>9, <2>10, <2>11 DEF Next
<1> QED BY <1>1, <1>2, Invariance, PTL
        DEF Spec, ImplementsSnapshot, Abstract!Spec
=============================================================================
