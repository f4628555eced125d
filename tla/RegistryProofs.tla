--------------------------- MODULE RegistryProofs ---------------------------
(***************************************************************************)
(* Theorems about Registry and RegistryWaiting, for any number of threads, any collectors and  *)
(* any exceptions they throw.                                              *)
(***************************************************************************)
EXTENDS RegistryWaiting, DataLemmas

Scraping(t) == pc[t] # "idle"

\* A collector is called at an index of the list; the loop between two calls
\* is at an index or just behind the last one.
IndexInRange ==
  \A t \in Threads :
    /\ pc[t] = "loop" => next[t] <= Len(collectors_) + 1
    /\ pc[t] = "collecting" => next[t] <= Len(collectors_)

\* Every family collected comes from a collector the loop has passed.
FamiliesArePassed ==
  \A t \in Threads : Scraping(t) =>
    \A j \in DOMAIN metrics[t] : \E l \in DOMAIN collectors_ :
      l < next[t] /\ collectors_[l] = metrics[t][j]

RegisteredAreAlive == Registered \subseteq alive

\* The inductive invariant: the lock is what makes IndexInRange and
\* FamiliesArePassed survive the steps of other threads, through
\* OwnersAreScraping; registering once is what makes a collector that is
\* unregistered safe to destroy.
Inv ==
  /\ TypeOK
  /\ OwnersAreScraping
  /\ RegisteredOnce
  /\ RegisteredAreAlive
  /\ GlobalCollector \in alive
  /\ IndexInRange
  /\ FamiliesArePassed

-----------------------------------------------------------------------------
\* The steps that leave the list alone, by what they change of a scrape.

LEMMA InitInv == Init => Inv
<1> SUFFICES ASSUME Init PROVE Inv
  OBVIOUS
<1> USE RegistryAssumption DEF Init
<1>1. collectors_ \in Seq(Collectors) /\ Len(collectors_) = 1
      /\ collectors_[1] = GlobalCollector /\ DOMAIN collectors_ = 1..1
  OBVIOUS
<1>2. TypeOK
  BY <1>1 DEF TypeOK, PcValues
<1>3. RegisteredOnce
  BY <1>1 DEF RegisteredOnce, IsInjective
<1>4. RegisteredAreAlive
  BY <1>1 DEF RegisteredAreAlive, Registered, ToSet
<1> QED BY <1>1, <1>2, <1>3, <1>4
        DEF Inv, OwnersAreScraping, IndexInRange, FamiliesArePassed, Scraping

\* While a thread holds the lock exclusively nobody scrapes, so whatever it
\* does to the list, only the facts about the list itself are at stake.
LEMMA ExclusiveStep ==
  ASSUME Inv, CanLock,
         collectors_' \in Seq(Collectors),
         IsInjective(collectors_'), ToSet(collectors_') \subseteq alive,
         UNCHANGED <<owners, alive, pc, next, metrics, collection_errors>>
  PROVE  Inv'
<1>1. \A u \in Threads : ~Scraping(u)
  BY DEF Inv, OwnersAreScraping, CanLock, Scraping
<1>2. TypeOK'
  BY DEF Inv, TypeOK
<1>3. IndexInRange' /\ FamiliesArePassed'
  BY <1>1 DEF IndexInRange, FamiliesArePassed, Scraping
<1>4. OwnersAreScraping'
  BY DEF Inv, OwnersAreScraping
<1>5. RegisteredOnce' /\ RegisteredAreAlive' /\ (GlobalCollector \in alive)'
  BY DEF Inv, RegisteredOnce, RegisteredAreAlive, Registered
<1> QED BY <1>2, <1>3, <1>4, <1>5 DEF Inv

LEMMA RegisterInv ==
  ASSUME Inv, NEW t \in Threads, NEW c \in Collectors, register_collector(t, c)
  PROVE  Inv'
<1> USE DEF register_collector
<1>1. CASE UNCHANGED collectors_
  BY <1>1, ExclusiveStep
     DEF Inv, TypeOK, RegisteredOnce, RegisteredAreAlive, Registered
<1>2. CASE ~Found(c) /\ collectors_' = Append(collectors_, c)
  <2>1. collectors_ \in Seq(Collectors) /\ IsInjective(collectors_)
    BY DEF Inv, TypeOK, RegisteredOnce
  <2>2. c \notin ToSet(collectors_)
    BY <1>2 DEF Found, Registered
  <2>3. /\ collectors_' \in Seq(Collectors)
        /\ IsInjective(collectors_')
        /\ ToSet(collectors_') = ToSet(collectors_) \union {c}
    BY <1>2, <2>1, <2>2, AppendProperties, AppendMembers, AppendNoRepetition
  <2>4. ToSet(collectors_') \subseteq alive
    BY <2>3 DEF Inv, RegisteredAreAlive, Registered
  <2> QED BY <1>2, <2>3, <2>4, ExclusiveStep
<1> QED BY <1>1, <1>2

LEMMA UnregisterInv ==
  ASSUME Inv, NEW t \in Threads, NEW c \in Collectors, unregister_collector(t, c)
  PROVE  Inv'
<1> USE DEF unregister_collector
<1>1. CASE UNCHANGED collectors_
  BY <1>1, ExclusiveStep
     DEF Inv, TypeOK, RegisteredOnce, RegisteredAreAlive, Registered
<1>2. ASSUME NEW i \in DOMAIN collectors_,
             collectors_' = RemoveAt(collectors_, i)
      PROVE  Inv'
  <2>1. /\ collectors_ \in Seq(Collectors) /\ IsInjective(collectors_)
        /\ i \in 1..Len(collectors_)
    BY LenProperties DEF Inv, TypeOK, RegisteredOnce
  <2>2. /\ collectors_' \in Seq(Collectors)
        /\ IsInjective(collectors_')
        /\ ToSet(collectors_') \subseteq ToSet(collectors_)
    BY <1>2, <2>1, RemoveAtElements, RemoveAtNoRepetition
  <2>3. ToSet(collectors_') \subseteq alive
    BY <2>2 DEF Inv, RegisteredAreAlive, Registered
  <2> QED BY <1>2, <2>2, <2>3, ExclusiveStep
<1> QED BY <1>1, <1>2

\* The lifetime of collectors, which the list constrains.
LEMMA LifetimeInv ==
  ASSUME Inv, NEW c \in Collectors, Create(c) \/ Destroy(c)
  PROVE  Inv'
<1>1. UNCHANGED <<collectors_, owners, pc, next, metrics, collection_errors>>
  BY DEF Create, Destroy
<1>2. alive' \subseteq Collectors /\ Registered \subseteq alive'
      /\ GlobalCollector \in alive'
  BY DEF Create, Destroy, Inv, TypeOK, RegisteredAreAlive
<1> QED BY <1>1, <1>2
        DEF Inv, TypeOK, OwnersAreScraping, RegisteredOnce, RegisteredAreAlive,
            Registered, IndexInRange, FamiliesArePassed, Scraping

\* The steps of a scrape leave the list and the collectors' lifetimes alone.
LEMMA ScrapeInv ==
  ASSUME Inv, NEW t \in Threads, CollectBegin(t) \/ CollectStep(t)
  PROVE  Inv'
<1> USE DEF CollectStep
<1>1. UNCHANGED <<collectors_, alive>>
  BY DEF CollectBegin, CallCollector, CollectorReturns, CollectorFails,
         CollectorThrows, CollectReturns, NextCollector, Leave
<1>2. RegisteredOnce' /\ RegisteredAreAlive' /\ (GlobalCollector \in alive)'
  BY <1>1 DEF Inv, RegisteredOnce, RegisteredAreAlive, Registered
<1>3. /\ collectors_ \in Seq(Collectors)
      /\ Len(collectors_) \in Nat
      /\ DOMAIN collectors_ = 1..Len(collectors_)
  BY LenProperties DEF Inv, TypeOK
<1>9. \A u \in Threads : next[u] \in Nat /\ next[u] >= 1 /\ pc[u] \in PcValues
  BY DEF Inv, TypeOK
<1>4. CASE CollectBegin(t)
  <2>1. metrics'[t] = <<>> /\ next'[t] = 1 /\ pc'[t] = "loop"
        /\ \A u \in Threads \ {t} : /\ metrics'[u] = metrics[u]
                                    /\ next'[u] = next[u] /\ pc'[u] = pc[u]
    BY <1>4 DEF CollectBegin, Inv, TypeOK
  <2>2. TypeOK'
    BY <1>1, <1>4 DEF CollectBegin, Inv, TypeOK, PcValues
  <2>3. OwnersAreScraping'
    BY <1>4, <2>1 DEF CollectBegin, Inv, OwnersAreScraping, TypeOK
  <2>4. IndexInRange' /\ FamiliesArePassed'
    BY <1>1, <1>3, <2>1 DEF Inv, IndexInRange, FamiliesArePassed, Scraping
  <2> QED BY <1>2, <2>2, <2>3, <2>4 DEF Inv
<1>5. CASE CallCollector(t)
  <2>1. TypeOK'
    BY <1>1, <1>5 DEF CallCollector, Inv, TypeOK, PcValues
  <2>2. OwnersAreScraping'
    BY <1>5 DEF CallCollector, Inv, OwnersAreScraping, TypeOK
  <2>3. IndexInRange' /\ FamiliesArePassed'
    BY <1>1, <1>3, <1>5
       DEF CallCollector, Inv, TypeOK, IndexInRange, FamiliesArePassed, Scraping
  <2> QED BY <1>2, <2>1, <2>2, <2>3 DEF Inv
<1>6. CASE CollectorReturns(t)
  <2> DEFINE c == collectors_[next[t]]
  <2>0. next[t] \in DOMAIN collectors_ /\ c \in Collectors
    <3>1. next[t] \in 1..Len(collectors_)
      BY <1>3, <1>6, <1>9 DEF CollectorReturns, Inv, IndexInRange
    <3> QED BY <1>3, <3>1, ElementOfSeq DEF c
  <2>1. metrics[t] \in Seq(Collectors)
    BY DEF Inv, TypeOK
  <2>2. metrics'[t] = <<c>> \o metrics[t]
        /\ next'[t] = next[t] + 1 /\ pc'[t] = "loop" /\ pc[t] = "collecting"
        /\ \A u \in Threads \ {t} : /\ metrics'[u] = metrics[u]
                                    /\ next'[u] = next[u] /\ pc'[u] = pc[u]
    BY <1>6 DEF CollectorReturns, NextCollector, Splice, Inv, TypeOK
  <2>3. /\ metrics'[t] \in Seq(Collectors)
        /\ \A j \in DOMAIN metrics'[t] :
             \/ metrics'[t][j] = c
             \/ \E k \in DOMAIN metrics[t] : metrics'[t][j] = metrics[t][k]
    <3> HIDE DEF c
    <3>1. /\ DOMAIN metrics'[t] = 1..(Len(metrics[t]) + 1)
          /\ metrics'[t][1] = c /\ metrics'[t] \in Seq(Collectors)
          /\ \A j \in 2..(Len(metrics[t]) + 1) :
               j - 1 \in DOMAIN metrics[t] /\ metrics'[t][j] = metrics[t][j - 1]
      BY <2>0, <2>1, <2>2, PrependElements
    <3>2. \A j \in DOMAIN metrics'[t] : j = 1 \/ j \in 2..(Len(metrics[t]) + 1)
      BY <2>1, <3>1, LenProperties
    <3> QED BY <3>1, <3>2
  <2>4. TypeOK'
    BY <1>1, <1>6, <2>2, <2>3
       DEF CollectorReturns, NextCollector, Inv, TypeOK, PcValues
  <2>5. OwnersAreScraping'
    BY <1>6, <2>2 DEF CollectorReturns, Inv, OwnersAreScraping, TypeOK
  <2>6. IndexInRange'
    BY <1>1, <1>3, <1>9, <2>0, <2>2 DEF Inv, IndexInRange
  <2>7. FamiliesArePassed'
    <3>1. ASSUME NEW u \in Threads, u # t, Scraping(u)'
          PROVE  \A j \in DOMAIN metrics'[u] : \E l \in DOMAIN collectors_ :
                   l < next'[u] /\ collectors_[l] = metrics'[u][j]
      BY <2>2, <3>1 DEF Inv, FamiliesArePassed, Scraping
    <3>2. ASSUME NEW j \in DOMAIN metrics'[t]
          PROVE  \E l \in DOMAIN collectors_ :
                   l < next'[t] /\ collectors_[l] = metrics'[t][j]
      <4>1. CASE metrics'[t][j] = c
        BY <1>9, <2>0, <2>2, <4>1
      <4>2. ASSUME NEW k \in DOMAIN metrics[t], metrics'[t][j] = metrics[t][k]
            PROVE  \E l \in DOMAIN collectors_ :
                     l < next'[t] /\ collectors_[l] = metrics'[t][j]
        <5>1. PICK l \in DOMAIN collectors_ :
                l < next[t] /\ collectors_[l] = metrics[t][k]
          BY <2>2 DEF Inv, FamiliesArePassed, Scraping
        <5> QED BY <1>3, <1>9, <2>2, <4>2, <5>1
      <4> QED BY <2>3, <4>1, <4>2
    <3> QED BY <1>1, <3>1, <3>2 DEF FamiliesArePassed
  <2> QED BY <1>2, <2>4, <2>5, <2>6, <2>7 DEF Inv
<1>7. CASE CollectorFails(t)
  <2>1. next'[t] = next[t] + 1 /\ pc'[t] = "loop" /\ pc[t] = "collecting"
        /\ \A u \in Threads \ {t} : next'[u] = next[u] /\ pc'[u] = pc[u]
    BY <1>7 DEF CollectorFails, NextCollector, Inv, TypeOK
  <2>2. TypeOK'
    BY <1>1, <1>7, RegistryAssumption
       DEF CollectorFails, NextCollector, Inv, TypeOK, PcValues
  <2>3. OwnersAreScraping'
    BY <1>7, <2>1 DEF CollectorFails, Inv, OwnersAreScraping, TypeOK
  <2>4. IndexInRange'
    BY <1>1, <1>3, <1>9, <2>1 DEF Inv, IndexInRange
  <2>5. FamiliesArePassed'
    <3>1. UNCHANGED metrics
      BY <1>7 DEF CollectorFails
    <3>2. \A u \in Threads : Scraping(u)' => Scraping(u) /\ next[u] <= next'[u]
      BY <1>9, <2>1 DEF Scraping
    <3>3. ASSUME NEW u \in Threads, Scraping(u)', NEW j \in DOMAIN metrics[u]
          PROVE  \E l \in DOMAIN collectors_ :
                   l < next'[u] /\ collectors_[l] = metrics[u][j]
      <4>1. PICK l \in DOMAIN collectors_ :
              l < next[u] /\ collectors_[l] = metrics[u][j]
        BY <3>2, <3>3 DEF Inv, FamiliesArePassed
      <4>2. next'[u] \in Nat
        BY <1>9, <2>1
      <4> QED BY <1>3, <1>9, <3>2, <3>3, <4>1, <4>2
    <3> QED BY <1>1, <3>1, <3>3 DEF FamiliesArePassed
  <2> QED BY <1>2, <2>2, <2>3, <2>4, <2>5 DEF Inv
<1>8. CASE CollectorThrows(t) \/ CollectReturns(t)
  <2>1. /\ owners' = owners \ {t} /\ pc' = [pc EXCEPT ![t] = "idle"]
        /\ UNCHANGED collection_errors
        /\ next' = [next EXCEPT ![t] = 1]
        /\ metrics' \in [Threads -> Seq(Collectors)]
        /\ metrics' = metrics \/ metrics' = [metrics EXCEPT ![t] = <<>>]
    <3>1. metrics \in [Threads -> Seq(Collectors)] /\ <<>> \in Seq(Collectors)
      BY DEF Inv, TypeOK
    <3>3. CASE CollectorThrows(t)
      BY <3>1, <3>3 DEF CollectorThrows, Leave
    <3>4. CASE CollectReturns(t)
      BY <3>1, <3>4 DEF CollectReturns, Leave
    <3> QED BY <1>8, <3>3, <3>4
  <2>2. TypeOK'
    BY <1>1, <2>1 DEF Inv, TypeOK, PcValues
  <2>3. OwnersAreScraping'
    BY <2>1 DEF Inv, OwnersAreScraping, TypeOK
  <2>4. /\ ~Scraping(t)'
        /\ \A u \in Threads \ {t} : pc'[u] = pc[u] /\ metrics'[u] = metrics[u]
    BY <2>1 DEF Scraping, Inv, TypeOK
  <2>5. IndexInRange' /\ FamiliesArePassed'
    BY <1>1, <2>1, <2>4 DEF Inv, IndexInRange, FamiliesArePassed, Scraping
  <2> QED BY <1>2, <2>2, <2>3, <2>5 DEF Inv
<1> QED BY <1>4, <1>5, <1>6, <1>7, <1>8

LEMMA StutterInv == Inv /\ UNCHANGED vars => Inv'
BY DEF vars, Inv, TypeOK, OwnersAreScraping, RegisteredOnce, RegisteredAreAlive,
       Registered, IndexInRange, FamiliesArePassed, Scraping

LEMMA StepInv == Inv /\ [Next]_vars => Inv'
BY RegisterInv, UnregisterInv, LifetimeInv, ScrapeInv, StutterInv DEF Next

\* The inductive invariant holds of every behaviour.
THEOREM Invariance == Spec => []Inv
BY InitInv, StepInv, PTL DEF Spec

-----------------------------------------------------------------------------
(* The properties that the runs check. *)

\* Every variable keeps its type.
THEOREM TypeCorrect == Spec => []TypeOK
<1>1. Inv => TypeOK
  BY DEF Inv
<1> QED BY <1>1, Invariance, PTL

\* collect() owns the mutex while it runs and at no other time, on each of its
\* exits (registry.cc:40-58): no exception leaves the lock behind.
THEOREM LockFollowsScrapes == Spec => []OwnersAreScraping
<1>1. Inv => OwnersAreScraping
  BY DEF Inv
<1> QED BY <1>1, Invariance, PTL

\* However registrations, unregistrations and refusals interleave, the list
\* never holds a collector twice (registry.cc:12-37).
THEOREM NoDoubleRegistration == Spec => []RegisteredOnce
<1>1. Inv => RegisteredOnce
  BY DEF Inv
<1> QED BY <1>1, Invariance, PTL

\* A scrape only calls collectors that are registered and alive, although
\* other threads may destroy what they have unregistered (registry.cc:43-46).
THEOREM NoUseAfterDestruction == Spec => []CollectorInUseIsAlive
<1>1. Inv => CollectorInUseIsAlive
  <2> SUFFICES ASSUME Inv, NEW t \in Threads, pc[t] = "collecting"
               PROVE  /\ next[t] \in DOMAIN collectors_
                      /\ collectors_[next[t]] \in alive
    BY DEF CollectorInUseIsAlive
  <2>1. /\ DOMAIN collectors_ = 1..Len(collectors_)
        /\ next[t] \in Nat /\ next[t] >= 1 /\ next[t] <= Len(collectors_)
    BY LenProperties DEF Inv, TypeOK, IndexInRange
  <2>2. next[t] \in DOMAIN collectors_
    BY <2>1, LenProperties DEF Inv, TypeOK
  <2> QED BY <2>2 DEF Inv, RegisteredAreAlive, Registered, ToSet
<1> QED BY <1>1, Invariance, PTL
-----------------------------------------------------------------------------
(* The order of a response. *)

\* Splicing at the front keeps the order: the collector that has just returned
\* stands behind, in the list, all those whose families it is put in front of.
LEMMA SpliceKeepsOrder ==
  ASSUME Inv, NewestFirst, NEW t \in Threads, CollectorReturns(t)
  PROVE  NewestFirst'
<1> DEFINE n == next[t]
           m == metrics[t]
<1>1. /\ UNCHANGED collectors_
      /\ metrics'[t] = <<collectors_[n]>> \o m
      /\ next'[t] = n + 1 /\ pc[t] = "collecting"
      /\ \A u \in Threads \ {t} : /\ metrics'[u] = metrics[u]
                                  /\ next'[u] = next[u] /\ pc'[u] = pc[u]
  BY DEF CollectorReturns, NextCollector, Splice, Inv, TypeOK
<1>2. /\ DOMAIN collectors_ = 1..Len(collectors_) /\ Len(collectors_) \in Nat
      /\ n \in Nat /\ n >= 1 /\ n <= Len(collectors_)
  BY <1>1, LenProperties DEF Inv, TypeOK, IndexInRange
<1>3. n \in DOMAIN collectors_
  BY <1>2
<1>4. collectors_[n] \in Collectors /\ m \in Seq(Collectors)
  BY <1>2, <1>3, ElementOfSeq DEF Inv, TypeOK
<1> HIDE DEF m, n
<1>5. /\ DOMAIN metrics'[t] = 1..(Len(m) + 1)
      /\ metrics'[t][1] = collectors_[n]
      /\ \A i \in 2..(Len(m) + 1) :
           i - 1 \in DOMAIN m /\ metrics'[t][i] = m[i - 1]
      /\ Len(m) \in Nat
  BY <1>1, <1>4, PrependElements, LenProperties
<1>6. ASSUME NEW i \in DOMAIN metrics'[t], NEW j \in DOMAIN metrics'[t], i < j
      PROVE  \E k, l \in DOMAIN collectors_ :
               /\ l < k /\ k < next'[t]
               /\ collectors_[k] = metrics'[t][i]
               /\ collectors_[l] = metrics'[t][j]
  <2>1. j \in 2..(Len(m) + 1) /\ i \in 1..(Len(m) + 1)
    BY <1>5, <1>6
  <2>2. j - 1 \in DOMAIN m /\ metrics'[t][j] = m[j - 1]
    BY <1>5, <2>1
  <2>3. CASE i = 1
    <3>1. PICK l \in DOMAIN collectors_ : l < n /\ collectors_[l] = m[j - 1]
      BY <1>1, <2>2 DEF Inv, FamiliesArePassed, Scraping, m, n
    <3>2. n < next'[t] /\ metrics'[t][i] = collectors_[n]
      BY <1>1, <1>2, <1>5, <2>3
    <3> QED BY <1>3, <2>2, <3>1, <3>2
  <2>4. CASE i # 1
    <3>1. i \in 2..(Len(m) + 1)
      BY <2>1, <2>4
    <3>2. i - 1 \in DOMAIN m /\ metrics'[t][i] = m[i - 1] /\ i - 1 < j - 1
      BY <1>5, <1>6, <2>1, <3>1
    <3>3. PICK k, l \in DOMAIN collectors_ :
            /\ l < k /\ k < n
            /\ collectors_[k] = m[i - 1] /\ collectors_[l] = m[j - 1]
      BY <1>1, <2>2, <3>2 DEF NewestFirst, m, n
    <3>4. k < next'[t]
      BY <1>1, <1>2, <3>3
    <3> QED BY <2>2, <3>2, <3>3, <3>4
  <2> QED BY <2>3, <2>4
<1>7. ASSUME NEW u \in Threads, u # t, pc'[u] # "idle",
             NEW i \in DOMAIN metrics'[u], NEW j \in DOMAIN metrics'[u], i < j
      PROVE  \E k, l \in DOMAIN collectors_ :
               /\ l < k /\ k < next'[u]
               /\ collectors_[k] = metrics'[u][i]
               /\ collectors_[l] = metrics'[u][j]
  BY <1>1, <1>7 DEF NewestFirst
<1>8. collectors_' = collectors_
  BY <1>1
<1> QED BY <1>6, <1>7, <1>8 DEF NewestFirst

LEMMA OrderStep == Inv /\ NewestFirst /\ [Next]_vars => NewestFirst'
<1> SUFFICES ASSUME Inv, NewestFirst, [Next]_vars PROVE NewestFirst'
  OBVIOUS
<1>1. ASSUME owners = {}, UNCHANGED pc
      PROVE  NewestFirst'
  BY <1>1 DEF Inv, OwnersAreScraping, NewestFirst
<1>2. ASSUME UNCHANGED <<collectors_, metrics, next>>,
             NEW t \in Threads, pc[t] # "idle",
             pc' = [pc EXCEPT ![t] = "collecting"]
      PROVE  NewestFirst'
  BY <1>2 DEF Inv, TypeOK, NewestFirst
<1>3. ASSUME NEW t \in Threads, CollectBegin(t)
      PROVE  NewestFirst'
  <2>1. UNCHANGED collectors_ /\ metrics'[t] = <<>>
        /\ \A u \in Threads \ {t} : /\ metrics'[u] = metrics[u]
                                    /\ next'[u] = next[u] /\ pc'[u] = pc[u]
    BY <1>3 DEF CollectBegin, Inv, TypeOK
  <2>2. DOMAIN metrics'[t] = {}
    BY <2>1
  <2> QED BY <2>1, <2>2 DEF NewestFirst
<1>4. ASSUME NEW t \in Threads, CollectorFails(t)
      PROVE  NewestFirst'
  <2>1. /\ UNCHANGED <<collectors_, metrics>>
        /\ next'[t] = next[t] + 1 /\ pc[t] # "idle"
        /\ \A u \in Threads \ {t} : next'[u] = next[u] /\ pc'[u] = pc[u]
        /\ \A u \in Threads : next[u] \in Nat
        /\ DOMAIN collectors_ \subseteq Nat
    BY <1>4, LenProperties DEF CollectorFails, NextCollector, Inv, TypeOK
  <2>2. \A u \in Threads : pc'[u] # "idle" => pc[u] # "idle"
    BY <2>1
  <2>3. \A u \in Threads, k \in DOMAIN collectors_ : k < next[u] => k < next'[u]
    BY <2>1
  <2> QED BY <2>1, <2>2, <2>3 DEF NewestFirst
<1>5. ASSUME NEW t \in Threads, CollectorThrows(t) \/ CollectReturns(t)
      PROVE  NewestFirst'
  <2>1. UNCHANGED collectors_ /\ pc'[t] = "idle"
        /\ \A u \in Threads \ {t} : /\ metrics'[u] = metrics[u]
                                    /\ pc'[u] = pc[u] /\ next'[u] = next[u]
    BY <1>5 DEF CollectorThrows, CollectReturns, Leave, Inv, TypeOK
  <2> QED BY <2>1 DEF NewestFirst
<1>6. ASSUME UNCHANGED <<collectors_, pc, metrics, next>>
      PROVE  NewestFirst'
  BY <1>6 DEF NewestFirst
<1>7. ASSUME NEW t \in Threads, NEW c \in Collectors,
             register_collector(t, c) \/ unregister_collector(t, c)
      PROVE  NewestFirst'
  BY <1>1, <1>7 DEF register_collector, unregister_collector, CanLock
<1>8. ASSUME NEW c \in Collectors, Create(c) \/ Destroy(c)
      PROVE  NewestFirst'
  BY <1>6, <1>8 DEF Create, Destroy
<1>9. ASSUME NEW t \in Threads, CallCollector(t)
      PROVE  NewestFirst'
  BY <1>2, <1>9 DEF CallCollector
<1>10. CASE UNCHANGED vars
  BY <1>6, <1>10 DEF vars
<1> QED BY <1>3, <1>4, <1>5, <1>7, <1>8, <1>9, <1>10, SpliceKeepsOrder
        DEF Next, CollectStep

\* The families in a response are in the reverse order of registration, also
\* when collectors between them failed (registry.cc:43-50).
THEOREM ResponseOrder == Spec => []NewestFirst
<1>1. Init => NewestFirst
  BY DEF Init, NewestFirst
<1>2. Inv /\ Inv' /\ NewestFirst /\ [Next]_vars => NewestFirst'
  BY OrderStep
<1> QED BY <1>1, <1>2, Invariance, PTL DEF Spec
-----------------------------------------------------------------------------
(* The registry implements SnapshotCollection. *)

\* What a collector that is being called has to do with those called before:
\* because no collector is listed twice, it is none of them.
LEMMA CalledNext ==
  ASSUME Inv, NEW t \in Threads, pc[t] = "collecting", UNCHANGED collectors_,
         next'[t] = next[t] + 1
  PROVE  LET c == collectors_[next[t]]
         IN  /\ c \in Registered /\ c \in Collectors
             /\ c \notin Called(t)
             /\ c \notin ToSet(metrics[t])
             /\ Called(t)' = Called(t) \union {c}
<1> DEFINE c == collectors_[next[t]]
<1>1. /\ DOMAIN collectors_ = 1..Len(collectors_) /\ Len(collectors_) \in Nat
      /\ next[t] \in Nat /\ next[t] >= 1 /\ next[t] <= Len(collectors_)
  BY LenProperties DEF Inv, TypeOK, IndexInRange
<1>2. next[t] \in DOMAIN collectors_
  BY <1>1
<1>3. c \in Registered /\ c \in Collectors
  BY <1>2, ElementOfSeq, <1>1 DEF Registered, ToSet, Inv, TypeOK
<1>4. c \notin Called(t)
  BY <1>1, <1>2 DEF Called, Inv, RegisteredOnce, IsInjective
<1>5. ToSet(metrics[t]) \subseteq Called(t)
  BY DEF Inv, FamiliesArePassed, Scraping, Called, ToSet
<1>6. Called(t)' = Called(t) \union {c}
  <2>1. \A k \in DOMAIN collectors_ : k < next'[t] <=> k < next[t] \/ k = next[t]
    BY <1>1
  <2> QED BY <1>2, <2>1 DEF Called
<1> QED BY <1>3, <1>4, <1>5, <1>6

\* The families collected are those of collectors the loop has passed, and at
\* the end of the loop it has passed all of them.
LEMMA CalledAtEnd ==
  ASSUME Inv, NEW t \in Threads, pc[t] = "loop", AtEnd(t)
  PROVE  Registered \ Failed(t) = ToSet(metrics[t])
<1>1. Called(t) = Registered
  <2>1. \A k \in DOMAIN collectors_ : k < next[t]
    <3>1. DOMAIN collectors_ = 1..Len(collectors_) /\ Len(collectors_) \in Nat
          /\ next[t] \in Nat
      BY LenProperties DEF Inv, TypeOK
    <3> QED BY <3>1 DEF AtEnd
  <2> QED BY <2>1 DEF Called, Registered, ToSet
<1>2. ToSet(metrics[t]) \subseteq Called(t)
  BY DEF Inv, FamiliesArePassed, Scraping, Called, ToSet
<1> QED BY <1>1, <1>2 DEF Failed

\* A step of the list or of the collectors' lifetimes is, for the scrapes of
\* the abstract specification, a change of the members or nothing.
LEMMA OutsideScrapes ==
  ASSUME Inv, collectors_' \in Seq(Collectors),
         UNCHANGED <<pc, next, metrics, collection_errors>>,
         collectors_' = collectors_ \/ owners = {}
  PROVE  [Abstract!Next]_(Abstract!vars)
<1>1. CASE collectors_' = collectors_
  BY <1>1 DEF Abstract!vars, Registered, Failed, Called
<1>2. CASE owners = {}
  <2>1. \A t \in Threads : pc[t] = "idle" /\ pc'[t] = "idle"
    BY <1>2 DEF Inv, OwnersAreScraping
  <2>2. Registered' \in SUBSET Collectors
    <3>1. \A i \in DOMAIN collectors_' : collectors_'[i] \in Collectors
      BY LenProperties, ElementOfSeq
    <3> QED BY <3>1 DEF Registered, ToSet
  <2>3. Abstract!Change(Registered')
    BY <2>1 DEF Abstract!Change, Failed
  <2> QED BY <2>2, <2>3 DEF Abstract!Next
<1> QED BY <1>1, <1>2

\* Each step of a scrape is a step of the abstract scrape or nothing.
LEMMA InsideScrapes ==
  ASSUME Inv, NEW t \in Threads, CollectBegin(t) \/ CollectStep(t)
  PROVE  [Abstract!Next]_(Abstract!vars)
<1> DEFINE c == collectors_[next[t]]
<1>1. UNCHANGED collectors_ /\ Registered' = Registered
  BY DEF CollectBegin, CollectStep, CallCollector, CollectorReturns,
         CollectorFails, CollectorThrows, CollectReturns, NextCollector,
         Leave, Registered
<1>2. /\ \A u \in Threads : next[u] \in Nat
      /\ pc \in [Threads -> PcValues] /\ next \in [Threads -> Nat \ {0}]
      /\ metrics \in [Threads -> Seq(Collectors)]
  BY DEF Inv, TypeOK
<1>3. ASSUME NEW u \in Threads, next'[u] = next[u], pc'[u] = pc[u],
             metrics'[u] = metrics[u]
      PROVE  Failed(u)' = Failed(u)
  BY <1>1, <1>3 DEF Failed, Called
<1>4. CASE CollectBegin(t)
  <2>1. pc[t] = "idle" /\ pc'[t] = "loop" /\ next'[t] = 1 /\ metrics'[t] = <<>>
        /\ UNCHANGED collection_errors
        /\ \A u \in Threads \ {t} : /\ metrics'[u] = metrics[u]
                                    /\ next'[u] = next[u] /\ pc'[u] = pc[u]
    BY <1>2, <1>4 DEF CollectBegin
  <2>2. Failed(t) = {} /\ Failed(t)' = {} /\ ToSet(metrics[t])' = {}
    <3>1. \A k \in DOMAIN collectors_ : ~(k < 1)
      BY LenProperties DEF Inv, TypeOK
    <3>2. Called(t)' = {}
      BY <1>1, <2>1, <3>1 DEF Called
    <3> QED BY <2>1, <3>2 DEF Failed, ToSet
  <2>3. \A u \in Threads : Failed(u)' = Failed(u)
    BY <1>3, <2>1, <2>2
  <2>4. Abstract!Open(t)
    BY <1>1, <2>1, <2>2, <2>3 DEF Abstract!Open
  <2> QED BY <2>4 DEF Abstract!Next
<1>5. CASE CallCollector(t)
  <2>1. UNCHANGED <<collectors_, next, metrics, collection_errors>>
        /\ \A u \in Threads : pc'[u] = "idle" <=> pc[u] = "idle"
    BY <1>2, <1>5 DEF CallCollector
  <2>2. \A u \in Threads : Failed(u)' = Failed(u)
    BY <2>1 DEF Failed, Called
  <2> QED BY <1>1, <2>1, <2>2 DEF Abstract!vars
<1>6. CASE CollectorReturns(t)
  <2>1. pc[t] = "collecting" /\ pc'[t] = "loop" /\ next'[t] = next[t] + 1
        /\ metrics'[t] = <<c>> \o metrics[t]
        /\ UNCHANGED collection_errors
        /\ \A u \in Threads \ {t} : /\ metrics'[u] = metrics[u]
                                    /\ next'[u] = next[u] /\ pc'[u] = pc[u]
    BY <1>2, <1>6 DEF CollectorReturns, NextCollector, Splice
  <2>2. c \in Collectors /\ c \notin Called(t)
        /\ Called(t)' = Called(t) \union {c}
    BY <1>1, <2>1, CalledNext
  <2>3. ToSet(metrics'[t]) = {c} \union ToSet(metrics[t])
    <3> HIDE DEF c
    <3> QED BY <1>2, <2>1, <2>2, PrependElements
  <2>4. Failed(t)' = Failed(t)
    BY <2>1, <2>2, <2>3 DEF Failed
  <2>5. \A u \in Threads : Failed(u)' = Failed(u)
    BY <1>3, <2>1, <2>4
  <2>6. \A u \in Threads : pc'[u] = "idle" <=> pc[u] = "idle"
    BY <2>1
  <2>7. \A u \in Threads : pc[u] = "idle" => metrics'[u] = metrics[u]
    BY <2>1
  <2> QED BY <1>1, <2>1, <2>5, <2>6, <2>7 DEF Abstract!vars
<1>7. CASE CollectorFails(t)
  <2>1. pc[t] = "collecting" /\ pc'[t] = "loop" /\ next'[t] = next[t] + 1
        /\ UNCHANGED metrics /\ collection_errors' = collection_errors + 1
        /\ \A u \in Threads \ {t} : next'[u] = next[u] /\ pc'[u] = pc[u]
    BY <1>2, <1>7 DEF CollectorFails, NextCollector
  <2>2. c \in Collectors /\ c \in Registered /\ c \notin Called(t)
        /\ c \notin ToSet(metrics[t])
        /\ Called(t)' = Called(t) \union {c}
    BY <1>1, <2>1, CalledNext
  <2>3. Failed(t)' = Failed(t) \union {c} /\ c \notin Failed(t)
    BY <2>1, <2>2 DEF Failed
  <2>4. \A u \in Threads \ {t} : Failed(u)' = Failed(u)
    BY <1>3, <2>1
  <2>5. \A u \in Threads : pc'[u] = "idle" <=> pc[u] = "idle"
    BY <2>1
  <2>6. Abstract!Fail(t, c)
    <3> HIDE DEF c
    <3> QED BY <1>1, <2>1, <2>2, <2>3, <2>4, <2>5 DEF Abstract!Fail
  <2> QED BY <2>2, <2>6 DEF Abstract!Next
<1>8. CASE CollectorThrows(t) \/ CollectReturns(t)
  <2>1. pc[t] # "idle" /\ pc'[t] = "idle" /\ UNCHANGED collection_errors
        /\ \A u \in Threads \ {t} : /\ metrics'[u] = metrics[u]
                                    /\ pc'[u] = pc[u] /\ next'[u] = next[u]
    BY <1>2, <1>8 DEF CollectorThrows, CollectReturns, Leave
  <2>2. Failed(t)' = {} /\ \A u \in Threads \ {t} : Failed(u)' = Failed(u)
    BY <1>3, <2>1 DEF Failed
  <2>3. ASSUME CollectorThrows(t)
        PROVE  Abstract!Abort(t)
    <3>1. ToSet(metrics'[t]) = {}
      BY <1>2, <2>3 DEF CollectorThrows, ToSet
    <3> QED BY <1>1, <2>1, <2>2, <3>1 DEF Abstract!Abort, Abstract!Leave
  <2>4. ASSUME CollectReturns(t)
        PROVE  Abstract!Deliver(t)
    <3>1. UNCHANGED metrics /\ pc[t] = "loop" /\ AtEnd(t)
      BY <2>4 DEF CollectReturns
    <3>2. ToSet(metrics'[t]) = Registered \ Failed(t)
      BY <3>1, CalledAtEnd
    <3> QED BY <1>1, <2>1, <2>2, <3>2 DEF Abstract!Deliver, Abstract!Leave
  <2> QED BY <1>8, <2>3, <2>4 DEF Abstract!Next
<1> QED BY <1>4, <1>5, <1>6, <1>7, <1>8 DEF CollectStep

\* A scrape of the registry is a scrape of one instant: it delivers exactly
\* the collectors registered when it took the lock but for those that threw a
\* CollectionException, each counted once, for any number of concurrent
\* scrapes and registrations (registry.cc:39-58).
THEOREM RegistryImplementsSnapshot == Spec => ImplementsSnapshot
<1>1. Init => Abstract!Init
  <2> SUFFICES ASSUME Init PROVE Abstract!Init
    OBVIOUS
  <2>1. Registered \in SUBSET Collectors
    BY RegistryAssumption DEF Init, Registered, ToSet
  <2>2. \A t \in Threads : pc[t] = "idle" /\ ToSet(metrics[t]) = {}
    BY DEF Init, ToSet
  <2>3. collection_errors = 0
    BY DEF Init
  <2> QED BY <2>1, <2>2, <2>3 DEF Abstract!Init, Failed
<1>2. Inv /\ Inv' /\ [Next]_vars => [Abstract!Next]_(Abstract!vars)
  <2> SUFFICES ASSUME Inv, Inv', [Next]_vars
               PROVE  [Abstract!Next]_(Abstract!vars)
    OBVIOUS
  <2>1. collectors_' \in Seq(Collectors)
    BY DEF Inv, TypeOK
  <2>2. ASSUME NEW c \in Collectors, Create(c) \/ Destroy(c)
        PROVE  [Abstract!Next]_(Abstract!vars)
    BY <2>1, <2>2, OutsideScrapes DEF Create, Destroy
  <2>3. ASSUME NEW t \in Threads, NEW c \in Collectors,
               register_collector(t, c) \/ unregister_collector(t, c)
        PROVE  [Abstract!Next]_(Abstract!vars)
    BY <2>1, <2>3, OutsideScrapes
       DEF register_collector, unregister_collector, CanLock
  <2>4. CASE UNCHANGED vars
    BY <2>1, <2>4, OutsideScrapes DEF vars
  <2> QED BY <2>2, <2>3, <2>4, InsideScrapes DEF Next
<1> QED BY <1>1, <1>2, Invariance, PTL
        DEF Spec, ImplementsSnapshot, Abstract!Spec

-----------------------------------------------------------------------------
(* The registry with the threads that wait for its mutex: either policy of  *)
(* the mutex, collectors that call back into the registry or not.           *)

WaitingTypeOK == waiting \in [Threads -> Calls \union {Nothing}]

LEMMA CallsProperty ==
  /\ \A f \in Calls : f[2] \in Collectors /\ f # Nothing
  /\ \A c \in DOMAIN CallBack : CallBack[c] \in Calls
BY WaitingAssumption DEF Calls

LEMMA WaitingInit == WInit => WaitingTypeOK
BY DEF WInit, WaitingTypeOK

\* Only a call that begins to wait, or is granted the mutex, changes `waiting`.
LEMMA WaitingStep == WaitingTypeOK /\ [WNext]_allVars => WaitingTypeOK'
<1> SUFFICES ASSUME WaitingTypeOK, [WNext]_allVars PROVE WaitingTypeOK'
  OBVIOUS
<1> USE DEF WaitingTypeOK
<1>1. CASE UNCHANGED waitVars
  BY <1>1 DEF waitVars
<1>2. ASSUME NEW t \in Threads, Granted(t) PROVE WaitingTypeOK'
  BY <1>2 DEF Granted
<1>3. ASSUME NEW t \in Threads, NEW f \in Calls, CallWaits(t, f)
      PROVE  WaitingTypeOK'
  BY <1>3 DEF CallWaits
<1>4. ASSUME NEW t \in Threads, CallsBack(t) PROVE WaitingTypeOK'
  BY <1>4, CallsProperty DEF CallsBack
<1> QED BY <1>1, <1>2, <1>3, <1>4
        DEF WNext, allVars, ClientDestroys, ScrapeBegins, ScrapeStep, CallLocks

LEMMA WaitingTypeCorrect == WSpec => []WaitingTypeOK
BY WaitingInit, WaitingStep, PTL DEF WSpec

\* A call that is made at once, or granted later, is a call of Registry;
\* waiting is not a step of it.
LEMMA WaitingStepIsRegistryStep ==
  WaitingTypeOK /\ [WNext]_allVars => [Next]_vars
<1> SUFFICES ASSUME WaitingTypeOK, WNext PROVE [Next]_vars
  BY DEF allVars
<1>1. ASSUME NEW t \in Threads, NEW f \in Calls, Body(t, f) PROVE Next
  BY <1>1, CallsProperty DEF Body, Next
<1>2. ASSUME NEW t \in Threads, Granted(t) PROVE Next
  <2>1. waiting[t] \in Calls
    BY <1>2 DEF Granted, Waits, WaitingTypeOK
  <2> QED BY <1>1, <1>2, <2>1 DEF Granted
<1>3. ASSUME NEW t \in Threads, NEW f \in Calls,
             CallLocks(t, f) \/ CallWaits(t, f) \/ CallsBack(t)
      PROVE  [Next]_vars
  BY <1>1, <1>3 DEF CallLocks, CallWaits, CallsBack
<1>4. ASSUME NEW t \in Threads, CallsBack(t) PROVE [Next]_vars
  BY <1>4 DEF CallsBack
<1>5. ASSUME NEW t \in Threads, ScrapeBegins(t) \/ ScrapeStep(t) PROVE Next
  BY <1>5 DEF ScrapeBegins, ScrapeStep, Next
<1>6. ASSUME NEW c \in Collectors, Create(c) \/ ClientDestroys(c) PROVE Next
  BY <1>6 DEF ClientDestroys, Next
<1> QED BY <1>2, <1>3, <1>4, <1>5, <1>6 DEF WNext

\* Waiting for the mutex, its policy, and collectors that call back into the
\* registry (registry.cc:22, 31, 40) add no behaviour to the registry: what a
\* thread sees of it is a behaviour of Registry, so that each theorem about
\* Registry holds here too.
THEOREM WaitingIsRegistry == WSpec => Spec
<1>1. WInit => Init
  BY DEF WInit
<1> QED BY <1>1, WaitingStepIsRegistryStep, WaitingTypeCorrect, PTL
        DEF WSpec, Spec

\* A scrape only ever calls a collector that is alive, although calls wait
\* for the mutex while collectors come and go (registry.cc:30-44).
THEOREM WaitingIsSafe == WSpec => []CollectorInUseIsAlive
BY WaitingIsRegistry, NoUseAfterDestruction, PTL

\* Scrapes deliver the collectors of one instant, whoever waits meanwhile
\* (registry.cc:39-51).
THEOREM WaitingImplementsSnapshot == WSpec => ImplementsSnapshot
BY WaitingIsRegistry, RegistryImplementsSnapshot

\* A collector whose collect() calls back into the registry stops it for good:
\* its thread waits for ever, as it is one of the owners it waits for, and nobody
\* registers or unregisters a collector any more (registry.cc:22, 31, 40-44).
THEOREM SelfWaitIsForEver ==
  WSpec => [][\A t \in Threads :
                Reentered(t) => Reentered(t)' /\ collectors_' = collectors_]_allVars
<1>1. OwnersAreScraping /\ WaitingTypeOK /\ TypeOK /\ [WNext]_allVars =>
        [\A t \in Threads :
           Reentered(t) => Reentered(t)' /\ collectors_' = collectors_]_allVars
  <2> SUFFICES ASSUME OwnersAreScraping, WaitingTypeOK, TypeOK, WNext,
                      NEW t \in Threads, Reentered(t)
               PROVE  Reentered(t)' /\ collectors_' = collectors_
    OBVIOUS
  <2>1. /\ pc \in [Threads -> PcValues] /\ waiting \in [Threads -> Calls \union {Nothing}]
        /\ pc[t] = "collecting" /\ waiting[t] # Nothing /\ ~CanLock
    BY DEF Reentered, Waits, OwnersAreScraping, CanLock, TypeOK, WaitingTypeOK
  <2>2. ASSUME NEW u \in Threads, NEW f \in Calls
        PROVE  ~Body(u, f)
    BY <2>1 DEF Body, register_collector, unregister_collector
  <2>3. ASSUME NEW u \in Threads,
               \/ \E f \in Calls : CallLocks(u, f) \/ CallWaits(u, f)
               \/ CallsBack(u) \/ Granted(u)
        PROVE  pc'[t] = pc[t] /\ waiting'[t] = waiting[t] /\ collectors_' = collectors_
    <3>1. ~Granted(u) /\ \A f \in Calls : ~CallLocks(u, f)
      BY <2>1, <2>2 DEF Granted, Waits, CallLocks
    <3>2. u # t /\ UNCHANGED vars /\ \E f : waiting' = [waiting EXCEPT ![u] = f]
      BY <2>1, <2>3, <3>1 DEF CallWaits, CallsBack, Waits
    <3> QED BY <2>1, <3>2 DEF vars
  <2>4. ASSUME NEW u \in Threads, ScrapeBegins(u) \/ ScrapeStep(u)
        PROVE  pc'[t] = pc[t] /\ waiting'[t] = waiting[t] /\ collectors_' = collectors_
    <3>1. u # t /\ waiting' = waiting
      BY <2>1, <2>4 DEF ScrapeBegins, ScrapeStep, Waits, waitVars
    <3>2. CollectBegin(u) \/ CollectStep(u)
      BY <2>4 DEF ScrapeBegins, ScrapeStep
    <3>3. collectors_' = collectors_ /\ \E p : pc' = [pc EXCEPT ![u] = p]
      BY <3>2 DEF CollectBegin, CollectStep, CallCollector, CollectorReturns, CollectorFails,
         CollectorThrows, CollectReturns, NextCollector, Leave
    <3> QED BY <2>1, <3>1, <3>3
  <2>5. ASSUME NEW c \in Collectors,
               (Create(c) /\ UNCHANGED waitVars) \/ ClientDestroys(c)
        PROVE  pc'[t] = pc[t] /\ waiting'[t] = waiting[t] /\ collectors_' = collectors_
    BY <2>5 DEF Create, Destroy, ClientDestroys, waitVars
  <2>6. pc'[t] = pc[t] /\ waiting'[t] = waiting[t] /\ collectors_' = collectors_
    BY <2>3, <2>4, <2>5 DEF WNext
  <2> QED BY <2>6 DEF Reentered, Waits
<1>2. WSpec => []OwnersAreScraping /\ []TypeOK
  BY WaitingIsRegistry, LockFollowsScrapes, TypeCorrect, PTL
<1> QED BY <1>1, <1>2, WaitingTypeCorrect, PTL DEF WSpec
=============================================================================
