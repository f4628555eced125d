--------------------------- MODULE CollectorProofs ---------------------------
(***************************************************************************)
(* Theorems about Collector and Program, for any number of threads and any *)
(* metrics, whichever of them are refused, fail in their constructor or    *)
(* have a limited lifetime.                                                *)
(***************************************************************************)
EXTENDS Program, DataLemmas

Listed == ToSet(metrics_)

\* The mutex is owned by the scrapes, also by those that went wrong.
OwnersAreScraping ==
  owners = {t \in Threads : pc[t] \in {"collecting", "undefined"}}

\* A metric under construction is in the list before it is complete.
BaseIsListed ==
  \A t \in Threads : pc[t] = "constructing" =>
    object[t] \in Metrics /\ object[t] \in Listed

\* What is in the list was put there by a constructor, once.
ListedWereBuilt == \A m \in Metrics : m \in Listed => phase[m] # "absent"

\* The inductive invariant.
Inv ==
  /\ TypeOK
  /\ OwnersAreScraping
  /\ BaseIsListed
  /\ ListedWereBuilt
  /\ LiveRegisteredOnce
  /\ ScrapeIsPrefix

-----------------------------------------------------------------------------

LEMMA InitInv == Init => Inv
<1> SUFFICES ASSUME Init PROVE Inv
  OBVIOUS
<1> USE DEF Init
<1>1. TypeOK
  BY DEF TypeOK, Phases, PcValues
<1>2. DOMAIN metrics_ = {} /\ Listed = {}
  BY DEF Listed, ToSet
<1>3. OwnersAreScraping /\ BaseIsListed /\ ListedWereBuilt /\ ScrapeIsPrefix
  BY <1>2 DEF OwnersAreScraping, BaseIsListed, ListedWereBuilt, ScrapeIsPrefix
<1>4. LiveRegisteredOnce
  BY <1>2 DEF LiveRegisteredOnce, IsInjective, Listed
<1> QED BY <1>1, <1>3, <1>4 DEF Inv

\* Registration, the one step that changes the list.
LEMMA RegistrationAppends ==
  ASSUME Inv, NEW t \in Threads, NEW m \in Metrics, ConstructBase(t, m)
  PROVE  /\ metrics_' \in Seq(Metrics)
         /\ metrics_' = Append(metrics_, m)
         /\ Listed' = Listed \union {m}
         /\ IsInjective(metrics_')
         /\ IsPrefix(metrics_, metrics_')
         /\ \A u \in Threads : pc[u] \notin {"collecting", "undefined"}
<1>1. metrics_ \in Seq(Metrics) /\ IsInjective(metrics_)
  BY DEF Inv, TypeOK, LiveRegisteredOnce
<1>2. m \notin ToSet(metrics_)
  BY DEF ConstructBase, Inv, ListedWereBuilt, Listed
<1>3. metrics_' = Append(metrics_, m) /\ owners = {}
  BY DEF ConstructBase, register_metric, CanLock
<1>4. metrics_' \in Seq(Metrics)
  BY <1>1, <1>3, AppendProperties
<1>5. Listed' = Listed \union {m}
  BY <1>1, <1>3, AppendMembers DEF Listed
<1>6. IsInjective(metrics_')
  BY <1>1, <1>2, <1>3, AppendNoRepetition
<1>7. IsPrefix(metrics_, metrics_')
  BY <1>1, <1>3, AppendKeepsPrefix
<1>8. \A u \in Threads : pc[u] \notin {"collecting", "undefined"}
  BY <1>3 DEF Inv, OwnersAreScraping
<1> QED BY <1>3, <1>4, <1>5, <1>6, <1>7, <1>8

LEMMA ConstructBaseInv ==
  ASSUME Inv, NEW t \in Threads, NEW m \in Metrics, ConstructBase(t, m)
  PROVE  Inv'
<1>1. /\ metrics_' \in Seq(Metrics)
      /\ Listed' = Listed \union {m}
      /\ IsInjective(metrics_')
      /\ \A u \in Threads : pc[u] \notin {"collecting", "undefined"}
  BY RegistrationAppends
<1>2. /\ UNCHANGED <<owners, next, families>>
      /\ phase' = [phase EXCEPT ![m] = "base"]
      /\ pc' = [pc EXCEPT ![t] = "constructing"]
      /\ object' = [object EXCEPT ![t] = m]
  BY DEF ConstructBase
<1>3. /\ pc'[t] = "constructing" /\ object'[t] = m /\ phase'[m] = "base"
      /\ \A u \in Threads \ {t} : pc'[u] = pc[u] /\ object'[u] = object[u]
      /\ \A x \in Metrics \ {m} : phase'[x] = phase[x]
  BY <1>2 DEF Inv, TypeOK
<1>4. TypeOK'
  BY <1>1, <1>2 DEF Inv, TypeOK, Phases, PcValues
<1>5. OwnersAreScraping'
  BY <1>1, <1>2, <1>3 DEF Inv, OwnersAreScraping
<1>6. BaseIsListed'
  BY <1>1, <1>3 DEF Inv, BaseIsListed
<1>7. ListedWereBuilt'
  BY <1>1, <1>3 DEF Inv, ListedWereBuilt
<1>8. LiveRegisteredOnce'
  <2>1. m \notin BadNames
    BY DEF ConstructBase
  <2> QED BY <1>1, <1>3, <2>1 DEF Inv, LiveRegisteredOnce, Listed
<1>9. ScrapeIsPrefix'
  BY <1>1, <1>3 DEF ScrapeIsPrefix
<1> QED BY <1>4, <1>5, <1>6, <1>7, <1>8, <1>9 DEF Inv

\* The steps of a metric's lifetime that leave the list alone.
LEMMA LifetimeInv ==
  ASSUME Inv, UNCHANGED <<metrics_, owners, next, families>>,
         NEW m \in Metrics, NEW p \in Phases \ {"absent"},
         phase' = [phase EXCEPT ![m] = p], p = "live" => m \in Listed,
         \/ UNCHANGED <<pc, object>>
         \/ \E t \in Threads : /\ pc[t] = "constructing"
                               /\ pc' = [pc EXCEPT ![t] = "idle"]
                               /\ object' = [object EXCEPT ![t] = None]
  PROVE  Inv'
<1>1. Listed' = Listed
  BY DEF Listed
<1>2. /\ \A u \in Threads : \/ pc'[u] = pc[u] /\ object'[u] = object[u]
                            \/ pc[u] = "constructing" /\ pc'[u] = "idle"
      /\ phase'[m] = p /\ \A x \in Metrics \ {m} : phase'[x] = phase[x]
  BY DEF Inv, TypeOK
<1>3. TypeOK'
  BY DEF Inv, TypeOK, Phases, PcValues
<1>4. OwnersAreScraping' /\ BaseIsListed' /\ ScrapeIsPrefix'
  BY <1>1, <1>2 DEF Inv, OwnersAreScraping, BaseIsListed, ScrapeIsPrefix
<1>5. ListedWereBuilt' /\ LiveRegisteredOnce'
  BY <1>1, <1>2 DEF Inv, ListedWereBuilt, LiveRegisteredOnce, Listed
<1> QED BY <1>3, <1>4, <1>5 DEF Inv

\* One iteration of the loop of collect().
LEMMA CollectMetricInv ==
  ASSUME Inv, NEW t \in Threads, CollectMetric(t)
  PROVE  Inv'
<1> DEFINE m == metrics_[next[t]]
<1>1. /\ pc[t] = "collecting" /\ next[t] \in Nat /\ next[t] >= 1
      /\ next[t] <= Len(metrics_)
      /\ UNCHANGED <<metrics_, owners, phase, object>>
      /\ metrics_ \in Seq(Metrics) /\ families[t] \in Seq(Metrics)
      /\ IsPrefix(families[t], metrics_) /\ Len(families[t]) = next[t] - 1
  BY DEF CollectMetric, Inv, TypeOK, ScrapeIsPrefix
<1>2. Listed' = Listed
  BY <1>1 DEF Listed
<1>3. ListedWereBuilt' /\ LiveRegisteredOnce'
  BY <1>1, <1>2 DEF Inv, ListedWereBuilt, LiveRegisteredOnce
<1>4. CASE /\ families' = [families EXCEPT ![t] = Append(families[t], m)]
           /\ next' = [next EXCEPT ![t] = next[t] + 1] /\ UNCHANGED pc
  <2> DEFINE f == Append(families[t], m)
  <2>1. Len(families[t]) + 1 = next[t] /\ Len(families[t]) + 1 <= Len(metrics_)
    BY <1>1
  <2>2. f \in Seq(Metrics) /\ IsPrefix(f, metrics_) /\ Len(f) = next[t]
    BY <1>1, <2>1, PrefixGrows
  <2> HIDE DEF f, m
  <2>3. families' = [families EXCEPT ![t] = f]
    BY <1>4 DEF f
  <2>4. /\ families'[t] = f /\ next'[t] = next[t] + 1
        /\ \A u \in Threads \ {t} : families'[u] = families[u] /\ next'[u] = next[u]
    BY <1>4, <2>3 DEF Inv, TypeOK
  <2>5. TypeOK'
    BY <1>1, <1>4, <2>2, <2>3 DEF Inv, TypeOK
  <2>6. OwnersAreScraping' /\ BaseIsListed'
    BY <1>1, <1>2, <1>4 DEF Inv, OwnersAreScraping, BaseIsListed
  <2>7. ScrapeIsPrefix'
    <3>1. IsPrefix(families'[t], metrics_') /\ Len(families'[t]) = next'[t] - 1
      BY <1>1, <2>2, <2>4
    <3>2. \A u \in Threads \ {t} : pc[u] = "collecting" =>
            IsPrefix(families'[u], metrics_') /\ Len(families'[u]) = next'[u] - 1
      BY <1>1, <2>4 DEF Inv, ScrapeIsPrefix
    <3> QED BY <1>4, <3>1, <3>2 DEF ScrapeIsPrefix
  <2> QED BY <1>3, <2>5, <2>6, <2>7 DEF Inv
<1>5. CASE pc' = [pc EXCEPT ![t] = "undefined"] /\ UNCHANGED <<next, families>>
  <2>1. pc'[t] = "undefined" /\ \A u \in Threads \ {t} : pc'[u] = pc[u]
    BY <1>5 DEF Inv, TypeOK
  <2>2. TypeOK'
    BY <1>1, <1>5 DEF Inv, TypeOK, PcValues
  <2>3. OwnersAreScraping' /\ BaseIsListed' /\ ScrapeIsPrefix'
    BY <1>1, <1>2, <1>5, <2>1
       DEF Inv, OwnersAreScraping, BaseIsListed, ScrapeIsPrefix
  <2> QED BY <1>3, <2>2, <2>3 DEF Inv
<1> QED BY <1>4, <1>5 DEF CollectMetric, push_back

LEMMA CollectBeginInv ==
  ASSUME Inv, NEW t \in Threads, CollectBegin(t)
  PROVE  Inv'
<1>1. /\ UNCHANGED <<metrics_, phase, object>>
      /\ pc[t] = "idle" /\ owners' = owners \union {t}
      /\ pc'[t] = "collecting" /\ next'[t] = 1 /\ families'[t] = <<>>
      /\ \A u \in Threads \ {t} : /\ pc'[u] = pc[u] /\ next'[u] = next[u]
                                  /\ families'[u] = families[u]
  BY DEF CollectBegin, begin, Inv, TypeOK
<1>2. Listed' = Listed
  BY <1>1 DEF Listed
<1>3. TypeOK'
  BY <1>1 DEF CollectBegin, begin, Inv, TypeOK, PcValues
<1>4. OwnersAreScraping' /\ BaseIsListed'
  BY <1>1, <1>2 DEF Inv, OwnersAreScraping, BaseIsListed
<1>5. ListedWereBuilt' /\ LiveRegisteredOnce'
  BY <1>1, <1>2 DEF Inv, ListedWereBuilt, LiveRegisteredOnce
<1>6. ScrapeIsPrefix'
  <2> DEFINE e == <<>>
  <2>1. metrics_ \in Seq(Metrics) /\ e \in Seq(Metrics) /\ Len(e) = 0
    BY DEF Inv, TypeOK
  <2>2. Len(metrics_) \in Nat
    BY <2>1, LenProperties
  <2> HIDE DEF e
  <2>3. Len(e) <= Len(metrics_) /\ \A i \in 1..Len(e) : e[i] = metrics_[i]
    BY <2>1, <2>2
  <2>4. IsPrefix(e, metrics_)
    BY <2>1, <2>3, PrefixElements
  <2> QED BY <1>1, <2>1, <2>4 DEF Inv, ScrapeIsPrefix, e
<1> QED BY <1>3, <1>4, <1>5, <1>6 DEF Inv

LEMMA CollectReturnsInv ==
  ASSUME Inv, NEW t \in Threads, CollectReturns(t)
  PROVE  Inv'
<1>1. /\ UNCHANGED <<metrics_, phase, object, next, families>>
      /\ owners' = owners \ {t} /\ pc' = [pc EXCEPT ![t] = "idle"]
  BY DEF CollectReturns
<1>2. pc'[t] = "idle" /\ \A u \in Threads \ {t} : pc'[u] = pc[u]
  BY <1>1 DEF Inv, TypeOK
<1>3. Listed' = Listed
  BY <1>1 DEF Listed
<1>4. TypeOK'
  BY <1>1 DEF Inv, TypeOK, PcValues
<1>5. OwnersAreScraping' /\ BaseIsListed' /\ ScrapeIsPrefix'
  BY <1>1, <1>2, <1>3 DEF Inv, OwnersAreScraping, BaseIsListed, ScrapeIsPrefix
<1>6. ListedWereBuilt' /\ LiveRegisteredOnce'
  BY <1>1, <1>3 DEF Inv, ListedWereBuilt, LiveRegisteredOnce
<1> QED BY <1>4, <1>5, <1>6 DEF Inv

\* The end of a construction is a step of the lifetime of a listed metric.
LEMMA ConstructEndsInv ==
  ASSUME Inv, NEW t \in Threads,
         ConstructDerived(t) \/ ConstructDerivedThrows(t)
  PROVE  Inv'
<1>1. object[t] \in Metrics /\ object[t] \in Listed
  BY DEF ConstructDerived, ConstructDerivedThrows, ConstructEnds, Inv, BaseIsListed
<1>2. "live" \in Phases \ {"absent"} /\ "gone" \in Phases \ {"absent"}
  BY DEF Phases
<1>3. CASE ConstructDerived(t)
  BY <1>1, <1>2, <1>3, LifetimeInv DEF ConstructDerived, ConstructEnds
<1>4. CASE ConstructDerivedThrows(t)
  BY <1>1, <1>2, <1>4, LifetimeInv DEF ConstructDerivedThrows, ConstructEnds
<1> QED BY <1>3, <1>4

LEMMA StepInv == Inv /\ [Next]_vars => Inv'
<1> SUFFICES ASSUME Inv, [Next]_vars PROVE Inv'
  OBVIOUS
<1>1. ASSUME NEW m \in Metrics,
             Destroy(m) \/ \E t \in Threads : ConstructBaseThrows(t, m)
      PROVE  Inv'
  <2>1. "gone" \in Phases \ {"absent"}
    BY DEF Phases
  <2>2. /\ UNCHANGED <<metrics_, owners, pc, object, next, families>>
        /\ phase' = [phase EXCEPT ![m] = "gone"]
    BY <1>1 DEF Destroy, ConstructBaseThrows
  <2> QED BY <2>1, <2>2, LifetimeInv
<1>2. CASE UNCHANGED vars
  BY <1>2 DEF vars, Inv, TypeOK, OwnersAreScraping, BaseIsListed, Listed,
              ListedWereBuilt, LiveRegisteredOnce, ScrapeIsPrefix
<1> QED BY <1>1, <1>2, ConstructBaseInv, ConstructEndsInv, CollectBeginInv,
           CollectMetricInv, CollectReturnsInv DEF Next, CollectStep

\* The inductive invariant holds of every behaviour.
THEOREM Invariance == Spec => []Inv
BY InitInv, StepInv, PTL DEF Spec

-----------------------------------------------------------------------------
(* The properties that the run checks. *)

\* Every variable keeps its type.
THEOREM TypeCorrect == Spec => []TypeOK
<1>1. Inv => TypeOK
  BY DEF Inv
<1> QED BY <1>1, Invariance, PTL

\* A metric that has been constructed is in the list exactly once, whatever
\* constructors failed beside it, and one with a refused name never is
\* (metrics.cc:13-22, metrics.hh:38).
THEOREM EveryLiveMetricIsListed == Spec => []LiveRegisteredOnce
<1>1. Inv => LiveRegisteredOnce
  BY DEF Inv
<1> QED BY <1>1, Invariance, PTL

\* At every moment of a scrape its result is a prefix of the list
\* (collector.cc:21-31).
THEOREM ScrapesFollowTheList == Spec => []ScrapeIsPrefix
<1>1. Inv => ScrapeIsPrefix
  BY DEF Inv
<1> QED BY <1>1, Invariance, PTL

\* The steps other than a registration do not touch the list.
LEMMA OnlyRegistrationChangesTheList ==
  ASSUME Inv, [Next]_vars,
         ~ \E t \in Threads, m \in Metrics : ConstructBase(t, m)
  PROVE  UNCHANGED metrics_
BY DEF Next, CollectStep, CollectBegin, CollectMetric, CollectReturns,
       ConstructDerived, ConstructDerivedThrows, ConstructBaseThrows, Destroy,
       vars

\* Registered metrics keep their positions for ever: nothing unregisters one
\* (collector.cc:12-15, metrics.hh:38).
THEOREM RegistrationsAreForever == Spec => RegistrationIsForever
<1>1. Inv /\ [Next]_vars => IsPrefix(metrics_, metrics_')
  <2> SUFFICES ASSUME Inv, [Next]_vars PROVE IsPrefix(metrics_, metrics_')
    OBVIOUS
  <2>1. CASE UNCHANGED metrics_
    BY <2>1 DEF IsPrefix
  <2> QED BY <2>1, OnlyRegistrationChangesTheList, RegistrationAppends
<1> QED BY <1>1, Invariance, PTL DEF Spec, RegistrationIsForever

\* A scrape of the global collector delivers exactly the metrics registered
\* when it took the lock, as long as it does not meet an incomplete one.
THEOREM CollectorImplementsSnapshot == Spec => ImplementsSnapshot
<1>1. Init => Abstract!Init
  <2> SUFFICES ASSUME Init PROVE Abstract!Init
    OBVIOUS
  <2>1. ToSet(metrics_) = {} /\ \A t \in Threads : ToSet(families[t]) = {}
    BY DEF Init, ToSet
  <2> QED BY <2>1 DEF Init, Abstract!Init
<1>2. Inv /\ Inv' /\ [Next]_vars => [Abstract!Next]_(Abstract!vars)
  <2> SUFFICES ASSUME Inv, Inv', [Next]_vars
               PROVE  [Abstract!Next]_(Abstract!vars)
    OBVIOUS
  <2>1. ASSUME UNCHANGED <<metrics_, owners>>,
               \A u \in Threads : u \notin owners => families'[u] = families[u]
        PROVE  [Abstract!Next]_(Abstract!vars)
    BY <2>1 DEF Abstract!vars
  <2>2. ASSUME NEW t \in Threads, NEW m \in Metrics, ConstructBase(t, m)
        PROVE  Abstract!Next
    <3>1. UNCHANGED <<owners, families>> /\ owners = {}
      BY <2>2 DEF ConstructBase, register_metric, CanLock
    <3>2. Listed' = Listed \union {m} /\ Listed \subseteq Metrics
      <4>1. \A i \in DOMAIN metrics_ : metrics_[i] \in Metrics
        BY LenProperties, ElementOfSeq DEF Inv, TypeOK
      <4> QED BY <2>2, <4>1, RegistrationAppends DEF Listed, ToSet
    <3>3. Abstract!Change(Listed')
      BY <3>1 DEF Abstract!Change, Listed
    <3> QED BY <3>2, <3>3 DEF Abstract!Next
  <2>3. ASSUME NEW t \in Threads, CollectBegin(t)
        PROVE  Abstract!Next
    <3>1. /\ UNCHANGED metrics_ /\ t \notin owners /\ owners' = owners \union {t}
          /\ \A u \in Threads \ {t} : families'[u] = families[u]
      BY <2>3 DEF CollectBegin, Inv, TypeOK, OwnersAreScraping
    <3>2. Abstract!Open(t)
      BY <3>1 DEF Abstract!Open
    <3> QED BY <3>2 DEF Abstract!Next
  <2>4. ASSUME NEW t \in Threads, CollectReturns(t)
        PROVE  Abstract!Next
    <3>1. /\ UNCHANGED <<metrics_, families>>
          /\ t \in owners /\ owners' = owners \ {t}
      BY <2>4 DEF CollectReturns, Inv, OwnersAreScraping
    <3>2. families[t] = metrics_
      <4>1. /\ families[t] \in Seq(Metrics) /\ metrics_ \in Seq(Metrics)
            /\ IsPrefix(families[t], metrics_)
            /\ Len(families[t]) = next[t] - 1 /\ next[t] > Len(metrics_)
            /\ next[t] \in Nat
        BY <2>4 DEF CollectReturns, Inv, TypeOK, ScrapeIsPrefix
      <4>2. Len(families[t]) >= Len(metrics_)
        BY <4>1, LenProperties
      <4> QED BY <4>1, <4>2, FullPrefix
    <3>3. Abstract!Deliver(t)
      BY <3>1, <3>2 DEF Abstract!Deliver, Abstract!Leave
    <3> QED BY <3>3 DEF Abstract!Next
  <2>5. ASSUME NEW t \in Threads, CollectMetric(t)
        PROVE  [Abstract!Next]_(Abstract!vars)
    <3>1. UNCHANGED <<metrics_, owners>> /\ t \in owners
          /\ \A u \in Threads \ {t} : families'[u] = families[u]
      BY <2>5 DEF CollectMetric, Inv, TypeOK, OwnersAreScraping
    <3> QED BY <2>1, <3>1
  <2>6. ASSUME UNCHANGED <<metrics_, owners, families>>
        PROVE  [Abstract!Next]_(Abstract!vars)
    BY <2>1, <2>6
  <2> QED BY <2>2, <2>3, <2>4, <2>5, <2>6
          DEF Next, CollectStep, ConstructDerived, ConstructDerivedThrows,
              ConstructBaseThrows, Destroy, vars
<1> QED BY <1>1, <1>2, Invariance, PTL
        DEF Spec, ImplementsSnapshot, Abstract!Spec

-----------------------------------------------------------------------------
(* What makes scrapes safe. *)

\* Without construction during a scrape, constructors that throw, and metrics
\* of limited lifetime: what is listed is alive or being built by some thread.
ListedAreSound ==
  /\ \A t, u \in Threads : pc[t] = "constructing" => pc[u] # "collecting"
  /\ \A m \in Metrics : phase[m] = "base" =>
       \E t \in Threads : pc[t] = "constructing" /\ object[t] = m
  /\ \A m \in Metrics : m \in Listed => phase[m] \in {"base", "live"}
  /\ OnlyLiveMetricsAreCollected

LEMMA SoundInit == Init => ListedAreSound
<1> SUFFICES ASSUME Init PROVE ListedAreSound
  OBVIOUS
<1>1. Listed = {}
  BY DEF Init, Listed, ToSet
<1> QED BY <1>1 DEF Init, ListedAreSound, OnlyLiveMetricsAreCollected

LEMMA SoundStep ==
  ASSUME ~Overlap, Fallible = {}, Scoped = {}, Inv, ListedAreSound, [Next]_vars
  PROVE  ListedAreSound'
<1> USE DEF ListedAreSound, OnlyLiveMetricsAreCollected
<1>1. /\ phase \in [Metrics -> Phases] /\ pc \in [Threads -> PcValues]
      /\ object \in [Threads -> Metrics \union {None}]
  BY DEF Inv, TypeOK
<1>2. ASSUME NEW t \in Threads, NEW m \in Metrics, ConstructBase(t, m)
      PROVE  ListedAreSound'
  <2>1. /\ Listed' = Listed \union {m}
        /\ \A u \in Threads : pc[u] \notin {"collecting", "undefined"}
    BY <1>2, RegistrationAppends
  <2>2. /\ phase' = [phase EXCEPT ![m] = "base"]
        /\ pc' = [pc EXCEPT ![t] = "constructing"]
        /\ object' = [object EXCEPT ![t] = m]
        /\ pc[t] = "idle"
    BY <1>2 DEF ConstructBase
  <2> QED BY <1>1, <2>1, <2>2
<1>3. ASSUME NEW t \in Threads, NEW m \in Metrics, ConstructBaseThrows(t, m)
      PROVE  ListedAreSound'
  <2>1. m \notin Listed /\ Listed' = Listed
    BY <1>3 DEF ConstructBaseThrows, Inv, ListedWereBuilt, Listed
  <2>2. phase' = [phase EXCEPT ![m] = "gone"] /\ UNCHANGED <<pc, object>>
    BY <1>3 DEF ConstructBaseThrows
  <2> QED BY <1>1, <2>1, <2>2
<1>4. ASSUME NEW t \in Threads, ConstructDerived(t)
      PROVE  ListedAreSound'
  <2>1. Listed' = Listed
    BY <1>4 DEF ConstructDerived, Listed
  <2>2. /\ pc[t] = "constructing"
        /\ phase' = [phase EXCEPT ![object[t]] = "live"]
        /\ pc' = [pc EXCEPT ![t] = "idle"]
        /\ object' = [object EXCEPT ![t] = None]
    BY <1>4 DEF ConstructDerived, ConstructEnds
  <2> QED BY <1>1, <2>1, <2>2
<1>5. ASSUME NEW t \in Threads, CollectBegin(t)
      PROVE  ListedAreSound'
  <2>1. \A u \in Threads : pc[u] # "constructing"
    BY <1>5 DEF CollectBegin, MayCollect
  <2>2. Listed' = Listed /\ UNCHANGED <<phase, object>>
        /\ pc' = [pc EXCEPT ![t] = "collecting"]
    BY <1>5 DEF CollectBegin, Listed
  <2> QED BY <1>1, <2>1, <2>2
<1>6. ASSUME NEW t \in Threads, CollectMetric(t)
      PROVE  ListedAreSound'
  <2>1. pc[t] = "collecting" /\ next[t] \in 1..Len(metrics_)
    BY <1>6 DEF CollectMetric, Inv, TypeOK
  <2>2. metrics_[next[t]] \in Metrics /\ metrics_[next[t]] \in Listed
    BY <2>1, LenProperties DEF Inv, TypeOK, Listed, ToSet
  <2>3. phase[metrics_[next[t]]] = "live"
    BY <2>1, <2>2
  <2>4. Listed' = Listed /\ UNCHANGED <<phase, object, pc>>
    BY <1>6, <2>3 DEF CollectMetric, Listed
  <2> QED BY <2>4
<1>7. ASSUME NEW t \in Threads, CollectReturns(t)
      PROVE  ListedAreSound'
  <2>1. Listed' = Listed /\ UNCHANGED <<phase, object>>
        /\ pc' = [pc EXCEPT ![t] = "idle"] /\ pc[t] = "collecting"
    BY <1>7 DEF CollectReturns, Listed
  <2> QED BY <1>1, <2>1
<1>8. CASE UNCHANGED vars
  BY <1>8 DEF vars, Listed
<1> QED BY <1>2, <1>3, <1>4, <1>5, <1>6, <1>7, <1>8
        DEF Next, CollectStep, ConstructDerivedThrows, Destroy

\* collect() is only called on complete objects (collector.cc:29-31, metrics.cc:22)
\* if no metric is built during a scrape, no constructor throws after the base
\* has registered, and no metric is destroyed.  Each of the runs that violate the
\* property lifts one of these conditions.
THEOREM QuietScrapesAreSafe ==
  ASSUME ~Overlap, Fallible = {}, Scoped = {}
  PROVE  Spec => []OnlyLiveMetricsAreCollected
<1>1. Inv /\ ListedAreSound /\ [Next]_vars => ListedAreSound'
  BY SoundStep
<1>2. ListedAreSound => OnlyLiveMetricsAreCollected
  BY DEF ListedAreSound
<1> QED BY <1>1, <1>2, SoundInit, Invariance, PTL DEF Spec

-----------------------------------------------------------------------------
(* Static initialisation. *)

\* What a build must guarantee: global_collector before every metric of static
\* storage, and the default levels before the histograms that use them.
OrderIsSafe ==
  \A m \in StaticMetrics :
    /\ <<global_collector, m>> \in BuildOrder
    /\ m \in WithLevels => <<default_histogram_levels, m>> \in BuildOrder

\* Before main(): one thread, no scrape, and nothing listed that could be lost.
BeforeMain ==
  built # Globals =>
    /\ owners = {}
    /\ \A t \in Threads : /\ pc[t] \in {"idle", "constructing"}
                          /\ pc[t] = "constructing" => t = Main
    /\ pc[Main] = "constructing" =>
         /\ object[Main] \in StaticMetrics
         /\ global_collector \in built
         /\ ~NoLevels(object[Main])
    /\ global_collector \notin built => metrics_ = <<>>

\* What has been built is in the list it belongs to.
BuiltAreListed ==
  /\ built \subseteq Globals
  /\ \A m \in StaticMetrics : m \in built => m \in Listed
  /\ global_collector \in built => global_registry \in built /\ listed

PInv == Inv /\ BeforeMain /\ BuiltAreListed

LEMMA ProgramInit == PInit => PInv
<1> SUFFICES ASSUME PInit PROVE PInv
  OBVIOUS
<1>1. Inv
  BY InitInv DEF PInit
<1>2. BeforeMain
  <2>1. /\ metrics_ = <<>> /\ owners = {}
        /\ \A t \in Threads : pc[t] = "idle"
    BY DEF PInit, Init
  <2>2. pc[Main] = "idle"
    BY <2>1, ProgramAssumption
  <2> QED BY <2>1, <2>2 DEF BeforeMain
<1>3. BuiltAreListed
  BY DEF PInit, BuiltAreListed
<1> QED BY <1>1, <1>2, <1>3 DEF PInv

\* In an order that is safe, a step of the program is a step of Collector: no
\* metric is lost to a constructor that comes too late, none reads levels that
\* are not there.
LEMMA ProgramStepIsCollectorStep ==
  OrderIsSafe /\ PInv /\ [PNext]_allVars => [Next]_vars
<1> SUFFICES ASSUME OrderIsSafe, PInv, [PNext]_allVars PROVE [Next]_vars
  OBVIOUS
<1> USE ProgramAssumption
<1>1. CASE UNCHANGED allVars \/ ConstructRegistry \/ ConstructLevels
  BY <1>1 DEF allVars, ConstructRegistry, ConstructLevels
<1>2. ASSUME built # Globals, ConstructCollector PROVE UNCHANGED vars
  BY <1>2 DEF ConstructCollector, Ready, PInv, BeforeMain, vars
<1>3. ASSUME NEW m \in StaticMetrics, StaticBase(m) PROVE Next
  BY <1>3 DEF StaticBase, Next
<1>4. ASSUME built # Globals, NEW m \in StaticMetrics, StaticDerived(m)
      PROVE  Next
  <2>1. ~NoLevels(object[Main]) /\ object[Main] = m
    BY <1>4 DEF StaticDerived, PInv, BeforeMain
  <2>2. ConstructDerived(Main)
    BY <1>4, <2>1 DEF StaticDerived, ConstructDerived, ConstructEnds
  <2> QED BY <2>2 DEF Next
<1>5. CASE Running
  BY <1>5 DEF Running, Next, CollectStep
<1> QED BY <1>1, <1>2, <1>3, <1>4, <1>5 DEF PNext, StaticInitialisation

LEMMA ProgramStep ==
  OrderIsSafe /\ PInv /\ [PNext]_allVars => PInv'
<1> SUFFICES ASSUME OrderIsSafe, PInv, [PNext]_allVars PROVE PInv'
  OBVIOUS
<1> USE ProgramAssumption
<1>1. Inv'
  BY ProgramStepIsCollectorStep, StepInv DEF PInv
<1>2. /\ BeforeMain /\ BuiltAreListed
      /\ pc \in [Threads -> PcValues] /\ object \in [Threads -> Metrics \union {None}]
  BY DEF PInv, Inv, TypeOK
<1>3. CASE UNCHANGED allVars
  BY <1>1, <1>2, <1>3 DEF allVars, vars, programVars, PInv, BeforeMain,
                          BuiltAreListed, NoLevels, Listed
<1>4. ASSUME built # Globals,
             ConstructRegistry \/ ConstructCollector \/ ConstructLevels
      PROVE  PInv'
  <2>1. /\ pc[Main] = "idle" /\ UNCHANGED <<owners, pc, object, metrics_>>
        /\ built \subseteq built' /\ built' \subseteq Globals
        /\ \A m \in StaticMetrics : m \in built' => m \in built
    BY <1>2, <1>4 DEF ConstructRegistry, ConstructCollector, ConstructLevels,
                      Ready, Built, vars, BeforeMain, BuiltAreListed, Globals
  <2>2. BeforeMain'
    BY <1>2, <1>4, <2>1 DEF BeforeMain
  <2>3. global_collector \in built' => global_registry \in built' /\ listed'
    <3>1. CASE ConstructRegistry
      <4>1. global_registry \notin built /\ built' = built \union {global_registry}
        BY <3>1 DEF ConstructRegistry, Ready, Built
      <4> QED BY <1>2, <4>1 DEF BuiltAreListed
    <3>2. CASE ConstructCollector
      <4>1. global_registry \in built
        BY <3>2 DEF ConstructCollector, Ready, DefinedBefore, Globals
      <4> QED BY <3>2, <4>1 DEF ConstructCollector, Built
    <3>3. CASE ConstructLevels
      <4>1. built' = built \union {default_histogram_levels} /\ listed' = listed
        BY <3>3 DEF ConstructLevels, Built
      <4> QED BY <1>2, <4>1 DEF BuiltAreListed
    <3> QED BY <1>4, <3>1, <3>2, <3>3
  <2>4. BuiltAreListed'
    BY <1>2, <2>1, <2>3 DEF BuiltAreListed, Listed
  <2> QED BY <1>1, <2>2, <2>4 DEF PInv
<1>5. ASSUME built # Globals, NEW m \in StaticMetrics, StaticBase(m)
      PROVE  PInv'
  <2>1. /\ pc' = [pc EXCEPT ![Main] = "constructing"]
        /\ object' = [object EXCEPT ![Main] = m]
        /\ UNCHANGED <<owners, built, listed>>
        /\ Listed' = Listed \union {m}
    BY <1>5, RegistrationAppends
       DEF StaticBase, ConstructBase, programVars, PInv
  <2>2. global_collector \in built /\ ~NoLevels(m)
    BY <1>5 DEF OrderIsSafe, StaticBase, Ready, Globals, NoLevels
  <2>3. BeforeMain'
    BY <1>2, <2>1, <2>2 DEF BeforeMain, NoLevels
  <2>4. BuiltAreListed'
    BY <1>2, <2>1 DEF BuiltAreListed
  <2> QED BY <1>1, <2>3, <2>4 DEF PInv
<1>6. ASSUME built # Globals, NEW m \in StaticMetrics, StaticDerived(m)
      PROVE  PInv'
  <2>1. /\ ~NoLevels(m) /\ object[Main] = m /\ pc[Main] = "constructing"
        /\ global_collector \in built
    BY <1>2, <1>6 DEF StaticDerived, BeforeMain
  <2>2. /\ pc' = [pc EXCEPT ![Main] = "idle"]
        /\ built' = built \union {m}
        /\ UNCHANGED <<metrics_, owners, listed>>
    BY <1>6, <2>1 DEF StaticDerived, Built
  <2>3. m \in Listed
    BY <2>1 DEF PInv, Inv, BaseIsListed
  <2>4. BeforeMain'
    BY <1>2, <1>6, <2>1, <2>2 DEF BeforeMain
  <2>5. BuiltAreListed'
    BY <1>2, <2>2, <2>3 DEF BuiltAreListed, Listed, Globals
  <2> QED BY <1>1, <2>4, <2>5 DEF PInv
<1>7. CASE Running
  <2>1. built = Globals /\ UNCHANGED <<built, listed>>
    BY <1>7 DEF Running, programVars
  <2>2. \A m \in Metrics : m \in Listed => m \in Listed'
    <3>1. metrics_' = metrics_ \/ \E t \in Threads, m \in Metrics : ConstructBase(t, m)
      BY <1>7 DEF Running, CollectBegin, CollectStep, CollectMetric, Destroy,
                  CollectReturns, ConstructDerived, ConstructDerivedThrows,
                  ConstructBaseThrows
    <3> QED BY <3>1, RegistrationAppends DEF PInv, Listed
  <2> QED BY <1>1, <1>2, <2>1, <2>2 DEF PInv, BeforeMain, BuiltAreListed
<1> QED BY <1>3, <1>4, <1>5, <1>6, <1>7 DEF PNext, StaticInitialisation

\* A build that constructs global_collector before every metric of static
\* storage, and the default levels before the histograms that use them, exposes
\* every metric of static storage in every scrape of main(), wherever it is
\* defined (collector.cc:12-13, registry.cc:13, values.cc:20).
THEOREM StaticMetricsAreExposed ==
  ASSUME OrderIsSafe PROVE PSpec => []GlobalMetricsAreExposed
<1>1. PInv => GlobalMetricsAreExposed
  <2> SUFFICES ASSUME PInv PROVE GlobalMetricsAreExposed
    OBVIOUS
  <2> USE ProgramAssumption
  <2>1. built # Globals => \A t \in Threads : pc[t] \in {"idle", "constructing"}
    BY DEF PInv, BeforeMain
  <2>2. built = Globals => listed
    BY DEF PInv, BuiltAreListed, Globals
  <2>3. ASSUME NEW t \in Threads, pc[t] = "collecting", next[t] > Len(metrics_)
        PROVE  StaticMetrics \subseteq ToSet(families[t])
    <3>1. built = Globals
      BY <2>1, <2>3
    <3>2. StaticMetrics \subseteq Listed
      BY <3>1 DEF PInv, BuiltAreListed, Globals
    <3>3. families[t] = metrics_
      <4>1. /\ families[t] \in Seq(Metrics) /\ metrics_ \in Seq(Metrics)
            /\ next[t] \in Nat \ {0}
            /\ IsPrefix(families[t], metrics_) /\ Len(families[t]) = next[t] - 1
        BY <2>3 DEF PInv, Inv, TypeOK, ScrapeIsPrefix
      <4>2. Len(families[t]) >= Len(metrics_)
        BY <2>3, <4>1, LenProperties
      <4> QED BY <4>1, <4>2, FullPrefix
    <3> QED BY <3>2, <3>3 DEF Listed
  <2> QED BY <2>1, <2>2, <2>3 DEF GlobalMetricsAreExposed
<1> QED BY <1>1, ProgramInit, ProgramStep, PTL DEF PSpec

\* Such a program behaves as Collector says, so that the theorems about it hold
\* from the first object of static storage on.
THEOREM ProgramIsCollector == ASSUME OrderIsSafe PROVE PSpec => Spec
<1>1. PInit => Init
  BY DEF PInit
<1> QED BY <1>1, ProgramInit, ProgramStep, ProgramStepIsCollectorStep, PTL
        DEF PSpec, Spec
=============================================================================
