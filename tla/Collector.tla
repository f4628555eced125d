------------------------------ MODULE Collector ------------------------------
(***************************************************************************)
(* The global Collector (src/prometheus/collector.cc) and the metrics that *)
(* register with it (src/prometheus/metrics.cc, metrics.hh).               *)
(*                                                                         *)
(* A metric registers from the constructor of its base class               *)
(* AbstractMetric, before its own members and its own collect() exist, and *)
(* nothing ever unregisters it.  The model therefore splits a construction *)
(* in two steps, gives each metric object a lifetime, and lets scrapes     *)
(* call collect() on whatever is in the list.  Calling it on an object     *)
(* that is not fully built, or no longer there, is undefined behaviour:    *)
(* the thread ends up in "undefined", whatever happens next.               *)
(***************************************************************************)
EXTENDS Naturals, Sequences, SequencesExt

CONSTANTS
  Threads,    \* the threads that build, destroy and scrape metrics
  Metrics,    \* the metric objects
  None,       \* no object
  BadNames,   \* the metrics whose name the regular expression refuses
  Fallible,   \* those whose derived constructor may throw: a reserved label
              \* name (metrics.hh:95-100), unsorted levels (values.cc:104-109)
  Scoped,     \* those that do not have static storage and may be destroyed
  Overlap,    \* TRUE: metrics may be built and destroyed while others scrape
  Apple       \* mutex.hh: TRUE where the mutex has no shared mode

ASSUME CollectorAssumption ==
  /\ None \notin Metrics
  /\ Overlap \in BOOLEAN
  /\ Apple \in BOOLEAN

VARIABLES
  metrics_,   \* the vector of registered metrics
  owners,     \* the threads that own mutex_ in shared mode
  phase,      \* phase[m]: how far the lifetime of the object has come
  pc,         \* what a thread is doing
  object,     \* object[t]: the metric that t is constructing
  next,       \* next[t]: index of the metric the loop of collect() is at
  families    \* families[t]: collect()'s local list, named by metric

vars == <<metrics_, owners, phase, pc, object, next, families>>

\* "base": AbstractMetric is built, the derived part is not.
Phases   == {"absent", "base", "live", "gone"}
PcValues == {"idle", "constructing", "collecting", "undefined"}

CanLock_Ignored == TRUE                         \* mutant: no exclusion
CanLock         == owners = {}
CanLockShared   == Apple => owners = {}

-----------------------------------------------------------------------------
Init ==
  /\ metrics_ = <<>>
  /\ owners = {}
  /\ phase = [m \in Metrics |-> "absent"]
  /\ pc = [t \in Threads |-> "idle"]
  /\ object = [t \in Threads |-> None]
  /\ next = [t \in Threads |-> 1]
  /\ families = [t \in Threads |-> <<>>]

\* The discipline Overlap = FALSE stands for: metrics are built and destroyed
\* at moments when no scrape is in progress, and the other way round.
Quiet      == \A t \in Threads : pc[t] # "collecting"
MayBuild   == Overlap \/ Quiet
MayCollect == Overlap \/ \A t \in Threads : pc[t] # "constructing"

\* Collector::register_metric
register_metric(m) ==
  /\ CanLock
  /\ metrics_' = Append(metrics_, m)

\* AbstractMetric's constructor, on the global collector: it refuses a bad
\* name before it registers anything.
ConstructBase(t, m) ==
  /\ pc[t] = "idle" /\ MayBuild
  /\ phase[m] = "absent"
  /\ m \notin BadNames
  /\ register_metric(m)
  /\ phase' = [phase EXCEPT ![m] = "base"]
  /\ pc' = [pc EXCEPT ![t] = "constructing"]
  /\ object' = [object EXCEPT ![t] = m]
  /\ UNCHANGED <<owners, next, families>>

ConstructBaseThrows(t, m) ==
  /\ pc[t] = "idle" /\ MayBuild
  /\ phase[m] = "absent"
  /\ m \in BadNames
  /\ phase' = [phase EXCEPT ![m] = "gone"]
  /\ UNCHANGED <<metrics_, owners, pc, object, next, families>>

\* The derived constructor returns, or throws, which destroys the base again.
ConstructEnds(t, p) ==
  /\ pc[t] = "constructing"
  /\ phase' = [phase EXCEPT ![object[t]] = p]
  /\ pc' = [pc EXCEPT ![t] = "idle"]
  /\ object' = [object EXCEPT ![t] = None]

\* mutant: the derived constructor registers as well
ConstructDerived_RegistersAgain(t) ==
  /\ ConstructEnds(t, "live")
  /\ register_metric(object[t])
  /\ UNCHANGED <<owners, next, families>>

ConstructDerived(t) ==
  /\ ConstructEnds(t, "live")
  /\ UNCHANGED <<metrics_, owners, next, families>>

ConstructDerivedThrows(t) ==
  /\ object[t] \in Fallible
  /\ ConstructEnds(t, "gone")
  /\ UNCHANGED <<metrics_, owners, next, families>>

\* The end of the scope of a metric.  No destructor unregisters it.
Destroy_Unregisters(m) ==                       \* mutant: it does
  /\ m \in Scoped /\ MayBuild
  /\ phase[m] = "live"
  /\ CanLock
  /\ metrics_' = RemoveFirst(metrics_, m)
  /\ phase' = [phase EXCEPT ![m] = "gone"]
  /\ UNCHANGED <<owners, pc, object, next, families>>

Destroy(m) ==
  /\ m \in Scoped /\ MayBuild
  /\ phase[m] = "live"
  /\ phase' = [phase EXCEPT ![m] = "gone"]
  /\ UNCHANGED <<metrics_, owners, pc, object, next, families>>

-----------------------------------------------------------------------------
(* Collector::collect() *)

begin_Zero == 0                                 \* mutant: off by one
begin      == 1

CollectBegin(t) ==
  /\ pc[t] = "idle" /\ MayCollect
  /\ CanLockShared
  /\ owners' = owners \union {t}
  /\ pc' = [pc EXCEPT ![t] = "collecting"]
  /\ next' = [next EXCEPT ![t] = begin]
  /\ families' = [families EXCEPT ![t] = <<>>]
  /\ UNCHANGED <<metrics_, phase, object>>

\* One iteration: m->collect(mf), then v.push_back(...).
push_back_Front(v, m) == <<m>> \o v             \* mutant: push_front
push_back(v, m)       == Append(v, m)

CollectMetric(t) ==
  /\ pc[t] = "collecting"
  /\ next[t] <= Len(metrics_)
  /\ LET m == metrics_[next[t]] IN
     \/ /\ phase[m] = "live"
        /\ families' = [families EXCEPT ![t] = push_back(@, m)]
        /\ next' = [next EXCEPT ![t] = @ + 1]
        /\ UNCHANGED pc
     \/ /\ phase[m] # "live"
        /\ pc' = [pc EXCEPT ![t] = "undefined"]
        /\ UNCHANGED <<next, families>>
  /\ UNCHANGED <<metrics_, owners, phase, object>>

CollectReturns(t) ==
  /\ pc[t] = "collecting"
  /\ next[t] > Len(metrics_)
  /\ owners' = owners \ {t}
  /\ pc' = [pc EXCEPT ![t] = "idle"]
  /\ UNCHANGED <<metrics_, phase, object, next, families>>

CollectStep(t) == CollectMetric(t) \/ CollectReturns(t)

Next ==
  \/ \E t \in Threads :
       \/ CollectBegin(t)
       \/ CollectStep(t)
       \/ ConstructDerived(t)
       \/ ConstructDerivedThrows(t)
       \/ \E m \in Metrics : ConstructBase(t, m) \/ ConstructBaseThrows(t, m)
  \/ \E m \in Metrics : Destroy(m)

Spec == Init /\ [][Next]_vars

-----------------------------------------------------------------------------
(* Properties *)

\* Every variable keeps its type.
TypeOK ==
  /\ metrics_ \in Seq(Metrics)
  /\ owners \subseteq Threads
  /\ phase \in [Metrics -> Phases]
  /\ pc \in [Threads -> PcValues]
  /\ object \in [Threads -> Metrics \union {None}]
  /\ next \in [Threads -> Nat \ {0}]
  /\ families \in [Threads -> Seq(Metrics)]

\* Every metric whose constructor has returned is in the list exactly once:
\* it is exposed by every scrape from then on, and never twice (metrics.hh:38).
\* One whose name is refused never is: registration comes after the check
\* (metrics.cc:18-21).
LiveRegisteredOnce ==
  /\ \A m \in Metrics : phase[m] = "live" => m \in ToSet(metrics_)
  /\ ToSet(metrics_) \intersect BadNames = {}
  /\ IsInjective(metrics_)

\* What a scrape has collected is, at every moment, the beginning of the list:
\* no metric is skipped, repeated or reordered, whoever registers meanwhile.
ScrapeIsPrefix ==
  \A t \in Threads : pc[t] = "collecting" =>
    IsPrefix(families[t], metrics_) /\ Len(families[t]) = next[t] - 1

\* Once registered a metric stays, at its position (collector.hh:57-59).
RegistrationIsForever == [][IsPrefix(metrics_, metrics_')]_vars

\* collect() is only ever called on metrics that are fully constructed and not
\* yet destroyed.
OnlyLiveMetricsAreCollected == \A t \in Threads : pc[t] # "undefined"

\* A scrape delivers the metrics registered when it took the lock.
Abstract == INSTANCE SnapshotCollection WITH
  Items     <- Metrics,
  members   <- ToSet(metrics_),
  view      <- [t \in Threads |-> IF t \in owners THEN ToSet(metrics_) ELSE {}],
  failed    <- [t \in Threads |-> {}],
  open      <- owners,
  delivered <- [t \in Threads |-> IF t \in owners THEN {}
                                  ELSE ToSet(families[t])],
  errors    <- 0

ImplementsSnapshot == Abstract!Spec
=============================================================================
