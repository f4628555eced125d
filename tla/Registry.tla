------------------------------ MODULE Registry ------------------------------
(***************************************************************************)
(* CollectorRegistry (src/prometheus/registry.cc): the list of collectors, *)
(* its shared mutex, registration, and collect(), which walks the list     *)
(* while it holds the mutex in shared mode.                                *)
(*                                                                         *)
(* An exclusive section (register_collector, unregister_collector) runs    *)
(* entirely under the mutex, so it is one step that waits for the shared   *)
(* owners to leave.  collect() holds the mutex across calls into foreign   *)
(* code (the virtual ICollector::collect), so it is one step per call and  *)
(* one per return.  Collector objects have a lifetime of their own: the    *)
(* registry keeps raw pointers and destroying a collector does not         *)
(* unregister it (collector.hh:47-50).                                     *)
(***************************************************************************)
EXTENDS Naturals, Sequences, SequencesExt

CONSTANTS
  Threads,          \* the threads that use the registry
  Collectors,       \* the ICollector objects
  GlobalCollector,  \* impl::global_collector, registered by its constructor
  Apple,            \* mutex.hh: TRUE where the mutex has no shared mode
  MaxErrors         \* bound on the count of collection errors

ASSUME RegistryAssumption ==
  /\ GlobalCollector \in Collectors
  /\ Apple \in BOOLEAN
  /\ MaxErrors \in Nat

VARIABLES
  collectors_,        \* the vector of registered collectors
  owners,             \* the threads that own mutex_ in shared mode
  alive,              \* the collectors whose lifetime has begun and not ended
  pc,                 \* where a thread is: see PcValues
  next,               \* next[t]: index of the collector the loop is at
  metrics,            \* metrics[t]: collect()'s local list, one entry for
                      \* the families of each collector that returned
  collection_errors   \* the value of the counter of that name

vars == <<collectors_, owners, alive, pc, next, metrics, collection_errors>>

PcValues == {"idle", "loop", "collecting"}

Registered == ToSet(collectors_)

\* The lock modes of mutex.hh: an exclusive owner excludes everyone; shared
\* owners exclude each other only where shared_lock is a unique_lock.
CanLock_Ignored == TRUE                         \* mutant: no exclusion
CanLock         == owners = {}

CanLockShared   == Apple => owners = {}

\* std::find over the vector: whether it finds c, and where.
Found_Never(c) == FALSE                         \* mutant: no search
Found(c)       == c \in Registered
IsFirst(i, c)  == collectors_[i] = c /\ \A j \in 1..(i - 1) : collectors_[j] # c

-----------------------------------------------------------------------------
Init ==
  /\ collectors_ = <<GlobalCollector>>
  /\ owners = {}
  /\ alive = {GlobalCollector}
  /\ pc = [t \in Threads |-> "idle"]
  /\ next = [t \in Threads |-> 1]
  /\ metrics = [t \in Threads |-> <<>>]
  /\ collection_errors = 0

\* A client creates a collector object ...
Create(c) ==
  /\ c \notin alive
  /\ alive' = alive \union {c}
  /\ UNCHANGED <<collectors_, owners, pc, next, metrics, collection_errors>>

\* ... and destroys one that it has unregistered, as collector.hh:47-50 asks.
\* The global collector has static storage.
Destroy(c) ==
  /\ c \in alive \ {GlobalCollector}
  /\ c \notin Registered
  /\ alive' = alive \ {c}
  /\ UNCHANGED <<collectors_, owners, pc, next, metrics, collection_errors>>

register_collector(t, c) ==
  /\ pc[t] = "idle"
  /\ c \in alive
  /\ CanLock
  /\ \/ /\ Found(c)
        /\ UNCHANGED collectors_    \* throws CollectorManagementException
     \/ /\ ~Found(c)
        /\ collectors_' = Append(collectors_, c)
  /\ UNCHANGED <<owners, alive, pc, next, metrics, collection_errors>>

unregister_collector(t, c) ==
  /\ pc[t] = "idle"
  /\ c \in alive
  /\ CanLock
  /\ \/ /\ ~Found(c)
        /\ UNCHANGED collectors_    \* throws CollectorManagementException
     \/ /\ Found(c)
        /\ \E i \in DOMAIN collectors_ :
             /\ IsFirst(i, c)
             /\ collectors_' = RemoveAt(collectors_, i)
  /\ UNCHANGED <<owners, alive, pc, next, metrics, collection_errors>>

-----------------------------------------------------------------------------
(* collect() *)

CollectBegin(t) ==
  /\ pc[t] = "idle"
  /\ CanLockShared
  /\ owners' = owners \union {t}
  /\ pc' = [pc EXCEPT ![t] = "loop"]
  /\ next' = [next EXCEPT ![t] = 1]
  /\ metrics' = [metrics EXCEPT ![t] = <<>>]
  /\ UNCHANGED <<collectors_, alive, collection_errors>>

\* The virtual call c->collect().
CallCollector(t) ==
  /\ pc[t] = "loop"
  /\ next[t] <= Len(collectors_)
  /\ pc' = [pc EXCEPT ![t] = "collecting"]
  /\ UNCHANGED <<collectors_, owners, alive, next, metrics,
                 collection_errors>>

NextCollector_Backwards(t) ==                   \* mutant: wrong direction
  /\ pc' = [pc EXCEPT ![t] = "loop"]
  /\ next' = [next EXCEPT ![t] = @ - 1]

NextCollector(t) ==
  /\ pc' = [pc EXCEPT ![t] = "loop"]
  /\ next' = [next EXCEPT ![t] = @ + 1]

\* metrics.splice(metrics.begin(), ...)
Splice_End(list, c) == Append(list, c)          \* mutant: at the end
Splice(list, c)     == <<c>> \o list

\* It returns its families, which go in front of those already collected.
CollectorReturns(t) ==
  /\ pc[t] = "collecting"
  /\ metrics' = [metrics EXCEPT ![t] = Splice(@, collectors_[next[t]])]
  /\ NextCollector(t)
  /\ UNCHANGED <<collectors_, owners, alive, collection_errors>>

\* It throws a CollectionException, which the loop swallows and counts: what
\* collector.hh:32-34 provides for, though the class has no constructor that a
\* collector could call yet (collector.hh:41).
CollectorFails_Uncounted(t) ==                  \* mutant: no inc()
  /\ pc[t] = "collecting"
  /\ NextCollector(t)
  /\ UNCHANGED <<collectors_, owners, alive, metrics,
                 collection_errors>>

CollectorFails(t) ==
  /\ pc[t] = "collecting"
  /\ collection_errors < MaxErrors
  /\ collection_errors' = collection_errors + 1
  /\ NextCollector(t)
  /\ UNCHANGED <<collectors_, owners, alive, metrics>>

Leave_Locked(t) ==                              \* mutant: lock never released
  /\ UNCHANGED owners
  /\ pc' = [pc EXCEPT ![t] = "idle"]
  /\ next' = [next EXCEPT ![t] = 1]

\* The end of collect()'s scope: its lock and its iterator go.
Leave(t) ==
  /\ owners' = owners \ {t}
  /\ pc' = [pc EXCEPT ![t] = "idle"]
  /\ next' = [next EXCEPT ![t] = 1]

\* It throws anything else: the exception leaves collect(), and the list goes.
CollectorThrows_Retries(t) ==                   \* mutant: caught, and called again
  /\ pc[t] = "collecting"
  /\ pc' = [pc EXCEPT ![t] = "loop"]
  /\ UNCHANGED <<collectors_, owners, alive, next, metrics, collection_errors>>

CollectorThrows(t) ==
  /\ pc[t] = "collecting"
  /\ Leave(t)
  /\ metrics' = [metrics EXCEPT ![t] = <<>>]
  /\ UNCHANGED <<collectors_, alive, collection_errors>>

AtEnd(t) == next[t] > Len(collectors_)

CollectReturns(t) ==
  /\ pc[t] = "loop"
  /\ AtEnd(t)
  /\ Leave(t)
  /\ UNCHANGED <<collectors_, alive, metrics, collection_errors>>

CollectStep(t) ==
  \/ CallCollector(t)
  \/ CollectorReturns(t)
  \/ CollectorFails(t)
  \/ CollectorThrows(t)
  \/ CollectReturns(t)

Next ==
  \/ \E c \in Collectors :
       \/ Create(c)
       \/ Destroy(c)
       \/ \E t \in Threads : register_collector(t, c)
       \/ \E t \in Threads : unregister_collector(t, c)
  \/ \E t \in Threads : CollectBegin(t) \/ CollectStep(t)

Spec == Init /\ [][Next]_vars

-----------------------------------------------------------------------------
(* Properties *)

\* Every variable keeps its type.
TypeOK ==
  /\ collectors_ \in Seq(Collectors)
  /\ owners \subseteq Threads
  /\ alive \subseteq Collectors
  /\ pc \in [Threads -> PcValues]
  /\ next \in [Threads -> Nat \ {0}]
  /\ metrics \in [Threads -> Seq(Collectors)]
  /\ collection_errors \in 0..MaxErrors

\* The mutex is owned in shared mode exactly while a scrape is between its
\* first and last line, whichever of its three exits it takes (registry.cc:40):
\* an exception from a collector leaves no owner behind that would block
\* every later registration.
OwnersAreScraping == owners = {t \in Threads : pc[t] # "idle"}

\* The call c->collect() is made on, and runs in, a live object that is still
\* registered: a collector may be destroyed as soon as unregister_collector
\* has returned, because that call waits for the scrapes in flight.
CollectorInUseIsAlive ==
  \A t \in Threads : pc[t] = "collecting" =>
    /\ next[t] \in DOMAIN collectors_
    /\ collectors_[next[t]] \in alive

\* One unregistration undoes any history of registrations: no collector is
\* listed twice (registry.hh:29-32), so none is exposed twice either.
RegisteredOnce == IsInjective(collectors_)

\* The order of a response: the families of a later registered collector come
\* first, whatever failed in between (registry.cc:45 splices at the front).
NewestFirst ==
  \A t \in Threads : pc[t] # "idle" =>
    \A i, j \in DOMAIN metrics[t] : i < j =>
      \E k, l \in DOMAIN collectors_ :
        /\ l < k /\ k < next[t]
        /\ collectors_[k] = metrics[t][i]
        /\ collectors_[l] = metrics[t][j]

\* The collectors the scrape of t has called so far, and those that failed.
Called(t) == {collectors_[i] : i \in {k \in DOMAIN collectors_ : k < next[t]}}
Failed(t) == IF pc[t] = "idle" THEN {} ELSE Called(t) \ ToSet(metrics[t])

\* The registry implements SnapshotCollection: a scrape works on the collectors
\* registered when it took the lock, delivers the families of each of them but
\* those that threw CollectionException, and counts each of those once.
Abstract == INSTANCE SnapshotCollection WITH
  Items     <- Collectors,
  members   <- Registered,
  view      <- [t \in Threads |-> IF pc[t] = "idle" THEN {} ELSE Registered],
  failed    <- [t \in Threads |-> Failed(t)],
  open      <- {t \in Threads : pc[t] # "idle"},
  delivered <- [t \in Threads |-> IF pc[t] = "idle" THEN ToSet(metrics[t])
                                  ELSE {}],
  errors    <- collection_errors

ImplementsSnapshot == Abstract!Spec
=============================================================================
