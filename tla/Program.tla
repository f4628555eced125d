------------------------------ MODULE Program ------------------------------
(***************************************************************************)
(* A program around the global Collector: the construction of its objects  *)
(* of static storage, in src/prometheus/collector.cc, registry.cc and      *)
(* values.cc and in the client's own files, and then main() with its       *)
(* threads.                                                                *)
(*                                                                         *)
(* C++ orders the objects of one file only.  What else a build guarantees  *)
(* is BuildOrder.  A metric that is built before global_collector calls    *)
(* register_metric on storage that holds zeros so far.  That is undefined  *)
(* by the language; with the library's vector and mutex, of which zeros    *)
(* are an empty and a free one, the metric is listed, and the list is then *)
(* emptied by the constructor.                                             *)
(***************************************************************************)
EXTENDS Collector

CONSTANTS
  Main,              \* the thread that runs static initialisation and main()
  StaticMetrics,     \* the metrics of static storage
  WithLevels,        \* those that are histograms of default_histogram_levels
  global_registry, global_collector, default_histogram_levels,
  BuildOrder         \* the pairs <<x, y>> of which the build constructs x first

Globals == {global_registry, global_collector, default_histogram_levels}
             \union StaticMetrics

\* A constructor that throws during static initialisation ends the program, so
\* that only the metrics built later may do so.
ASSUME ProgramAssumption ==
  /\ Main \in Threads
  /\ StaticMetrics \subseteq Metrics \ (BadNames \union Fallible)
  /\ {global_registry, global_collector, default_histogram_levels}
       \intersect Metrics = {}
  /\ global_registry # global_collector
  /\ default_histogram_levels \notin {global_registry, global_collector}

VARIABLES
  built,    \* the objects of static storage that are built
  listed    \* global_collector is in the list of global_registry

programVars == <<built, listed>>
allVars == <<vars, programVars>>

\* The order of definition in collector.cc.
DefinedBefore_Swapped == {<<global_collector, global_registry>>}     \* mutant
DefinedBefore         == {<<global_registry, global_collector>>}

PInit ==
  /\ Init
  /\ built = {}
  /\ listed = FALSE

Ready(x) ==
  /\ pc[Main] = "idle"
  /\ x \in Globals \ built
  /\ \A y \in Globals : <<y, x>> \in DefinedBefore \union BuildOrder => y \in built

Built(x) == built' = built \union {x}

ConstructRegistry ==
  /\ Ready(global_registry)
  /\ Built(global_registry)
  /\ listed' = FALSE
  /\ UNCHANGED vars

\* Collector::Collector begins with an empty list and registers itself.
ConstructCollector ==
  /\ Ready(global_collector)
  /\ Built(global_collector)
  /\ metrics_' = <<>>
  /\ listed' = TRUE
  /\ UNCHANGED <<owners, phase, pc, object, next, families>>

ConstructLevels ==
  /\ Ready(default_histogram_levels)
  /\ Built(default_histogram_levels)
  /\ UNCHANGED <<vars, listed>>

\* A metric of static storage: AbstractMetric's constructor ...
StaticBase(m) ==
  /\ Ready(m)
  /\ ConstructBase(Main, m)
  /\ UNCHANGED programVars

\* ... and that of its value, which reads the last of the default levels: of
\* an empty vector as long as those are not built.
NoLevels(m) == m \in WithLevels /\ default_histogram_levels \notin built

StaticDerived(m) ==
  /\ object[Main] = m
  /\ pc[Main] = "constructing"
  /\ pc' = [pc EXCEPT ![Main] = IF NoLevels(m) THEN "undefined" ELSE "idle"]
  /\ phase' = [phase EXCEPT ![m] = "live"]
  /\ object' = [object EXCEPT ![Main] = None]
  /\ Built(m)
  /\ UNCHANGED <<metrics_, owners, next, families, listed>>

StaticInitialisation ==
  \/ ConstructRegistry
  \/ ConstructCollector
  \/ ConstructLevels
  \/ \E m \in StaticMetrics : StaticBase(m) \/ StaticDerived(m)

\* main() and its threads, which collect through global_registry.
Running ==
  /\ built = Globals
  /\ \/ listed /\ \E t \in Threads : CollectBegin(t)
     \/ \E t \in Threads :
          \/ CollectStep(t)
          \/ ConstructDerived(t)
          \/ ConstructDerivedThrows(t)
          \/ \E m \in Metrics : ConstructBase(t, m) \/ ConstructBaseThrows(t, m)
     \/ \E m \in Metrics : Destroy(m)
  /\ UNCHANGED programVars

PNext == (built # Globals /\ StaticInitialisation) \/ Running

PSpec == PInit /\ [][PNext]_allVars

-----------------------------------------------------------------------------
(* Properties *)

\* Every scrape of main() exposes every metric of static storage, whichever
\* file defines it (registry.hh:44-46, collector.hh:20-22): it was listed in the
\* global collector after that one was built, the collector in the registry
\* after that one, and no histogram was built from levels not there yet.
GlobalMetricsAreExposed ==
  /\ built # Globals => pc[Main] # "undefined"
  /\ built = Globals => listed
  /\ \A t \in Threads : pc[t] = "collecting" /\ next[t] > Len(metrics_) =>
       StaticMetrics \subseteq ToSet(families[t])
=============================================================================
