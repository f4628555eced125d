----------------------------- MODULE MCProgram -----------------------------
(***************************************************************************)
(* Instances of Program for TLC.  Static storage: collection_errors of     *)
(* registry.cc and a histogram of the client's.  Built in main(): a plain  *)
(* metric, a scoped one, one with a bad name and one whose constructor may *)
(* throw.                                                                  *)
(***************************************************************************)
EXTENDS Program

CONSTANTS t1, t2, collection_errors, histogram, dynamic, scoped, badname, fallible

MCThreads == {t1, t2}
MCMetrics ==
  {collection_errors, histogram, dynamic, scoped, badname, fallible}
MCStaticMetrics == {collection_errors, histogram}

\* Within the shared library, collector.cc is linked before registry.cc; the
\* library is initialised before the files that use it (prometheus/CMakeLists.txt:21-25).
MCLibraryFirst ==
  {<<global_collector, collection_errors>>}
    \union {global_collector, default_histogram_levels, collection_errors}
             \X {histogram}
=============================================================================
