----------------------------- MODULE MCCollector -----------------------------
(***************************************************************************)
(* Instances of Collector for TLC: a static metric, a scoped one, one with *)
(* a bad name and one whose constructor may throw.                         *)
(***************************************************************************)
EXTENDS Collector

CONSTANTS t1, t2, static, scoped, badname, fallible

MCThreads == {t1, t2}
MCBadNames == {badname}
MCFallible == {fallible}
MCScoped == {scoped}
=============================================================================
