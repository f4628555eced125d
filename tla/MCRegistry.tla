----------------------------- MODULE MCRegistry -----------------------------
(***************************************************************************)
(* Instance of RegistryWaiting for TLC: two threads, the global collector, *)
(* one collector that may call back into the registry, and one that does   *)
(* not.                                                                    *)
(***************************************************************************)
EXTENDS RegistryWaiting

CONSTANTS t1, t2, global, plain, reentrant

MCThreads == {t1, t2}
MCCollectors == {global, plain, reentrant}
\* It unregisters itself.
MCCallBack == [c \in {reentrant} |-> <<"unregister_collector", c>>]
MCMaxErrors == 1
=============================================================================
