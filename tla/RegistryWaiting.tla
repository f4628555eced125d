-------------------------- MODULE RegistryWaiting --------------------------
(***************************************************************************)
(* CollectorRegistry with the threads that wait for its mutex              *)
(* (src/prometheus/registry.cc:22, 31, 40; mutex.hh).                      *)
(*                                                                         *)
(* Registry makes an exclusive section one step that is taken when nobody  *)
(* owns the mutex.  Here a call that finds the mutex taken waits, and is   *)
(* granted the mutex later.  std::shared_timed_mutex does not say whether  *)
(* a new shared owner is let in while a writer waits: libstdc++ over       *)
(* glibc lets it in, libc++ does not.  writersFirst is that choice.  And a *)
(* collector may call back into the registry from its own collect(), where *)
(* its thread is a shared owner already: it then waits for itself.         *)
(***************************************************************************)
EXTENDS Registry

CONSTANTS
  CallBack,     \* CallBack[c]: the call that the collect() of collector c makes,
                \* for those that call back into the registry
  Nothing       \* no call is waiting

Calls == {"register_collector", "unregister_collector"} \X Collectors

ASSUME WaitingAssumption ==
  /\ DOMAIN CallBack \subseteq Collectors
  /\ \A c \in DOMAIN CallBack : CallBack[c] \in Calls
  /\ Nothing \notin Calls

VARIABLES
  waiting,        \* waiting[t]: the call for which t waits for the mutex
  writersFirst    \* TRUE: shared owners wait behind waiting writers

waitVars == <<waiting, writersFirst>>
allVars == <<vars, waitVars>>

Waits(t) == waiting[t] # Nothing

WInit ==
  /\ Init
  /\ waiting = [t \in Threads |-> Nothing]
  /\ writersFirst \in BOOLEAN

\* The body of a call, which runs when its unique_lock owns the mutex.
Body(t, f) ==
  \/ f[1] = "register_collector" /\ register_collector(t, f[2])
  \/ f[1] = "unregister_collector" /\ unregister_collector(t, f[2])

\* std::unique_lock's constructor: the mutex is free ...
CallLocks(t, f) ==
  /\ ~Waits(t)
  /\ Body(t, f)
  /\ UNCHANGED waitVars

\* ... or taken, and the thread waits.
CallWaits(t, f) ==
  /\ ~Waits(t)
  /\ pc[t] = "idle"
  /\ f[2] \in alive
  /\ ~CanLock
  /\ waiting' = [waiting EXCEPT ![t] = f]
  /\ UNCHANGED <<vars, writersFirst>>

\* The mutex wakes one of those that wait once the last owner has left.
Granted(t) ==
  /\ Waits(t)
  /\ Body(t, waiting[t])
  /\ waiting' = [waiting EXCEPT ![t] = Nothing]
  /\ UNCHANGED writersFirst

\* Such a call made inside the collect() of a collector.
CallsBack(t) ==
  /\ ~Waits(t)
  /\ pc[t] = "collecting"
  /\ LET c == collectors_[next[t]] IN
     /\ c \in DOMAIN CallBack
     /\ CallBack[c][2] \in alive
     /\ waiting' = [waiting EXCEPT ![t] = CallBack[c]]
  /\ UNCHANGED <<vars, writersFirst>>

\* A client does not destroy a collector that it has passed to a call.
ClientDestroys(c) ==
  /\ \A t \in Threads : Waits(t) => waiting[t][2] # c
  /\ Destroy(c)
  /\ UNCHANGED waitVars

\* shared_lock's constructor.
MayShare_Always == TRUE                  \* mutant: overtakes waiting writers
MayShare        == writersFirst => \A t \in Threads : ~Waits(t)

ScrapeBegins(t) ==
  /\ ~Waits(t)
  /\ MayShare
  /\ CollectBegin(t)
  /\ UNCHANGED waitVars

ScrapeStep(t) ==
  /\ ~Waits(t)
  /\ CollectStep(t)
  /\ UNCHANGED waitVars

WNext ==
  \/ \E c \in Collectors : (Create(c) /\ UNCHANGED waitVars) \/ ClientDestroys(c)
  \/ \E t \in Threads :
       \/ ScrapeBegins(t)
       \/ ScrapeStep(t)
       \/ CallsBack(t)
       \/ Granted(t)
       \/ \E f \in Calls : CallLocks(t, f) \/ CallWaits(t, f)

WSpec == WInit /\ [][WNext]_allVars

\* A scrape keeps running: its loop is straight-line code and a collect() comes
\* back, normally or with an exception.  The mutex wakes a waiting thread when
\* it stays free; it is not assumed to do so if scrapes keep taking it.
WFairSpec ==
  /\ WSpec
  /\ \A t \in Threads : WF_allVars(ScrapeStep(t)) /\ WF_allVars(Granted(t))

-----------------------------------------------------------------------------
(* Properties *)

\* A thread that waits while it scrapes: it waits for itself.
Reentered(t) == Waits(t) /\ pc[t] = "collecting"

\* A scrape that has taken the lock ends, whatever its collectors throw and
\* whoever waits (registry.cc:39-51): only one that calls back into the
\* registry from a collector never does.
ScrapeEnds == \A t \in Threads : pc[t] # "idle" ~> pc[t] = "idle" \/ Reentered(t)

\* Registering or unregistering a collector ends (registry.cc:22, 31): for ever
\* where the mutex lets a waiting writer go first, and elsewhere as soon as
\* scrapes stop overlapping it, unless a thread waits for itself.  On a mutex
\* that prefers readers, scrapes that keep coming starve the call.
ScrapesStopComing == <>[][owners' \subseteq owners]_owners

WaitingEnds ==
  /\ [](\A t \in Threads : ~Reentered(t))
  /\ []writersFirst \/ ScrapesStopComing
  => \A t \in Threads : Waits(t) ~> ~Waits(t)
=============================================================================
