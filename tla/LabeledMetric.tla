---------------------------- MODULE LabeledMetric ----------------------------
(***************************************************************************)
(* LabeledMetric (src/prometheus/metrics.hh): a map from sets of label     *)
(* values to values, behind one std::mutex.  labels() hands out references *)
(* into the map, through which clients update the values without the       *)
(* mutex; collect() walks the map under it; remove() and clear() destroy   *)
(* values, and with them the references handed out (metrics.hh:111-123).   *)
(*                                                                         *)
(* A value is a node with an identity, so that a series removed and        *)
(* created again is not the one from before.  Its content is a counter of  *)
(* atomic increments: see ScalarValue for what they are made of.           *)
(***************************************************************************)
EXTENDS Naturals

CONSTANTS
  Threads,
  Keys,       \* the sets of label values
  Nothing,    \* no thread, no key
  MaxNodes,   \* bound on the number of values ever created
  MaxCount    \* bound on the content of a value

ASSUME LabeledAssumption ==
  /\ Nothing \notin Threads \union Keys
  /\ MaxNodes \in Nat
  /\ MaxCount \in Nat

Nodes == 1..MaxNodes
Absent == 0

VARIABLES
  values_,    \* values_[k]: the node of k, or Absent
  made,       \* number of nodes created so far: the next one is made + 1
  count,      \* count[n]: the content of node n
  mutex_,     \* the thread that holds the mutex, or Nothing
  pc,         \* "idle", "labels", "collect"
  key,        \* key[t]: the key of the last labels() of t, or Nothing
  ref,        \* ref[t]: the node whose reference t holds, or Absent
  todo,       \* todo[t]: the keys the loop of collect() has still to visit
  exposed,    \* exposed[t][k]: what the last collect() of t read of k, for
              \* the keys k it has visited
  before      \* before[t][k]: the content of k when that collect() began, for
              \* the keys present then

vars == <<values_, made, count, mutex_, pc, key, ref, todo, exposed, before>>

Present == {k \in Keys : values_[k] # Absent}

Init ==
  /\ values_ = [k \in Keys |-> Absent]
  /\ made = 0
  /\ count = [n \in Nodes |-> 0]
  /\ mutex_ = Nothing
  /\ pc = [t \in Threads |-> "idle"]
  /\ key = [t \in Threads |-> Nothing]
  /\ ref = [t \in Threads |-> Absent]
  /\ todo = [t \in Threads |-> {}]
  /\ exposed = [t \in Threads |-> <<>>]
  /\ before = [t \in Threads |-> <<>>]

CanLock_Ignored == TRUE                         \* mutant: does not wait
CanLock         == mutex_ = Nothing

-----------------------------------------------------------------------------
(* labels(k): insert() finds the place of k, then links a copy of           *)
(* default_value_ there unless a node is found.                             *)

LabelsLooksUp(t, k) ==
  /\ pc[t] = "idle"
  /\ CanLock
  /\ made < MaxNodes \/ k \in Present
  /\ mutex_' = t
  /\ pc' = [pc EXCEPT ![t] = "labels"]
  /\ key' = [key EXCEPT ![t] = k]
  /\ ref' = [ref EXCEPT ![t] = values_[k]]
  /\ UNCHANGED <<values_, made, count, todo, exposed, before>>

LabelsReturns_PastTheNode(t) ==                 \* mutant: wrong reference
  /\ pc[t] = "labels"
  /\ ref[t] = Absent
  /\ made < MaxNodes
  /\ made' = made + 1
  /\ values_' = [values_ EXCEPT ![key[t]] = made + 1]
  /\ ref' = [ref EXCEPT ![t] = made + 2]
  /\ mutex_' = Nothing
  /\ pc' = [pc EXCEPT ![t] = "idle"]
  /\ UNCHANGED <<count, key, todo, exposed, before>>

LabelsReturns(t) ==
  /\ pc[t] = "labels"
  /\ \/ /\ ref[t] # Absent
        /\ UNCHANGED <<values_, made, ref>>
     \/ /\ ref[t] = Absent
        /\ made < MaxNodes
        /\ made' = made + 1
        /\ values_' = [values_ EXCEPT ![key[t]] = made + 1]
        /\ ref' = [ref EXCEPT ![t] = made + 1]
  /\ mutex_' = Nothing
  /\ pc' = [pc EXCEPT ![t] = "idle"]
  /\ UNCHANGED <<count, key, todo, exposed, before>>

\* A client increments the value it has a reference to, without the mutex.
Increment(t) ==
  /\ pc[t] = "idle"
  /\ ref[t] # Absent
  /\ count[ref[t]] < MaxCount
  /\ count' = [count EXCEPT ![ref[t]] = @ + 1]
  /\ UNCHANGED <<values_, made, mutex_, pc, key, ref, todo, exposed, before>>

\* remove(k) and clear(), on the sets of keys {k} and Keys.  The clients know
\* which references this invalidates and forget them.
Erase_Unlocked(ks) ==                           \* mutant: does not wait
  /\ values_' = [k \in Keys |-> IF k \in ks THEN Absent ELSE values_[k]]
  /\ ref' = [t \in Threads |-> IF key[t] \in ks THEN Absent ELSE ref[t]]
  /\ key' = [t \in Threads |-> IF key[t] \in ks THEN Nothing ELSE key[t]]
  /\ UNCHANGED <<made, count, mutex_, pc, todo, exposed, before>>

Erase(ks) ==
  /\ CanLock
  /\ values_' = [k \in Keys |-> IF k \in ks THEN Absent ELSE values_[k]]
  /\ ref' = [t \in Threads |-> IF key[t] \in ks THEN Absent ELSE ref[t]]
  /\ key' = [t \in Threads |-> IF key[t] \in ks THEN Nothing ELSE key[t]]
  /\ UNCHANGED <<made, count, mutex_, pc, todo, exposed, before>>

remove(t, k) == pc[t] = "idle" /\ Erase({k})
clear(t)     == pc[t] = "idle" /\ Erase(Keys)

-----------------------------------------------------------------------------
(* collect(mf) *)

CollectBegin(t) ==
  /\ pc[t] = "idle"
  /\ CanLock
  /\ mutex_' = t
  /\ pc' = [pc EXCEPT ![t] = "collect"]
  /\ todo' = [todo EXCEPT ![t] = Present]
  /\ exposed' = [exposed EXCEPT ![t] = <<>>]
  /\ before' = [before EXCEPT ![t] = [k \in Present |-> count[values_[k]]]]
  /\ UNCHANGED <<values_, made, count, key, ref>>

\* One iteration, in the map's own order: collect_value reads the node.
collect_value_Default(k) == 0                   \* mutant: default_value_
collect_value(k)         == count[values_[k]]

CollectSeries(t, k) ==
  /\ pc[t] = "collect"
  /\ k \in todo[t]
  /\ exposed' = [exposed EXCEPT ![t] =
       [x \in DOMAIN @ \union {k} |-> IF x = k THEN collect_value(k) ELSE @[x]]]
  /\ todo' = [todo EXCEPT ![t] = @ \ {k}]
  /\ UNCHANGED <<values_, made, count, mutex_, pc, key, ref, before>>

CollectReturns(t) ==
  /\ pc[t] = "collect"
  /\ todo[t] = {}
  /\ mutex_' = Nothing
  /\ pc' = [pc EXCEPT ![t] = "idle"]
  /\ UNCHANGED <<values_, made, count, key, ref, todo, exposed, before>>

Next == \E t \in Threads :
  \/ LabelsReturns(t)
  \/ Increment(t)
  \/ clear(t)
  \/ CollectBegin(t)
  \/ CollectReturns(t)
  \/ \E k \in Keys : LabelsLooksUp(t, k) \/ remove(t, k) \/ CollectSeries(t, k)

Spec == Init /\ [][Next]_vars
-----------------------------------------------------------------------------
(* Properties *)

IsPartialCount(f) == DOMAIN f \subseteq Keys /\ f \in [DOMAIN f -> Nat]

\* Every variable keeps its type.
TypeOK ==
  /\ values_ \in [Keys -> Nodes \union {Absent}]
  /\ made \in 0..MaxNodes
  /\ count \in [Nodes -> Nat]
  /\ mutex_ \in Threads \union {Nothing}
  /\ pc \in [Threads -> {"idle", "labels", "collect"}]
  /\ key \in [Threads -> Keys \union {Nothing}]
  /\ ref \in [Threads -> Nodes \union {Absent}]
  /\ todo \in [Threads -> SUBSET Keys]
  /\ \A t \in Threads : IsPartialCount(exposed[t]) /\ IsPartialCount(before[t])

\* A reference from labels(k) stays a reference to the value that scrapes
\* expose for k, until k is removed or the metric cleared: two threads that ask
\* for a new k at the same time get the same value, and creating or removing
\* other series does not disturb it.
ReferencesAreCurrent ==
  \A t \in Threads : ref[t] # Absent =>
    key[t] \in Keys /\ values_[key[t]] = ref[t]

\* Two sets of label values never share a value.
NodesAreNotShared ==
  \A j, k \in Present : values_[j] = values_[k] => j = k

\* What a scrape exposes of a series includes every increment that returned
\* before the scrape took the mutex, though increments do not take it.
ExposedIncludesEarlier ==
  \A t \in Threads : \A k \in DOMAIN exposed[t] :
    k \in DOMAIN before[t] /\ before[t][k] <= exposed[t][k]

\* A scrape exposes exactly the series that exist when it takes the mutex.
Abstract == INSTANCE SnapshotCollection WITH
  Items     <- Keys,
  members   <- Present,
  view      <- [t \in Threads |-> IF pc[t] = "collect" THEN Present ELSE {}],
  failed    <- [t \in Threads |-> {}],
  open      <- {t \in Threads : pc[t] = "collect"},
  delivered <- [t \in Threads |-> IF pc[t] = "collect" THEN {}
                                  ELSE DOMAIN exposed[t]],
  errors    <- 0

ImplementsSnapshot == Abstract!Spec
=============================================================================
