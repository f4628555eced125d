------------------------- MODULE SnapshotCollection -------------------------
(***************************************************************************)
(* What a collection of metric sources promises to the threads that scrape *)
(* it (registry.hh and collector.hh, in the abstract): a scrape observes   *)
(* the members of one instant.  Members come and go, but never under a     *)
(* scrape in progress; a member that fails is counted once and costs the   *)
(* scrape exactly its own families; a scrape that ends delivers all others.*)
(* CollectorRegistry implements it with collectors as members, Collector   *)
(* with metrics, LabeledMetric with the sets of label values.              *)
(***************************************************************************)
EXTENDS Naturals

CONSTANTS Threads, Items

VARIABLES members,    \* the registered items
          view,       \* view[t]: the items the scrape of t works on
          failed,     \* failed[t]: the items of view[t] that have failed
          open,       \* the threads that are scraping
          delivered,  \* delivered[t]: what the last scrape of t returned
          errors      \* number of failures since the start

vars == <<members, view, failed, open, delivered, errors>>

Init ==
  /\ members \in SUBSET Items
  /\ view = [t \in Threads |-> {}]
  /\ failed = [t \in Threads |-> {}]
  /\ open = {}
  /\ delivered = [t \in Threads |-> {}]
  /\ errors = 0

\* Membership only changes while nobody scrapes.
Change(m) ==
  /\ open = {}
  /\ members' = m
  /\ UNCHANGED <<view, failed, open, delivered, errors>>

Open(t) ==
  /\ t \notin open
  /\ open' = open \union {t}
  /\ view' = [view EXCEPT ![t] = members]
  /\ delivered' = [delivered EXCEPT ![t] = {}]
  /\ UNCHANGED <<members, failed, errors>>

Fail(t, x) ==
  /\ t \in open
  /\ x \in view[t] \ failed[t]
  /\ failed' = [failed EXCEPT ![t] = @ \union {x}]
  /\ errors' = errors + 1
  /\ UNCHANGED <<members, view, open, delivered>>

Leave(t, families) ==
  /\ t \in open
  /\ open' = open \ {t}
  /\ view' = [view EXCEPT ![t] = {}]
  /\ failed' = [failed EXCEPT ![t] = {}]
  /\ delivered' = [delivered EXCEPT ![t] = families]
  /\ UNCHANGED <<members, errors>>

Deliver(t) == Leave(t, view[t] \ failed[t])
Abort(t)   == Leave(t, {})

Next ==
  \/ \E m \in SUBSET Items : Change(m)
  \/ \E t \in Threads :
       \/ Open(t) \/ Deliver(t) \/ Abort(t)
       \/ \E x \in Items : Fail(t, x)

Spec == Init /\ [][Next]_vars
=============================================================================
