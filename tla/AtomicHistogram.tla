--------------------------- MODULE AtomicHistogram ---------------------------
(***************************************************************************)
(* What a histogram promises: an observation counts in all its buckets and *)
(* in the sum at once, and what is exposed is a state between two          *)
(* observations.                                                           *)
(***************************************************************************)
EXTENDS Naturals

CONSTANTS Threads,
          Buckets,             \* the indices of the buckets
          Observations,        \* the values clients observe
          AtMost(_, _),        \* AtMost(v, b): v counts in bucket b
          Sum, Plus(_, _),     \* the values of the sum, and their addition
          Fresh,               \* the sums a new histogram may hold
          Nothing

VARIABLES counts, sum,         \* the histogram
          pending,             \* pending[t]: what t is observing, or Nothing
          snapshot             \* snapshot[t]: what t exposed, or Nothing

vars == <<counts, sum, pending, snapshot>>

Init ==
  /\ counts = [b \in Buckets |-> 0]
  /\ sum \in Fresh
  /\ pending = [t \in Threads |-> Nothing]
  /\ snapshot = [t \in Threads |-> Nothing]

Ask(t, v) ==
  /\ pending[t] = Nothing
  /\ pending' = [pending EXCEPT ![t] = v]
  /\ UNCHANGED <<counts, sum, snapshot>>

Observe(t) ==
  /\ pending[t] # Nothing
  /\ counts' = [b \in Buckets |->
                  counts[b] + (IF AtMost(pending[t], b) THEN 1 ELSE 0)]
  /\ sum' = Plus(sum, pending[t])
  /\ pending' = [pending EXCEPT ![t] = Nothing]
  /\ UNCHANGED snapshot

Expose(t) ==
  /\ snapshot' = [snapshot EXCEPT ![t] = [counts |-> counts, sum |-> sum]]
  /\ UNCHANGED <<counts, sum, pending>>

\* Another exposition begins, which has shown nothing yet.
Forget(t) ==
  /\ snapshot' = [snapshot EXCEPT ![t] = Nothing]
  /\ UNCHANGED <<counts, sum, pending>>

Next == \E t \in Threads :
  \/ Observe(t) \/ Expose(t) \/ Forget(t)
  \/ \E v \in Observations : Ask(t, v)

Spec == Init /\ [][Next]_vars
=============================================================================
