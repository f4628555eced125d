---------------------------- MODULE AtomicScalar ----------------------------
(***************************************************************************)
(* What the scalar values of values.hh promise: an addition that a thread  *)
(* has asked for is applied exactly once, to the value as it is at that    *)
(* moment, in one step.  Values that can be overwritten do not add.        *)
(***************************************************************************)
CONSTANTS Threads, Values, Overwritable, Double, Zero, Plus(_, _), Nothing

VARIABLES value,     \* value[o]: the value of the object o
          pending    \* pending[t]: the addition t has asked for, or Nothing

vars == <<value, pending>>

Init ==
  /\ value = [o \in Values |-> Zero]
  /\ pending = [t \in Threads |-> Nothing]

Ask(t, o, v) ==
  /\ pending[t] = Nothing
  /\ pending' = [pending EXCEPT ![t] = [object |-> o, amount |-> v]]
  /\ UNCHANGED value

Apply(t) ==
  /\ pending[t] # Nothing
  /\ value' = [value EXCEPT ![pending[t].object] = Plus(@, pending[t].amount)]
  /\ pending' = [pending EXCEPT ![t] = Nothing]

Overwrite(o, v) ==
  /\ value' = [value EXCEPT ![o] = v]
  /\ UNCHANGED pending

Next ==
  \/ \E t \in Threads :
       \/ Apply(t)
       \/ \E o \in Values \ Overwritable, v \in Double : Ask(t, o, v)
  \/ \E o \in Overwritable, v \in Double : Overwrite(o, v)

Spec == Init /\ [][Next]_vars
=============================================================================
