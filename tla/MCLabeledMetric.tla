--------------------------- MODULE MCLabeledMetric ---------------------------
(* Instance of LabeledMetric for TLC: two threads, two series. *)
EXTENDS LabeledMetric

CONSTANTS t1, t2, k1, k2

MCThreads == {t1, t2}
MCKeys == {k1, k2}
=============================================================================
