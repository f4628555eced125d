-------------------------- MODULE MCOutputFormatter --------------------------
(***************************************************************************)
(* Collections for TLC.  Single families with every pair of short strings  *)
(* as help text and label value; pairs of families from a pool that holds  *)
(* every shape, the malformed ones of output_formatter_test.cc included;   *)
(* histograms whose levels need more digits than %g keeps.                 *)
(***************************************************************************)
EXTENDS OutputFormatter

CONSTANTS name_a, name_b, label_x, label_y

Chars == {Backslash, Quote, Newline, LetterN, Comma, Invalid}
Strings == BoundedSeq(Chars, 2)

Label(name, value) == [name |-> name, value |-> value]
Metric(label, type, value) == [label |-> label, type |-> type, value |-> value]
Bucket(ub, cc) == [upper_bound |-> ub, cumulative_count |-> cc]
Family(name, help, type, metrics) ==
  [name |-> name, help |-> help, type |-> type, metric |-> metrics]

Escaped ==
  {<<Family(name_a, s, "COUNTER",
            <<Metric(<<Label(label_x, t), Label(label_y, s)>>, "COUNTER", 1)>>)>> :
     s \in Strings, t \in Strings}

Hist(label, buckets) == Metric(label, "HISTOGRAM", buckets)
TwoX == <<Label(label_x, <<Newline>>)>>

Pool == {
  Family(name_a, <<Newline>>, "COUNTER",
         <<Metric(TwoX, "COUNTER", 13), Metric(<<>>, "COUNTER", PlusInf)>>),
  Family(name_b, Unset, "GAUGE",
         <<Metric(TwoX, "GAUGE", -13), Metric(<<>>, "GAUGE", MinusInf)>>),
  Family(name_b, <<>>, "UNTYPED", <<Metric(<<>>, "UNTYPED", Nan)>>),
  Family(name_a, <<>>, "HISTOGRAM",
         <<Hist(TwoX, <<Bucket(5, 1), Bucket(7, 1), Bucket(PlusInf, 2)>>),
           Hist(<<>>, <<Bucket(MinusInf, 0), Bucket(0, 4)>>)>>),
  Family(name_b, <<>>, "HISTOGRAM",
         <<Hist(<<>>, <<Bucket(0, 1), Bucket(1, Unset)>>)>>),
  Family(name_b, <<>>, "HISTOGRAM", <<Hist(<<>>, <<Bucket(Unset, 1)>>)>>),
  Family(name_b, <<>>, "HISTOGRAM", <<Hist(<<>>, <<>>)>>),
  Family(name_b, <<>>, "SUMMARY", <<Metric(<<>>, "SUMMARY", 1)>>),
  Family(name_a, <<>>, "COUNTER", <<>>),
  Family(name_a, <<>>, "COUNTER", <<Metric(<<>>, "COUNTER", 1), Metric(<<>>, "COUNTER", Unset)>>),
  Family(name_a, <<>>, "GAUGE", <<Metric(<<>>, "COUNTER", 1)>>),
  Family(name_a, <<>>, "UNTYPED", <<Metric(<<>>, Unset, Unset)>>),
  Family(Unset, <<>>, "COUNTER", <<>>),
  Family(name_a, <<>>, Unset, <<>>) }

Mixed == {<<>>} \union {<<f>> : f \in Pool} \union {<<f, g>> : f \in Pool, g \in Pool}

\* Consecutive levels of either sign up to 40 with two digits of base 3, up to 8
\* exactly.
Rounded ==
  {<<Family(name_a, <<>>, "HISTOGRAM",
       <<Hist(<<>>, <<Bucket(n, 1), Bucket(n + 1, 2), Bucket(PlusInf, 2)>>)>>)>> :
     n \in -41..40}

MCCollections == Escaped \union Mixed \union Rounded

\* Messages of one to eleven bytes, any of which could pass for a delimiter.
MCSerialize(f) ==
  LET size == 1 + (IF f.help = Unset THEN 0 ELSE 2 * Len(f.help))
                + 3 * Len(f.metric)
  IN  [i \in 1..size |-> (i + Len(f.metric)) % (2 * VarintBase)]
=============================================================================
