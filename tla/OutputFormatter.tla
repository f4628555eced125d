--------------------------- MODULE OutputFormatter ---------------------------
(***************************************************************************)
(* The text and the delimited protobuf exposition of a collection          *)
(* (src/prometheus/output_formatter.cc): one call of render(), a line or a *)
(* message at a time, and every place where it throws.                     *)
(*                                                                         *)
(* A string is a sequence of characters.  Names, numbers and the fixed     *)
(* pieces of the format are one character each; what a user chooses        *)
(* freely, help texts and label values, is spelled out, because the format *)
(* depends on escaping it.                                                 *)
(***************************************************************************)
EXTENDS Integers, Sequences, SequencesExt, FiniteSetsExt

CONSTANTS
  Collections,                  \* what render() is called with
  Backslash, Quote, Newline, LetterN, Comma,
  Invalid, Replacement,         \* a byte that is not UTF-8; U+FFFD
  Help, Type, Open, Close, Equals, le,
  PlusInf, MinusInf, Nan,
  Unset,                        \* an optional field that has no value
  Base, Leading,                \* 10 and 10^5: the digits of %g, and the least
                                \* number with as many of them as it keeps
  VarintBase,                   \* 2^7: what one byte of a varint holds
  Serialize(_),                 \* the bytes of a MetricFamily (protobuf)
  Nothing

Types == {"COUNTER", "GAUGE", "SUMMARY", "UNTYPED", "HISTOGRAM"}

\* Repeated fields are sequences, and a message has the fields of its type.
IsSequence(s) == s \in Seq(ToSet(s))

IsCollection(c) ==
  /\ IsSequence(c)
  /\ \A i \in DOMAIN c :
       /\ c[i].type \in Types \union {Unset}
       /\ IsSequence(c[i].metric)
       /\ \A j \in DOMAIN c[i].metric :
            c[i].metric[j].type = "HISTOGRAM" => IsSequence(c[i].metric[j].value)

Byte == 0..(2 * VarintBase - 1)

ASSUME OutputFormatterAssumption ==
  /\ Base \in Nat \ {0, 1}
  /\ Leading \in Nat \ {0}
  /\ VarintBase \in Nat \ {0, 1}
  /\ {PlusInf, MinusInf, Nan} \intersect Int = {}
  /\ \A c \in Collections :
       IsCollection(c) /\ \A i \in DOMAIN c : Serialize(c[i]) \in Seq(Byte)

VARIABLES
  collection,   \* the argument
  format,       \* fmt_text or fmt_proto
  to_string,    \* the overload that returns a string, or the ostream's
  fam, met, bkt,  \* the iterators of the three nested loops
  stage,        \* "family", "metric", "bucket", "returned", "threw"
  os,           \* the stream
  reserved,     \* capacity reserved for the string of fmt_proto
  result        \* the string returned, or Nothing

renderVars == <<collection, format, to_string, fam, met, bkt, stage, os, reserved, result>>

-----------------------------------------------------------------------------
(* The escape functions *)

\* icu::UnicodeString::fromUTF8
fromUTF8(s) == [i \in DOMAIN s |-> IF s[i] = Invalid THEN Replacement ELSE s[i]]

findAndReplace(s, c, new) ==
  FlattenSeq([i \in DOMAIN s |-> IF s[i] = c THEN new ELSE <<s[i]>>])

escape_help(s) ==
  findAndReplace(findAndReplace(fromUTF8(s), Backslash, <<Backslash, Backslash>>),
                 Newline, <<Backslash, LetterN>>)

escape_label_value_NewlineFirst(s) ==           \* mutant: swapped order
  <<Quote>>
  \o findAndReplace(
       findAndReplace(findAndReplace(fromUTF8(s), Newline, <<Backslash, LetterN>>),
                      Backslash, <<Backslash, Backslash>>),
       Quote, <<Backslash, Quote>>)
  \o <<Quote>>

escape_label_value(s) ==
  <<Quote>>
  \o findAndReplace(
       findAndReplace(findAndReplace(fromUTF8(s), Backslash, <<Backslash, Backslash>>),
                      Quote, <<Backslash, Quote>>),
       Newline, <<Backslash, LetterN>>)
  \o <<Quote>>

\* d rounded to a multiple of unit, ties to the even multiple.
RoundTo(d, unit) ==
  LET q == d \div unit
      r == d % unit
  IN  unit * IF (2 * r > unit) \/ (2 * r = unit /\ q % 2 = 1) THEN q + 1 ELSE q

\* What the last of the digits that are kept counts.
Unit(d) ==
  LET unit[n \in Nat] == IF n < Base * Leading THEN 1 ELSE Base * unit[n \div Base]
  IN  unit[d]

\* The number that the sign and the digits of snprintf("%g") denote.
PercentG(d) == IF d < 0 THEN -RoundTo(-d, Unit(-d)) ELSE RoundTo(d, Unit(d))

escape_double_Unsigned(d) ==                    \* mutant: sign not looked at
  IF d \in {PlusInf, MinusInf} THEN MinusInf
  ELSE IF d = Nan THEN Nan ELSE PercentG(d)

escape_double(d) ==
  IF d \in {PlusInf, MinusInf, Nan} THEN d ELSE PercentG(d)

-----------------------------------------------------------------------------
(* The lines of the text format *)

\* Names, numbers and types are characters that the format gives no meaning,
\* which the code relies on (output_formatter.cc:250, 264); what a user chooses
\* freely is a string.
IsWord(c) == c \notin {Backslash, Quote, Newline, Help, Type, Equals}
IsNumber(d) ==
  \/ d = Unset
  \/ IsWord(escape_double(d)) /\ <<escape_double(d)>> # Equals
IsLabel(l) == /\ IsWord(l.name)
              /\ IsSequence(l.value) /\ fromUTF8(l.value) # Equals

IsText(c) ==
  \A i \in DOMAIN c :
    /\ IsWord(c[i].name) /\ IsWord(c[i].type)
    /\ c[i].help = Unset \/ IsSequence(c[i].help)
    /\ \A j \in DOMAIN c[i].metric :
         LET x == c[i].metric[j] IN
         /\ IsSequence(x.label) /\ \A k \in DOMAIN x.label : IsLabel(x.label[k])
         /\ x.type # "HISTOGRAM" => IsNumber(x.value)
         /\ x.type = "HISTOGRAM" => \A k \in DOMAIN x.value :
              IsNumber(x.value[k].upper_bound) /\ IsWord(x.value[k].cumulative_count)

ASSUME TextAssumption ==
  /\ IsInjective(<<Backslash, Quote, Newline, LetterN, Comma, Help, Type, Open,
                   Close, Equals, le>>)
  /\ \A c \in Collections : IsText(c)

\* metric_labels_proto_to_ostream
LabelList(label) ==
  FlattenSeq([i \in DOMAIN label |->
    <<label[i].name, Equals>> \o escape_label_value(label[i].value)
      \o IF i < Len(label) THEN <<Comma>> ELSE <<>>])

\* metric_proto_to_ostream_common, then the value
ScalarLine(name, m) ==
  <<name>>
  \o (IF Len(m.label) > 0 THEN <<Open>> \o LabelList(m.label) \o <<Close>> ELSE <<>>)
  \o <<escape_double(m.value), Newline>>

BucketLine(name, m, b) ==
  <<name, Open>>
  \o LabelList(m.label)
  \o (IF Len(m.label) > 0 THEN <<Comma>> ELSE <<>>)
  \o <<le, Equals, Quote, escape_double(b.upper_bound), Quote, Close,
       b.cumulative_count, Newline>>

\* The guard of the TYPE line asks for the help text.
Header(mf) ==
  LET help == IF mf.help = Unset THEN <<>> ELSE mf.help
  IN  <<Help, mf.name>> \o escape_help(help) \o <<Newline>>
      \o IF mf.help # Unset THEN <<Type, mf.name, mf.type, Newline>> ELSE <<>>

\* The optional fields that each level of the format insists on.
HeaderComplete(mf) == mf.name # Unset /\ mf.type # Unset
HasScalar(m, type) == m.type = type /\ m.value # Unset
HasBuckets(m) == m.type = "HISTOGRAM" /\ Len(m.value) > 0
BucketComplete_BoundOnly(b) == b.upper_bound # Unset        \* mutant
BucketComplete(b) == b.upper_bound # Unset /\ b.cumulative_count # Unset

-----------------------------------------------------------------------------
(* Delimited protobuf *)

\* WriteVarint32: the low digits first, a continuation mark on all but the last.
Varint(n) ==
  LET bytes[k \in Nat] ==
        IF k < VarintBase THEN <<k>>
        ELSE <<VarintBase + (k % VarintBase)>> \o bytes[k \div VarintBase]
  IN  bytes[n]

Frame_NoDelimiter(mf) == Serialize(mf)                      \* mutant
Frame(mf) == Varint(Len(Serialize(mf))) \o Serialize(mf)

calculate_proto_delimited_size(c) ==
  SumFunction([i \in DOMAIN c |->
                 Len(Serialize(c[i])) + Len(Varint(Len(Serialize(c[i]))))])

-----------------------------------------------------------------------------
(* render() *)

RenderInit ==
  /\ collection \in Collections
  /\ format \in {"fmt_text", "fmt_proto"}
  /\ to_string \in BOOLEAN
  /\ fam = 1 /\ met = 1 /\ bkt = 1
  /\ stage = "family"
  /\ os = <<>>
  /\ reserved = IF format = "fmt_proto" /\ to_string
                THEN calculate_proto_delimited_size(collection) ELSE 0
  /\ result = Nothing

family == collection[fam]
metric == family.metric[met]

Write(chars) == os' = os \o chars

\* An OutputFormatterException: what has been written stays in the stream, and
\* the overload that would return a string returns none.
Throw ==
  /\ stage' = "threw"
  /\ UNCHANGED <<fam, met, bkt, os, result>>

\* metricfamily_proto_to_ostream, up to its loop
WriteHeader ==
  /\ stage = "family" /\ format = "fmt_text" /\ fam <= Len(collection)
  /\ IF HeaderComplete(family)
     THEN /\ Write(Header(family))
          /\ stage' = "metric" /\ met' = 1
          /\ UNCHANGED <<fam, bkt, result>>
     ELSE Throw

\* counter_, gauge_ and untyped_proto_to_ostream
WriteScalar ==
  /\ stage = "metric" /\ met <= Len(family.metric)
  /\ family.type \in {"COUNTER", "GAUGE", "UNTYPED"}
  /\ IF HasScalar(metric, family.type)
     THEN /\ Write(ScalarLine(family.name, metric))
          /\ met' = met + 1
          /\ UNCHANGED <<fam, bkt, stage, result>>
     ELSE Throw

\* summary_proto_to_ostream
WriteSummary ==
  /\ stage = "metric" /\ met <= Len(family.metric)
  /\ family.type = "SUMMARY"
  /\ Throw

\* histogram_proto_to_ostream, up to its loop
WriteHistogram ==
  /\ stage = "metric" /\ met <= Len(family.metric)
  /\ family.type = "HISTOGRAM"
  /\ IF HasBuckets(metric)
     THEN /\ stage' = "bucket" /\ bkt' = 1
          /\ UNCHANGED <<fam, met, os, result>>
     ELSE Throw

WriteBucket ==
  /\ stage = "bucket" /\ bkt <= Len(metric.value)
  /\ IF BucketComplete(metric.value[bkt])
     THEN /\ Write(BucketLine(family.name, metric, metric.value[bkt]))
          /\ bkt' = bkt + 1
          /\ UNCHANGED <<fam, met, stage, result>>
     ELSE Throw

NextMetric ==
  /\ stage = "bucket" /\ bkt > Len(metric.value)
  /\ stage' = "metric" /\ met' = met + 1
  /\ UNCHANGED <<fam, bkt, os, result>>

NextFamily ==
  /\ stage = "metric" /\ met > Len(family.metric)
  /\ stage' = "family" /\ fam' = fam + 1
  /\ UNCHANGED <<met, bkt, os, result>>

\* One message of protobuf_delimited
WriteFrame ==
  /\ stage = "family" /\ format = "fmt_proto" /\ fam <= Len(collection)
  /\ Write(Frame(family))
  /\ fam' = fam + 1
  /\ UNCHANGED <<met, bkt, stage, result>>

Return ==
  /\ stage = "family" /\ fam > Len(collection)
  /\ stage' = "returned"
  /\ result' = IF to_string THEN os ELSE Nothing
  /\ UNCHANGED <<fam, met, bkt, os>>

RenderNext ==
  /\ \/ WriteHeader \/ WriteScalar \/ WriteSummary \/ WriteHistogram
     \/ WriteBucket \/ NextMetric \/ NextFamily \/ WriteFrame \/ Return
  /\ UNCHANGED <<collection, format, to_string, reserved>>

RenderSpec == RenderInit /\ [][RenderNext]_renderVars

-----------------------------------------------------------------------------
(* A reader of the text format, as Prometheus reads it: the reference that *)
(* the writer is checked against.  It goes through the stream once.        *)

ReadStart == [lines |-> <<>>, line |-> <<>>, mode |-> "line",
              text |-> <<>>, escaped |-> FALSE]

ReadChar(r, c) ==
  CASE r.escaped ->
         [r EXCEPT !.escaped = FALSE,
                   !.text = Append(@, IF c = LetterN THEN Newline ELSE c)]
    [] ~r.escaped /\ c = Newline ->
         [ReadStart EXCEPT !.lines = Append(r.lines,
            IF r.mode = "help" THEN Append(r.line, r.text) ELSE r.line)]
    [] ~r.escaped /\ r.mode \in {"help", "quoted"} /\ c = Backslash ->
         [r EXCEPT !.escaped = TRUE]
    [] ~r.escaped /\ r.mode = "quoted" /\ c = Quote ->
         [r EXCEPT !.mode = "line", !.line = Append(@, r.text)]
    [] ~r.escaped /\ ( \/ r.mode = "help" /\ c \notin {Backslash, Newline}
                       \/ r.mode = "quoted" /\ c \notin {Backslash, Newline, Quote}) ->
         [r EXCEPT !.text = Append(@, c)]
    [] ~r.escaped /\ r.mode = "line" /\ c = Quote ->
         [r EXCEPT !.mode = "quoted", !.text = <<>>]
    [] ~r.escaped /\ r.mode = "line" /\ c \notin {Quote, Newline} ->
         [r EXCEPT !.line = Append(@, c), !.mode = IF c = Help THEN "name" ELSE @]
    [] ~r.escaped /\ r.mode = "name" /\ c # Newline ->
         [r EXCEPT !.line = Append(@, c), !.mode = "help"]

\* Where a reader that is at r is after some more characters.
ReadOn(r, chars) ==
  LET after[i \in 0..Len(chars)] ==
        IF i = 0 THEN r ELSE ReadChar(after[i - 1], chars[i])
  IN  after[Len(chars)]

\* A sample is a name, a set of labels and a value, however it is spelled.
AsRead(line) ==
  IF line[1] \in {Help, Type} THEN [header |-> line]
  ELSE LET eq == {p \in DOMAIN line : line[p] = Equals}
       IN  [name |-> line[1], value |-> Last(line),
            labels |-> {<<line[p - 1], line[p + 1]>> : p \in eq}]

Read(chars) ==
  LET lines == ReadOn(ReadStart, chars).lines
  IN  [i \in DOMAIN lines |-> AsRead(lines[i])]

\* The number that a varint at position p holds, and where it ends.
ReadNumber(chars, p) ==
  LET read[q \in DOMAIN chars] ==
        IF chars[q] < VarintBase \/ q = Len(chars)
        THEN [value |-> chars[q] % VarintBase, next |-> q + 1]
        ELSE [value |-> (chars[q] % VarintBase) + VarintBase * read[q + 1].value,
              next  |-> read[q + 1].next]
  IN  read[p]

\* Where the message at position p begins, and the next one.
MessageAt(chars, p) == ReadNumber(chars, p).next
NextAt(chars, p) == ReadNumber(chars, p).next + ReadNumber(chars, p).value

\* The messages that a reader finds from there on, up to one that is cut off.
ReadFrames(chars) ==
  LET frames[p \in 1..(Len(chars) + 1)] ==
        IF p > Len(chars) \/ NextAt(chars, p) > Len(chars) + 1 THEN <<>>
        ELSE <<SubSeq(chars, MessageAt(chars, p), NextAt(chars, p) - 1)>>
               \o frames[NextAt(chars, p)]
  IN  frames[1]

-----------------------------------------------------------------------------
(* What the text should say, from the protobuf messages themselves. *)

LabelSet(x) ==
  {<<x.label[i].name, fromUTF8(x.label[i].value)>> : i \in DOMAIN x.label}

SampleOf(name, x, b) ==
  IF BucketComplete(b)
  THEN <<[name |-> name, value |-> b.cumulative_count,
          labels |-> LabelSet(x) \union {<<le, <<escape_double(b.upper_bound)>> >>}]>>
  ELSE <<>>

SamplesOf(name, type, x) ==
  CASE HasScalar(x, type) /\ type \in {"COUNTER", "GAUGE", "UNTYPED"} ->
         <<[name |-> name, labels |-> LabelSet(x), value |-> escape_double(x.value)]>>
    [] HasBuckets(x) /\ type = "HISTOGRAM" ->
         FlattenSeq([k \in DOMAIN x.value |-> SampleOf(name, x, x.value[k])])
    [] OTHER -> <<>>

HeadersOf(f) ==
  IF f.help = Unset THEN <<[header |-> <<Help, f.name, <<>> >>]>>
  ELSE <<[header |-> <<Help, f.name, fromUTF8(f.help)>>],
         [header |-> <<Type, f.name, f.type>>]>>

FamilyMeaning(f) ==
  HeadersOf(f) \o FlattenSeq([j \in DOMAIN f.metric |-> SamplesOf(f.name, f.type, f.metric[j])])

Meaning(c) == FlattenSeq([i \in DOMAIN c |-> FamilyMeaning(c[i])])

\* A family that the text format refuses.
Malformed(f) ==
  \/ f.name = Unset \/ f.type = Unset
  \/ \E j \in DOMAIN f.metric :
       LET x == f.metric[j] IN
       CASE f.type = "SUMMARY" -> TRUE
         [] f.type = "HISTOGRAM" ->
              ~HasBuckets(x) \/ \E k \in DOMAIN x.value :
                Unset \in {x.value[k].upper_bound, x.value[k].cumulative_count}
         [] OTHER -> ~HasScalar(x, f.type)

\* d <= e for the numbers that levels are.
AtMost(d, e) ==
  \/ d = MinusInf \/ e = PlusInf
  \/ d \in Int /\ e \in Int /\ d <= e

\* What the metrics of this library hand out (values.cc:101-110, 131-144): the
\* levels of a histogram in increasing order, with cumulative counts; and labels
\* that are never the level's own, and not those of the histogram before.
IsOrdered(c) ==
  \A i \in DOMAIN c : \A j \in DOMAIN c[i].metric :
    LET x == c[i].metric[j] IN
    /\ \A l \in LabelSet(x) : l[1] # le
    /\ c[i].type = "HISTOGRAM" /\ j > 1 => LabelSet(x) # LabelSet(c[i].metric[j - 1])
    /\ HasBuckets(x) => \A k \in 1..(Len(x.value) - 1) :
         LET b == x.value[k]
             n == x.value[k + 1]
         IN  Unset \notin {b.upper_bound, b.cumulative_count,
                           n.upper_bound, n.cumulative_count} =>
               /\ AtMost(b.upper_bound, n.upper_bound)
               /\ b.cumulative_count <= n.cumulative_count

ASSUME HistogramsAssumption == \A c \in Collections : IsOrdered(c)

-----------------------------------------------------------------------------
(* Properties *)

\* Whatever backslashes, quotes, newlines, commas and bytes that are not UTF-8
\* the help texts and label values hold, a reader finds in the text the families
\* of the collection, their samples and their labels, in order, and nothing
\* else.  At any moment before the end, or after an exception, it finds a
\* beginning of that (output_formatter.cc:109-247, 255-277).
TextReadsBack ==
  format = "fmt_text" =>
    /\ stage = "returned" => Read(os) = Meaning(collection)
    /\ IsPrefix(Read(os), Meaning(collection))

\* A reader of the delimited protobuf finds the messages, and the string was
\* reserved at exactly its final size (output_formatter.cc:54-83).
FramesReadBack ==
  stage = "returned" /\ format = "fmt_proto" =>
    /\ ReadFrames(os) = [i \in DOMAIN collection |-> Serialize(collection[i])]
    /\ to_string => Len(os) = reserved

\* The text is refused exactly if some family lacks a required field or is a
\* summary; protobuf never is; and the overload that returns a string returns
\* the whole rendering or nothing (output_formatter.cc:40-45, 131-235).
ThrowsIffMalformed ==
  LET bad == format = "fmt_text" /\ \E i \in DOMAIN collection : Malformed(collection[i])
  IN  /\ stage = "threw" => bad
      /\ stage = "returned" => ~bad
      /\ result # Nothing => stage = "returned" /\ result = os

\* The buckets of a histogram are still in increasing order, and cumulative,
\* once their levels have lost digits to %g (output_formatter.cc:168-183, 279).
BucketsStayOrdered ==
  LET text == IF format = "fmt_text" /\ stage = "returned" THEN Read(os) ELSE <<>>
      Level(x) == {l \in x.labels : l[1] = le}
      SameSeries(x, y) == /\ "labels" \in DOMAIN x \intersect DOMAIN y
                          /\ x.name = y.name
                          /\ x.labels \ Level(x) = y.labels \ Level(y)
                          /\ Level(x) # {} /\ Level(y) # {}
      Bound(x) == (CHOOSE l \in Level(x) : TRUE)[2][1]
  IN  \A i \in 1..(Len(text) - 1) : SameSeries(text[i], text[i + 1]) =>
        /\ AtMost(Bound(text[i]), Bound(text[i + 1]))
        /\ text[i].value <= text[i + 1].value
=============================================================================
