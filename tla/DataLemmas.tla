----------------------------- MODULE DataLemmas -----------------------------
(***************************************************************************)
(* Lemmas about lists without repetition, for the vectors of collectors    *)
(* and of metrics; induction over numbers and over finite sets, each       *)
(* stated for the set of what satisfies the statement; and what it shows   *)
(* of folds over finite sets, of the sums of functions, and of recursion   *)
(* on an argument that goes down.                                          *)
(***************************************************************************)
EXTENDS SequencesExt, SequenceTheorems, FiniteSetTheorems,
        WellFoundedInduction, TLAPS

\* Appending adds exactly the new element to the members.
LEMMA AppendMembers ==
  ASSUME NEW S, NEW s \in Seq(S), NEW e \in S
  PROVE  ToSet(Append(s, e)) = ToSet(s) \union {e}
<1>1. /\ Append(s, e) \in Seq(S)
      /\ Len(Append(s, e)) = Len(s) + 1
      /\ \A i \in 1..Len(s) : Append(s, e)[i] = s[i]
      /\ Append(s, e)[Len(s) + 1] = e
  BY AppendProperties
<1>2. DOMAIN s = 1..Len(s) /\ DOMAIN Append(s, e) = 1..(Len(s) + 1) /\ Len(s) \in Nat
  BY <1>1, LenProperties
<1> QED BY <1>1, <1>2 DEF ToSet

\* Appending an element that is not in the list creates no repetition.
LEMMA AppendNoRepetition ==
  ASSUME NEW S, NEW s \in Seq(S), IsInjective(s), NEW e \in S, e \notin ToSet(s)
  PROVE  IsInjective(Append(s, e))
<1>1. /\ Append(s, e) \in Seq(S)
      /\ Len(Append(s, e)) = Len(s) + 1
      /\ \A i \in 1..Len(s) : Append(s, e)[i] = s[i]
      /\ Append(s, e)[Len(s) + 1] = e
  BY AppendProperties
<1>2. DOMAIN s = 1..Len(s) /\ DOMAIN Append(s, e) = 1..(Len(s) + 1) /\ Len(s) \in Nat
  BY <1>1, LenProperties
<1> QED BY <1>1, <1>2 DEF ToSet, IsInjective

\* What a list looks like with an element put in front of it.
LEMMA PrependElements ==
  ASSUME NEW S, NEW s \in Seq(S), NEW e \in S
  PROVE  /\ <<e>> \o s \in Seq(S)
         /\ DOMAIN (<<e>> \o s) = 1..(Len(s) + 1)
         /\ (<<e>> \o s)[1] = e
         /\ \A i \in 2..(Len(s) + 1) :
              i - 1 \in DOMAIN s /\ (<<e>> \o s)[i] = s[i - 1]
         /\ ToSet(<<e>> \o s) = {e} \union ToSet(s)
<1> DEFINE p == <<e>> \o s
<1>1. <<e>> \in Seq(S) /\ Len(<<e>>) = 1 /\ <<e>>[1] = e
  OBVIOUS
<1>2. /\ p \in Seq(S)
      /\ Len(p) = 1 + Len(s)
      /\ \A i \in 1..(1 + Len(s)) : p[i] = IF i <= 1 THEN <<e>>[i] ELSE s[i - 1]
  BY <1>1, ConcatProperties
<1> HIDE DEF p
<1>3. /\ Len(s) \in Nat /\ DOMAIN s = 1..Len(s)
      /\ DOMAIN p = 1..(Len(s) + 1)
  BY <1>2, LenProperties
<1>4. p[1] = e
  BY <1>1, <1>2, <1>3
<1>5. \A i \in 2..(Len(s) + 1) : i - 1 \in DOMAIN s /\ p[i] = s[i - 1]
  BY <1>2, <1>3
<1>6. ToSet(p) \subseteq {e} \union ToSet(s)
  <2> SUFFICES ASSUME NEW i \in DOMAIN p PROVE p[i] \in {e} \union ToSet(s)
    BY DEF ToSet
  <2>1. i = 1 \/ i \in 2..(Len(s) + 1)
    BY <1>3
  <2> QED BY <1>4, <1>5, <2>1 DEF ToSet
<1>7. \A i \in DOMAIN s : i + 1 \in DOMAIN p /\ p[i + 1] = s[i]
  BY <1>3, <1>5
<1>8. {e} \union ToSet(s) \subseteq ToSet(p)
  <2>1. 1 \in DOMAIN p
    BY <1>3
  <2> QED BY <1>4, <1>7, <2>1 DEF ToSet
<1> QED BY <1>2, <1>3, <1>4, <1>5, <1>6, <1>8 DEF p

\* What is left after the removal of one position, element by element.
LEMMA RemoveAtElements ==
  ASSUME NEW S, NEW s \in Seq(S), NEW k \in 1..Len(s)
  PROVE  /\ RemoveAt(s, k) \in Seq(S)
         /\ Len(RemoveAt(s, k)) = Len(s) - 1
         /\ \A i \in 1..(Len(s) - 1) :
              RemoveAt(s, k)[i] = s[IF i < k THEN i ELSE i + 1]
<1> DEFINE a == SubSeq(s, 1, k - 1)
           b == SubSeq(s, k + 1, Len(s))
<1>0. Len(s) \in Nat /\ \A i \in 1..Len(s) : s[i] \in S
  BY LenProperties
<1>1. /\ a \in Seq(S)
      /\ Len(a) = k - 1
      /\ \A i \in 1..(k - 1) : a[i] = s[i]
  <2>1. \A i \in 1..(k - 1) : s[i] \in S
    BY <1>0
  <2>2. /\ a \in Seq(S)
        /\ Len(a) = IF 1 <= k - 1 THEN (k - 1) - 1 + 1 ELSE 0
        /\ \A i \in 1..((k - 1) - 1 + 1) : a[i] = s[1 + i - 1]
    BY <2>1, SubSeqProperties, k - 1 \in Int, 1 \in Int
  <2> QED BY <1>0, <2>2
<1>2. /\ b \in Seq(S)
      /\ Len(b) = Len(s) - k
      /\ \A i \in 1..(Len(s) - k) : b[i] = s[k + i]
  <2>1. \A i \in (k + 1)..Len(s) : s[i] \in S
    BY <1>0
  <2>2. /\ b \in Seq(S)
        /\ Len(b) = IF k + 1 <= Len(s) THEN Len(s) - (k + 1) + 1 ELSE 0
        /\ \A i \in 1..(Len(s) - (k + 1) + 1) : b[i] = s[(k + 1) + i - 1]
    BY <1>0, <2>1, SubSeqProperties, k + 1 \in Int, Len(s) \in Int
  <2> QED BY <1>0, <2>2
<1>3. /\ a \o b \in Seq(S)
      /\ Len(a \o b) = Len(a) + Len(b)
      /\ \A i \in 1..(Len(a) + Len(b)) :
           (a \o b)[i] = IF i <= Len(a) THEN a[i] ELSE b[i - Len(a)]
  BY <1>1, <1>2, ConcatProperties
<1> HIDE DEF a, b
<1>4. RemoveAt(s, k) = a \o b
  BY DEF RemoveAt, a, b
<1>5. \A i \in 1..(Len(s) - 1) : (a \o b)[i] = s[IF i < k THEN i ELSE i + 1]
  BY <1>0, <1>1, <1>2, <1>3
<1>6. Len(a \o b) = Len(s) - 1
  BY <1>0, <1>1, <1>2, <1>3
<1> QED BY <1>3, <1>4, <1>5, <1>6, Zenon

\* Removing a position of a list without repetition removes exactly its
\* element from the members and leaves no repetition.
LEMMA RemoveAtNoRepetition ==
  ASSUME NEW S, NEW s \in Seq(S), IsInjective(s), NEW k \in 1..Len(s)
  PROVE  /\ ToSet(RemoveAt(s, k)) = ToSet(s) \ {s[k]}
         /\ IsInjective(RemoveAt(s, k))
<1> DEFINE r == RemoveAt(s, k)
<1>1. /\ r \in Seq(S)
      /\ Len(r) = Len(s) - 1
      /\ \A i \in 1..(Len(s) - 1) : r[i] = s[IF i < k THEN i ELSE i + 1]
  BY RemoveAtElements
<1>2. /\ Len(s) \in Nat
      /\ DOMAIN s = 1..Len(s)
      /\ DOMAIN r = 1..(Len(s) - 1)
  BY <1>1, LenProperties
<1> HIDE DEF r
<1>3. IsInjective(r)
  <2> SUFFICES ASSUME NEW i \in 1..(Len(s) - 1), NEW j \in 1..(Len(s) - 1), r[i] = r[j]
               PROVE  i = j
    BY <1>2 DEF IsInjective
  <2> DEFINE from(x) == IF x < k THEN x ELSE x + 1
  <2>1. from(i) \in DOMAIN s /\ from(j) \in DOMAIN s /\ s[from(i)] = s[from(j)]
    BY <1>1, <1>2
  <2>2. from(i) = from(j)
    BY <2>1 DEF IsInjective
  <2> QED BY <1>2, <2>2
<1>4. ToSet(r) \subseteq ToSet(s) \ {s[k]}
  BY <1>1, <1>2 DEF IsInjective, ToSet
<1>5. ASSUME NEW e \in ToSet(s), e # s[k]
      PROVE  e \in ToSet(r)
  <2>1. PICK i \in 1..Len(s) : s[i] = e
    BY <1>2 DEF ToSet
  <2>2. CASE i < k
    <3>1. i \in 1..(Len(s) - 1) /\ r[i] = s[i]
      BY <1>1, <1>2, <2>2
    <3> QED BY <1>2, <2>1, <3>1 DEF ToSet
  <2>3. CASE i > k
    <3>1. i - 1 \in 1..(Len(s) - 1) /\ r[i - 1] = s[i]
      BY <1>1, <1>2, <2>3
    <3> QED BY <1>2, <2>1, <3>1 DEF ToSet
  <2> QED BY <1>2, <1>5, <2>1, <2>2, <2>3
<1> QED BY <1>3, <1>4, <1>5 DEF r

\* A prefix, element by element.
LEMMA PrefixElements ==
  ASSUME NEW S, NEW s \in Seq(S), NEW l \in Seq(S)
  PROVE  IsPrefix(s, l) <=>
           Len(s) <= Len(l) /\ \A i \in 1..Len(s) : s[i] = l[i]
<1>1. /\ Len(s) \in Nat /\ Len(l) \in Nat
      /\ \A i \in 1..Len(s) : s[i] \in S
      /\ \A i \in 1..Len(l) : l[i] \in S
  BY LenProperties
<1>2. SubSeq(s, 1, Len(s)) = [i \in 1..Len(s) |-> s[i]]
  <2>1. SubSeq(s, 1, Len(s)) = [i \in 1..(Len(s) - 1 + 1) |-> s[1 + i - 1]]
    BY <1>1, SubSeqProperties, 1 \in Int, Len(s) \in Int
  <2> QED BY <1>1, <2>1
<1>3. ASSUME Len(s) <= Len(l)
      PROVE  SubSeq(l, 1, Len(s)) = [i \in 1..Len(s) |-> l[i]]
  <2>1. \A i \in 1..Len(s) : l[i] \in S
    BY <1>1, <1>3
  <2>2. SubSeq(l, 1, Len(s)) = [i \in 1..(Len(s) - 1 + 1) |-> l[1 + i - 1]]
    BY <1>1, <2>1, SubSeqProperties, 1 \in Int, Len(s) \in Int
  <2> QED BY <1>1, <2>2
<1> QED BY <1>1, <1>2, <1>3 DEF IsPrefix

\* A list is a prefix of itself and of what an element is appended to.
LEMMA AppendKeepsPrefix ==
  ASSUME NEW S, NEW l \in Seq(S), NEW e \in S
  PROVE  IsPrefix(l, l) /\ IsPrefix(l, Append(l, e))
<1> DEFINE a == Append(l, e)
<1>1. /\ a \in Seq(S) /\ Len(a) = Len(l) + 1 /\ Len(l) \in Nat
      /\ \A i \in 1..Len(l) : a[i] = l[i]
  BY AppendProperties, LenProperties
<1> HIDE DEF a
<1>2. Len(l) <= Len(l) /\ Len(l) <= Len(a)
  BY <1>1
<1>3. IsPrefix(l, a)
  BY <1>1, <1>2, PrefixElements
<1>4. IsPrefix(l, l)
  BY <1>2, PrefixElements
<1> QED BY <1>3, <1>4 DEF a

\* A prefix stays one when the element that follows it is appended.
LEMMA PrefixGrows ==
  ASSUME NEW S, NEW s \in Seq(S), NEW l \in Seq(S), IsPrefix(s, l),
         Len(s) + 1 <= Len(l)
  PROVE  /\ Append(s, l[Len(s) + 1]) \in Seq(S)
         /\ IsPrefix(Append(s, l[Len(s) + 1]), l)
         /\ Len(Append(s, l[Len(s) + 1])) = Len(s) + 1
<1> DEFINE e == l[Len(s) + 1]
           a == Append(s, e)
<1>1. Len(s) \in Nat /\ Len(l) \in Nat
  BY LenProperties
<1>2. Len(s) + 1 \in 1..Len(l)
  BY <1>1
<1>3. e \in S
  BY <1>2, ElementOfSeq
<1> HIDE DEF e
<1>4. /\ a \in Seq(S) /\ Len(a) = Len(s) + 1 /\ a[Len(s) + 1] = e
      /\ \A i \in 1..Len(s) : a[i] = s[i]
  BY <1>3, AppendProperties
<1>5. \A i \in 1..Len(s) : s[i] = l[i]
  BY PrefixElements
<1> HIDE DEF a
<1>6. \A i \in 1..Len(a) : a[i] = l[i]
  BY <1>1, <1>4, <1>5 DEF e
<1>7. IsPrefix(a, l)
  BY <1>1, <1>4, <1>6, PrefixElements
<1> QED BY <1>4, <1>7 DEF a, e

\* A prefix as long as the list is the list.
LEMMA FullPrefix ==
  ASSUME NEW S, NEW s \in Seq(S), NEW l \in Seq(S), IsPrefix(s, l),
         Len(s) >= Len(l)
  PROVE  s = l
<1>1. /\ Len(s) \in Nat /\ Len(l) \in Nat
      /\ Len(s) <= Len(l) /\ \A i \in 1..Len(s) : s[i] = l[i]
  BY LenProperties, PrefixElements
<1>2. Len(s) = Len(l)
  BY <1>1
<1> QED BY <1>1, <1>2, SeqEqual

\* A list that is not empty is taken apart at its end.
LEMMA FrontAndLast ==
  ASSUME NEW S, NEW s \in Seq(S), s # <<>>
  PROVE  Last(s) \in S /\ Front(s) \in Seq(S)
<1>1. Len(s) \in Nat \ {0} /\ \A i \in 1..Len(s) : s[i] \in S
  BY LenProperties, ElementOfSeq, EmptySeq
<1>2. Last(s) \in S
  BY <1>1 DEF Last
<1>3. \A i \in 1..(Len(s) - 1) : s[i] \in S
  BY <1>1
<1>4. SubSeq(s, 1, Len(s) - 1) \in Seq(S)
  BY <1>1, <1>3, SubSeqProperties
<1> QED BY <1>2, <1>4 DEF Front

\* Together they are the sequence.
LEMMA FrontThenLast ==
  ASSUME NEW S, NEW s \in Seq(S), s # <<>>
  PROVE  s = Append(Front(s), Last(s))
<1>1. /\ Len(s) \in Nat \ {0} /\ Last(s) \in S /\ Front(s) \in Seq(S)
      /\ Front(s) = SubSeq(s, 1, Len(s) - 1) /\ Last(s) = s[Len(s)]
  BY LenProperties, EmptySeq, FrontAndLast DEF Front, Last
<1>2. /\ Len(Front(s)) = Len(s) - 1
      /\ \A i \in 1..(Len(s) - 1) : Front(s)[i] = s[i]
  <2> DEFINE n == Len(s) - 1
  <2>1. n \in Int /\ n >= 0 /\ \A i \in 1..n : s[i] \in S
    BY <1>1, ElementOfSeq
  <2> HIDE DEF n
  <2>2. /\ Len(SubSeq(s, 1, n)) = IF 1 <= n THEN n - 1 + 1 ELSE 0
        /\ \A i \in 1..(n - 1 + 1) : SubSeq(s, 1, n)[i] = s[1 + i - 1]
    BY <2>1, SubSeqProperties
  <2>3. Len(SubSeq(s, 1, n)) = n /\ \A i \in 1..n : SubSeq(s, 1, n)[i] = s[i]
    BY <2>1, <2>2
  <2> QED BY <1>1, <2>3 DEF n
<1>3. /\ Append(Front(s), Last(s)) \in Seq(S)
      /\ Len(Append(Front(s), Last(s))) = Len(s)
  BY <1>1, <1>2, AppendProperties
<1>4. ASSUME NEW i \in 1..Len(s)
      PROVE  s[i] = Append(Front(s), Last(s))[i]
  <2>1. CASE i = Len(s)
    BY <1>1, <1>2, <2>1, AppendProperties
  <2>2. CASE i \in 1..(Len(s) - 1)
    BY <1>1, <1>2, <2>2, AppendProperties
  <2> QED BY <1>1, <2>1, <2>2
<1> HIDE DEF Front, Last
<1> QED BY <1>3, <1>4, SeqEqual

-----------------------------------------------------------------------------
(* Induction.  The theorems of the library take the statement as an        *)
(* operator; these take the set of what satisfies it.                      *)

\* A set of naturals that is not empty has a least element.
LEMMA LeastNumber ==
  ASSUME NEW T, T \subseteq Nat, T # {}
  PROVE  \E m \in T : \A n \in T : m <= n
<1> DEFINE R == OpToRel(<, Nat)
<1>1. IsWellFoundedOn(R, Nat)
  BY NatLessThanWellFounded
<1>2. \A x, y \in Nat : <<x, y>> \in R <=> x < y
  BY DEF OpToRel
<1> HIDE DEF R
<1>3. PICK m \in T : \A n \in T : <<n, m>> \notin R
  BY <1>1, WFMin
<1>4. \A n \in T : ~(n < m)
  BY <1>2, <1>3
<1> QED BY <1>4

\* Induction over the naturals, with the set of those for which a statement
\* holds in the place of the statement.
LEMMA NumberInduction ==
  ASSUME NEW T, 0 \in T, \A n \in Nat : n \in T => n + 1 \in T
  PROVE  Nat \subseteq T
<1> SUFFICES ASSUME Nat \ T # {} PROVE FALSE
  OBVIOUS
<1>1. PICK m \in Nat \ T : \A n \in Nat \ T : m <= n
  BY LeastNumber
<1>2. m # 0 /\ m - 1 \in Nat
  BY <1>1
<1>3. m - 1 \in T
  BY <1>1, <1>2
<1> QED BY <1>1, <1>2, <1>3

\* Induction over the subsets of a finite set, in the same form.
LEMMA SubsetInduction ==
  ASSUME NEW S, IsFiniteSet(S), NEW T,
         \A U \in SUBSET S : (\A V \in SUBSET U : V # U => V \in T) => U \in T
  PROVE  SUBSET S \subseteq T
<1> SUFFICES ASSUME (SUBSET S) \ T # {} PROVE FALSE
  OBVIOUS
<1> DEFINE R == StrictSubsetOrdering(S)
           P == SUBSET S
           Bad == P \ T
<1>0. FiniteSubsetsOf(S) = P
  BY FS_FiniteSubsetsOfFinite
<1>1. IsWellFoundedOn(R, FiniteSubsetsOf(S))
  BY FS_StrictSubsetOrderingWellFounded
<1>4. IsWellFoundedOn(R, P)
  BY <1>0, <1>1
<1>5. Bad # {} /\ Bad \subseteq P
  OBVIOUS
<1> HIDE DEF R, P, Bad
<1>2. PICK U \in Bad : \A V \in Bad : <<V, U>> \notin R
  BY <1>4, <1>5, WFMin
<1>3. \A V \in SUBSET U : V # U => V \in T
  BY <1>2 DEF StrictSubsetOrdering, Bad, P, R
<1> USE DEF Bad, P
<1> QED BY <1>2, <1>3

-----------------------------------------------------------------------------
(* Folds over a finite set. *)

\* The element that the folds of the community modules take next.
Some(s) == CHOOSE x \in s : TRUE

\* g is the fold of the step function over the subsets of S.
IsFold(g, S, base, step) ==
  g = [s \in SUBSET S |-> IF s = {} THEN base
                          ELSE step[<<Some(s), g[s \ {Some(s)}]>>]]

\* It is one of the set.
LEMMA SomeIsElement == ASSUME NEW s, s # {} PROVE Some(s) \in s
BY DEF Some

\* Two folds of one function agree where both are defined.
LEMMA FoldIsUnique ==
  ASSUME NEW S, IsFiniteSet(S), NEW D \in SUBSET S, NEW E \in SUBSET S,
         NEW base, NEW step, NEW g, NEW h,
         IsFold(g, D, base, step), IsFold(h, E, base, step)
  PROVE  \A s \in SUBSET (D \intersect E) : g[s] = h[s]
<1> DEFINE I == D \intersect E
           T == {s \in SUBSET I : g[s] = h[s]}
<1>1. IsFiniteSet(I)
  BY FS_Subset
<1>2. ASSUME NEW U \in SUBSET I, \A V \in SUBSET U : V # U => V \in T
      PROVE  U \in T
  <2>1. CASE U = {}
    BY <2>1 DEF IsFold
  <2>2. CASE U # {}
    <3> DEFINE V == U \ {Some(U)}
    <3>1. V \in SUBSET U /\ V # U
      BY <2>2, SomeIsElement
    <3>2. g[V] = h[V]
      BY <1>2, <3>1
    <3>3. g[U] = step[<<Some(U), g[V]>>] /\ h[U] = step[<<Some(U), h[V]>>]
      BY <2>2 DEF IsFold
    <3> QED BY <3>2, <3>3
  <2> QED BY <2>1, <2>2
<1> HIDE DEF T, I
<1>4. \A U \in SUBSET I : (\A V \in SUBSET U : V # U => V \in T) => U \in T
  BY <1>2
<1>3. SUBSET I \subseteq T
  BY <1>1, <1>4, SubsetInduction, Zenon
<1> QED BY <1>3 DEF T, I

\* The recursion that defines a fold has a solution.
LEMMA FoldExists ==
  ASSUME NEW S, IsFiniteSet(S), NEW base, NEW step
  PROVE  \E g : IsFold(g, S, base, step)
<1> DEFINE T == {D \in SUBSET S : \E g : IsFold(g, D, base, step)}
<1>1. ASSUME NEW D \in SUBSET S, \A V \in SUBSET D : V # D => V \in T
      PROVE  D \in T
  <2> DEFINE G(V) == CHOOSE g : IsFold(g, V, base, step)
             h == [s \in SUBSET D |->
                     IF s = {} THEN base
                     ELSE step[<<Some(s), G(s \ {Some(s)})[s \ {Some(s)}]>>]]
  <2>1. ASSUME NEW V \in SUBSET D, V # D
        PROVE  IsFold(G(V), V, base, step)
    BY <1>1, <2>1
  <2>2. ASSUME NEW s \in SUBSET D, s # {}
        PROVE  h[s \ {Some(s)}] = G(s \ {Some(s)})[s \ {Some(s)}]
    <3> DEFINE r == s \ {Some(s)}
    <3>1. r \in SUBSET D /\ r # D
      BY <2>2, SomeIsElement
    <3>2. IsFold(G(r), r, base, step)
      BY <2>1, <3>1
    <3> HIDE DEF G, r
    <3>3. ASSUME r = {} PROVE h[r] = G(r)[r]
      BY <3>1, <3>2, <3>3 DEF IsFold
    <3>4. ASSUME r # {} PROVE h[r] = G(r)[r]
      <4> DEFINE q == r \ {Some(r)}
      <4>1. q \in SUBSET D /\ q # D /\ q \in SUBSET r
        BY <3>1, <3>4, SomeIsElement
      <4>2. IsFold(G(q), q, base, step)
        BY <2>1, <4>1
      <4>3. G(q)[q] = G(r)[q]
        <5>1. q \in SUBSET S /\ r \in SUBSET S /\ q \in SUBSET (q \intersect r)
          BY <3>1, <4>1
        <5> HIDE DEF q
        <5> QED BY <3>2, <4>2, <5>1, FoldIsUnique
      <4>4. G(r)[r] = step[<<Some(r), G(r)[q]>>]
        BY <3>2, <3>4 DEF IsFold
      <4>5. h[r] = step[<<Some(r), G(q)[q]>>]
        BY <3>1, <3>4
      <4> QED BY <4>3, <4>4, <4>5
    <3> HIDE DEF h
    <3>5. h[r] = G(r)[r]
      BY <3>3, <3>4, Zenon
    <3> QED BY <3>5 DEF r
  <2> HIDE DEF G
  <2>3. h = [s \in SUBSET D |-> IF s = {} THEN base
                                ELSE step[<<Some(s), h[s \ {Some(s)}]>>]]
    BY <2>2
  <2> HIDE DEF h
  <2>4. IsFold(h, D, base, step)
    BY <2>3, Zenon DEF IsFold
  <2> QED BY <2>4
<1> HIDE DEF T
<1>2. SUBSET S \subseteq T
  BY <1>1, SubsetInduction
<1> QED BY <1>2 DEF T

-----------------------------------------------------------------------------
(* Sums. *)

\* h[s] is the sum of f over s.
IsSum(h, f) ==
  h = [s \in SUBSET DOMAIN f |-> IF s = {} THEN 0
                                 ELSE f[Some(s)] + h[s \ {Some(s)}]]

\* A function with a finite domain has sums.
LEMMA SumExists ==
  ASSUME NEW S, IsFiniteSet(S), NEW f \in [S -> Int]
  PROVE  \E h : IsSum(h, f)
<1> DEFINE step == [p \in S \X Int |-> f[p[1]] + p[2]]
<1>1. PICK g : IsFold(g, S, 0, step)
  BY FoldExists
<1> DEFINE T == {s \in SUBSET S : g[s] \in Int}
<1>2. ASSUME NEW U \in SUBSET S, \A V \in SUBSET U : V # U => V \in T
      PROVE  U \in T /\ (U # {} => g[U] = f[Some(U)] + g[U \ {Some(U)}])
  <2>1. CASE U = {}
    BY <1>1, <2>1 DEF IsFold
  <2>2. CASE U # {}
    <3> DEFINE V == U \ {Some(U)}
    <3>1. Some(U) \in S /\ V \in SUBSET U /\ V # U
      BY <2>2, SomeIsElement
    <3>2. g[V] \in Int
      BY <1>2, <3>1
    <3>3. g[U] = step[<<Some(U), g[V]>>]
      BY <1>1, <2>2 DEF IsFold
    <3>4. g[U] = f[Some(U)] + g[V]
      BY <3>1, <3>2, <3>3
    <3> QED BY <2>2, <3>1, <3>2, <3>4
  <2> QED BY <2>1, <2>2
<1>3. SUBSET S \subseteq T
  <2> HIDE DEF T
  <2>1. \A U \in SUBSET S : (\A V \in SUBSET U : V # U => V \in T) => U \in T
    BY <1>2
  <2> QED BY <2>1, SubsetInduction, Zenon
<1>4. \A U \in SUBSET S : U # {} => g[U] = f[Some(U)] + g[U \ {Some(U)}]
  BY <1>2, <1>3
<1>5. g[{}] = 0 /\ DOMAIN f = S
  BY <1>1 DEF IsFold
<1>6. \A U \in SUBSET S : g[U] = IF U = {} THEN 0 ELSE f[Some(U)] + g[U \ {Some(U)}]
  BY <1>4, <1>5
<1>7. g = [s \in SUBSET S |-> g[s]]
  BY <1>1 DEF IsFold
<1>8. g = [s \in SUBSET DOMAIN f |-> IF s = {} THEN 0
                                 ELSE f[Some(s)] + g[s \ {Some(s)}]]
  BY <1>5, <1>6, <1>7, Zenon
<1> QED BY <1>8 DEF IsSum

\* They are numbers.
LEMMA SumType ==
  ASSUME NEW S, IsFiniteSet(S), NEW f \in [S -> Int], NEW h, IsSum(h, f)
  PROVE  h \in [SUBSET S -> Int]
<1> DEFINE T == {s \in SUBSET S : h[s] \in Int}
<1>1. ASSUME NEW U \in SUBSET S, \A V \in SUBSET U : V # U => V \in T
      PROVE  U \in T
  <2>1. CASE U = {}
    BY <2>1 DEF IsSum
  <2>2. CASE U # {}
    <3>1. Some(U) \in U /\ h[U] = f[Some(U)] + h[U \ {Some(U)}]
      BY <2>2, SomeIsElement DEF IsSum
    <3> QED BY <1>1, <3>1
  <2> QED BY <2>1, <2>2
<1>2. SUBSET S \subseteq T
  <2> HIDE DEF T
  <2>1. \A U \in SUBSET S : (\A V \in SUBSET U : V # U => V \in T) => U \in T
    BY <1>1
  <2> QED BY <2>1, SubsetInduction, Zenon
<1> QED BY <1>2 DEF IsSum

\* Changing one summand.
LEMMA SumUpdate ==
  ASSUME NEW S, IsFiniteSet(S), NEW m \in S,
         NEW f \in [S -> Int], NEW e \in [S -> Int],
         \A x \in S \ {m} : e[x] = f[x],
         NEW h, IsSum(h, f), NEW k, IsSum(k, e)
  PROVE  k[S] = h[S] - f[m] + e[m]
<1> DEFINE T == {s \in SUBSET S : k[s] = h[s] + IF m \in s THEN e[m] - f[m] ELSE 0}
<1>1. h \in [SUBSET S -> Int] /\ k \in [SUBSET S -> Int]
  BY SumType
<1>4. ASSUME NEW U \in SUBSET S, \A V \in SUBSET U : V # U => V \in T
      PROVE  U \in T
  <2>1. CASE U = {}
    BY <1>1, <2>1 DEF IsSum
  <2>2. CASE U # {}
    <3> DEFINE x == Some(U)
               V == U \ {x}
    <3>1. /\ x \in U /\ V \in SUBSET U /\ V # U
          /\ h[U] = f[x] + h[V]
          /\ k[U] = e[x] + k[V]
      BY <1>1, <2>2, SomeIsElement DEF IsSum
    <3>2. k[V] = h[V] + IF m \in V THEN e[m] - f[m] ELSE 0
      BY <1>4, <3>1
    <3>3. m \in U <=> m = x \/ m \in V
      BY <3>1
    <3>4. x \notin V /\ x \in S /\ V \in SUBSET S
      BY <3>1
    <3>5. f[x] \in Int /\ f[m] \in Int /\ e[x] \in Int /\ h[V] \in Int /\ k[V] \in Int
      BY <1>1, <3>4
    <3> HIDE DEF x, V
    <3>6. k[U] = h[U] + IF m \in U THEN e[m] - f[m] ELSE 0
      <4>1. CASE x = m
        BY <3>1, <3>2, <3>3, <3>4, <3>5, <4>1
      <4>2. CASE x # m
        BY <3>1, <3>2, <3>3, <3>4, <3>5, <4>2
      <4> QED BY <4>1, <4>2
    <3> QED BY <3>6
  <2> QED BY <2>1, <2>2
<1>5. SUBSET S \subseteq T
  <2> HIDE DEF T
  <2>1. \A U \in SUBSET S : (\A V \in SUBSET U : V # U => V \in T) => U \in T
    BY <1>4
  <2> QED BY <2>1, SubsetInduction, Zenon
<1> QED BY <1>1, <1>5

\* SumFunction is such a sum.
LEMMA SumFunctionIsSum ==
  ASSUME NEW S, IsFiniteSet(S), NEW f \in [S -> Int]
  PROVE  \E h : IsSum(h, f) /\ SumFunction(f) = h[S]
<1>1. PICK g : IsSum(g, f)
  BY SumExists
<1>2. g = [s \in SUBSET DOMAIN f |-> IF s = {} THEN 0
                 ELSE f[CHOOSE x \in s : TRUE] + g[s \ {CHOOSE x \in s : TRUE}]]
  BY <1>1, Zenon DEF IsSum, Some
<1>3. \E h : /\ h = [s \in SUBSET DOMAIN f |-> IF s = {} THEN 0
                      ELSE f[CHOOSE x \in s : TRUE] + h[s \ {CHOOSE x \in s : TRUE}]]
             /\ SumFunction(f) = h[DOMAIN f]
  BY <1>2, Zenon DEF SumFunction, SumFunctionOnSet, FoldFunctionOnSet, MapThenFoldSet
<1>4. DOMAIN f = S
  OBVIOUS
<1> QED BY <1>3, <1>4, Zenon DEF IsSum, Some

\* It does not matter which element is taken first.
LEMMA SumTakes ==
  ASSUME NEW S, IsFiniteSet(S), NEW f \in [S -> Int], NEW h, IsSum(h, f)
  PROVE  \A U \in SUBSET S : \A x \in U : h[U] = f[x] + h[U \ {x}]
<1> DEFINE T == {U \in SUBSET S : \A x \in U : h[U] = f[x] + h[U \ {x}]}
<1>1. h \in [SUBSET S -> Int]
  BY SumType
<1>2. ASSUME NEW U \in SUBSET S, \A V \in SUBSET U : V # U => V \in T
      PROVE  U \in T
  <2> SUFFICES ASSUME NEW x \in U PROVE h[U] = f[x] + h[U \ {x}]
    OBVIOUS
  <2> DEFINE y == Some(U)
  <2>1. y \in U /\ h[U] = f[y] + h[U \ {y}]
    BY SomeIsElement DEF IsSum
  <2>2. CASE x = y
    BY <2>1, <2>2
  <2>3. CASE x # y
    <3> HIDE DEF y
    <3>1. U \ {y} \in T /\ U \ {x} \in T /\ (U \ {y}) \ {x} = (U \ {x}) \ {y}
      BY <1>2, <2>1
    <3>2. /\ h[U \ {y}] = f[x] + h[(U \ {x}) \ {y}]
          /\ h[U \ {x}] = f[y] + h[(U \ {x}) \ {y}]
      BY <2>1, <2>3, <3>1
    <3>3. /\ f[x] \in Int /\ f[y] \in Int /\ h[(U \ {x}) \ {y}] \in Int
      BY <1>1, <2>1
    <3> QED BY <2>1, <3>2, <3>3
  <2> QED BY <2>2, <2>3
<1>3. SUBSET S \subseteq T
  <2> HIDE DEF T
  <2>1. \A U \in SUBSET S : (\A V \in SUBSET U : V # U => V \in T) => U \in T
    BY <1>2
  <2> QED BY <2>1, SubsetInduction, Zenon
<1> QED BY <1>3

\* Sums of functions that agree are the same.
LEMMA SumsAgree ==
  ASSUME NEW S, IsFiniteSet(S), NEW f \in [S -> Int], NEW D \in SUBSET S,
         NEW e \in [D -> Int], \A x \in D : e[x] = f[x],
         NEW h, IsSum(h, f), NEW k, IsSum(k, e)
  PROVE  k[D] = h[D]
<1> DEFINE T == {U \in SUBSET D : k[U] = h[U]}
<1>1. IsFiniteSet(D) /\ DOMAIN e = D /\ DOMAIN f = S
  BY FS_Subset
<1>2. ASSUME NEW U \in SUBSET D, \A V \in SUBSET U : V # U => V \in T
      PROVE  U \in T
  <2>1. CASE U = {}
    BY <1>1, <2>1 DEF IsSum
  <2>2. CASE U # {}
    <3> DEFINE x == Some(U)
    <3>1. x \in U /\ h[U] = f[x] + h[U \ {x}] /\ k[U] = e[x] + k[U \ {x}]
      BY <1>1, <2>2, SomeIsElement DEF IsSum
    <3>2. k[U \ {x}] = h[U \ {x}]
      BY <1>2, <3>1
    <3> QED BY <3>1, <3>2
  <2> QED BY <2>1, <2>2
<1>3. SUBSET D \subseteq T
  <2> HIDE DEF T
  <2>1. \A U \in SUBSET D : (\A V \in SUBSET U : V # U => V \in T) => U \in T
    BY <1>2
  <2>2. IsFiniteSet(D)
    BY <1>1
  <2> QED BY <2>1, <2>2, SubsetInduction
<1> QED BY <1>3

\* SumFunction is a number; changing a summand changes it by as much.
LEMMA SumFunctionType ==
  ASSUME NEW S, IsFiniteSet(S), NEW f \in [S -> Int]
  PROVE  SumFunction(f) \in Int
<1>1. PICK h : IsSum(h, f) /\ SumFunction(f) = h[S]
  BY SumFunctionIsSum
<1>2. h \in [SUBSET S -> Int]
  BY <1>1, SumType
<1> QED BY <1>1, <1>2

LEMMA SumFunctionUpdate ==
  ASSUME NEW S, IsFiniteSet(S), NEW m \in S,
         NEW f \in [S -> Int], NEW e \in [S -> Int],
         \A x \in S \ {m} : e[x] = f[x]
  PROVE  SumFunction(e) = SumFunction(f) - f[m] + e[m]
<1>1. PICK h : IsSum(h, f) /\ SumFunction(f) = h[S]
  BY SumFunctionIsSum
<1>2. PICK k : IsSum(k, e) /\ SumFunction(e) = k[S]
  BY SumFunctionIsSum
<1> QED BY <1>1, <1>2, SumUpdate

\* A sum without one of its summands.
LEMMA SumFunctionWithout ==
  ASSUME NEW R, IsFiniteSet(R), NEW e \in [R -> Int], NEW m \in R
  PROVE  SumFunction(e) = SumFunction([x \in R \ {m} |-> e[x]]) + e[m]
<1> DEFINE S == R \ {m}
           f == [x \in S |-> e[x]]
<1>1. /\ IsFiniteSet(S) /\ S \in SUBSET R /\ R \ {m} = S /\ R \in SUBSET R
      /\ \A x \in S : e[x] = f[x]
  BY FS_Subset
<1>2. f \in [S -> Int]
  OBVIOUS
<1> HIDE DEF S, f
<1>3. PICK h : IsSum(h, f) /\ SumFunction(f) = h[S]
  BY <1>1, <1>2, SumFunctionIsSum
<1>4. PICK k : IsSum(k, e) /\ SumFunction(e) = k[R]
  BY <1>1, <1>2, SumFunctionIsSum
<1>5. k[R] = e[m] + k[R \ {m}]
  BY <1>1, <1>2, <1>4, SumTakes
<1>6. h[S] = k[S]
  BY <1>1, <1>2, <1>3, <1>4, SumsAgree
<1>7. h[S] \in Int /\ e[m] \in Int
  <2>1. h \in [SUBSET S -> Int]
    BY <1>1, <1>2, <1>3, SumType
  <2> QED BY <1>1, <1>2, <2>1
<1>8. k[R] = e[m] + h[S]
  BY <1>1, <1>5, <1>6
<1> QED BY <1>3, <1>4, <1>7, <1>8 DEF S, f

\* Nothing adds up to nothing.
LEMMA SumFunctionZero ==
  ASSUME NEW S, IsFiniteSet(S), NEW f \in [S -> Int], \A x \in S : f[x] = 0
  PROVE  SumFunction(f) = 0
<1>1. PICK h : IsSum(h, f) /\ SumFunction(f) = h[S]
  BY SumFunctionIsSum
<1> DEFINE T == {s \in SUBSET S : h[s] = 0}
<1>2. ASSUME NEW U \in SUBSET S, \A V \in SUBSET U : V # U => V \in T
      PROVE  U \in T
  <2>1. CASE U = {}
    BY <1>1, <2>1 DEF IsSum
  <2>2. CASE U # {}
    <3>1. Some(U) \in U /\ h[U] = f[Some(U)] + h[U \ {Some(U)}]
      BY <1>1, <2>2, SomeIsElement DEF IsSum
    <3> QED BY <1>2, <3>1
  <2> QED BY <2>1, <2>2
<1>3. SUBSET S \subseteq T
  <2> HIDE DEF T
  <2>1. \A U \in SUBSET S : (\A V \in SUBSET U : V # U => V \in T) => U \in T
    BY <1>2
  <2> QED BY <2>1, SubsetInduction, Zenon
<1> QED BY <1>1, <1>3

\* Some of the summands add up to no more than all, if none is negative.
LEMMA SumMonotonic ==
  ASSUME NEW S, IsFiniteSet(S), NEW c \in [S -> Nat], NEW h, IsSum(h, c)
  PROVE  \A U \in SUBSET S : h[U] <= h[S] /\ h[U] \in Nat
<1>1. c \in [S -> Int]
  OBVIOUS
<1>0. ASSUME NEW W \in SUBSET S, NEW x \in W
      PROVE  h[W] = c[x] + h[W \ {x}]
  <2>1. c \in [S -> Int] /\ W \in SUBSET S /\ x \in W /\ IsFiniteSet(S) /\ IsSum(h, c)
    BY <1>1
  <2> QED BY <2>1, SumTakes
<1> DEFINE T == {W \in SUBSET S : h[W] \in Nat /\ \A U \in SUBSET W : h[U] <= h[W]}
<1>2. ASSUME NEW W \in SUBSET S, \A V \in SUBSET W : V # W => V \in T
      PROVE  W \in T
  <2>1. CASE W = {}
    BY <2>1 DEF IsSum
  <2>2. CASE W # {}
    <3>1. \A x \in W : h[W] = c[x] + h[W \ {x}] /\ W \ {x} \in T /\ c[x] \in Nat
      BY <1>0, <1>2
    <3>2. h[W] \in Nat
      <4>1. PICK x \in W : TRUE
        BY <2>2
      <4>2. h[W] = c[x] + h[W \ {x}] /\ h[W \ {x}] \in Nat /\ c[x] \in Nat
        BY <3>1, <4>1
      <4> QED BY <4>2
    <3>3. ASSUME NEW U \in SUBSET W
          PROVE  h[U] <= h[W]
      <4>1. CASE U = W
        BY <3>2, <4>1
      <4>2. CASE U # W
        <5>1. PICK x \in W : x \notin U
          BY <4>2
        <5>2. h[U] <= h[W \ {x}] /\ h[W \ {x}] \in Nat
          BY <3>1, <5>1
        <5>3. h[U] \in Nat
          BY <1>2, <4>2
        <5>4. h[W] = c[x] + h[W \ {x}] /\ c[x] \in Nat
          BY <3>1, <5>1
        <5> HIDE DEF T
        <5> QED BY <5>2, <5>3, <5>4
      <4> QED BY <4>1, <4>2
    <3> QED BY <3>2, <3>3
  <2> QED BY <2>1, <2>2
<1>3. SUBSET S \subseteq T
  <2> HIDE DEF T
  <2>1. \A U \in SUBSET S : (\A V \in SUBSET U : V # U => V \in T) => U \in T
    BY <1>2
  <2> QED BY <2>1, SubsetInduction, Zenon
<1> QED BY <1>3

\* No summand is more than the sum, if none is negative.
LEMMA SumFunctionCovers ==
  ASSUME NEW S, IsFiniteSet(S), NEW c \in [S -> Nat]
  PROVE  SumFunction(c) \in Nat /\ \A x \in S : c[x] <= SumFunction(c)
<1>1. c \in [S -> Int]
  OBVIOUS
<1>2. PICK h : IsSum(h, c) /\ SumFunction(c) = h[S]
  BY <1>1, SumFunctionIsSum
<1>3. \A U \in SUBSET S : h[U] <= h[S] /\ h[U] \in Nat
  BY <1>2, SumMonotonic
<1>4. S \in SUBSET S
  OBVIOUS
<1>5. ASSUME NEW x \in S
      PROVE  c[x] <= h[S]
  <2>1. h[S] = c[x] + h[S \ {x}]
    BY <1>1, <1>2, <1>4, SumTakes
  <2>2. h[S \ {x}] \in Nat /\ c[x] \in Nat
    BY <1>3
  <2> QED BY <2>1, <2>2
<1> QED BY <1>2, <1>3, <1>4, <1>5

\* Summands of at most u * c[x] each add up to at most u * SumFunction(c), and
\* so does any part of them.
LEMMA SumBounded ==
  ASSUME NEW S, IsFiniteSet(S), NEW c \in [S -> Nat], NEW u \in Nat,
         NEW f \in [S -> Int], \A x \in S : -(u * c[x]) <= f[x] /\ f[x] <= u * c[x],
         NEW h, IsSum(h, f)
  PROVE  \A U \in SUBSET S : /\ h[U] \in Int
                             /\ -(u * SumFunction(c)) <= h[U] /\ h[U] <= u * SumFunction(c)
<1>1. c \in [S -> Int]
  OBVIOUS
<1>2. PICK k : IsSum(k, c) /\ SumFunction(c) = k[S]
  BY <1>1, SumFunctionIsSum
<1>3. h \in [SUBSET S -> Int] /\ \A U \in SUBSET S : k[U] <= k[S] /\ k[U] \in Nat
  BY <1>2, SumType, SumMonotonic
<1>4. \A a, b \in Nat : u * (a + b) = u * a + u * b /\ u * a \in Nat /\ (a <= b => u * a <= u * b)
  OBVIOUS
<1> DEFINE T == {U \in SUBSET S : -(u * k[U]) <= h[U] /\ h[U] <= u * k[U]}
<1>5. ASSUME NEW U \in SUBSET S, \A V \in SUBSET U : V # U => V \in T
      PROVE  U \in T
  <2>1. CASE U = {}
    BY <1>2, <2>1 DEF IsSum
  <2>2. CASE U # {}
    <3> DEFINE x == Some(U)
               V == U \ {x}
    <3>1. x \in U /\ h[U] = f[x] + h[V] /\ k[U] = c[x] + k[V]
      BY <1>2, <2>2, SomeIsElement DEF IsSum
    <3>2. -(u * k[V]) <= h[V] /\ h[V] <= u * k[V] /\ V \in SUBSET S
      BY <1>5, <3>1
    <3> HIDE DEF x, V
    <3>3. /\ c[x] \in Nat /\ k[V] \in Nat /\ h[V] \in Int /\ f[x] \in Int
          /\ -(u * c[x]) <= f[x] /\ f[x] <= u * c[x]
      BY <1>3, <3>1, <3>2
    <3>4. u * k[U] = u * c[x] + u * k[V] /\ u * c[x] \in Nat /\ u * k[V] \in Nat
      BY <1>4, <3>1, <3>3
    <3>5. -(u * k[U]) <= h[U] /\ h[U] <= u * k[U]
      BY <3>1, <3>2, <3>3, <3>4
    <3> QED BY <3>5
  <2> QED BY <2>1, <2>2
<1>6. SUBSET S \subseteq T
  <2> HIDE DEF T
  <2>1. \A U \in SUBSET S : (\A V \in SUBSET U : V # U => V \in T) => U \in T
    BY <1>5
  <2> QED BY <2>1, SubsetInduction, Zenon
<1>7. ASSUME NEW U \in SUBSET S
      PROVE  /\ h[U] \in Int
             /\ -(u * k[S]) <= h[U] /\ h[U] <= u * k[S]
  <2>1. -(u * k[U]) <= h[U] /\ h[U] <= u * k[U] /\ h[U] \in Int
    BY <1>3, <1>6
  <2>2. u * k[U] <= u * k[S] /\ u * k[U] \in Nat /\ u * k[S] \in Nat
    BY <1>3, <1>4
  <2> QED BY <2>1, <2>2
<1> QED BY <1>2, <1>7

\* The number of elements as a sum.
LEMMA SumOfOnes ==
  ASSUME NEW S, IsFiniteSet(S), NEW f \in [S -> Int], \A x \in S : f[x] = 1
  PROVE  SumFunction(f) = Cardinality(S)
<1>1. PICK h : IsSum(h, f) /\ SumFunction(f) = h[S]
  BY SumFunctionIsSum
<1> DEFINE T == {s \in SUBSET S : h[s] = Cardinality(s)}
<1>2. ASSUME NEW U \in SUBSET S, \A V \in SUBSET U : V # U => V \in T
      PROVE  U \in T
  <2>1. CASE U = {}
    BY <1>1, <2>1, FS_EmptySet DEF IsSum
  <2>2. CASE U # {}
    <3>1. Some(U) \in U /\ h[U] = f[Some(U)] + h[U \ {Some(U)}]
      BY <1>1, <2>2, SomeIsElement DEF IsSum
    <3>2. IsFiniteSet(U) /\ Cardinality(U \ {Some(U)}) = Cardinality(U) - 1
          /\ Cardinality(U) \in Nat
      BY <3>1, FS_Subset, FS_RemoveElement, FS_CardinalityType
    <3> QED BY <1>2, <3>1, <3>2
  <2> QED BY <2>1, <2>2
<1>3. SUBSET S \subseteq T
  <2> HIDE DEF T
  <2>1. \A U \in SUBSET S : (\A V \in SUBSET U : V # U => V \in T) => U \in T
    BY <1>2
  <2> QED BY <2>1, SubsetInduction, Zenon
<1> QED BY <1>1, <1>3

-----------------------------------------------------------------------------
(* Recursion. *)

\* The function on D that is base[x] where x ends the recursion, and elsewhere
\* takes a step from its value at next[x].
IsDescent(f, D, Ends, base, next, step) ==
  f = [x \in D |-> IF x \in Ends THEN base[x] ELSE step[<<x, f[next[x]]>>]]

\* next goes down from every x that does not end the recursion.
Descends(D, Ends, next) ==
  \E measure \in [D -> Nat] : \A x \in D :
    x \notin Ends => next[x] \in D /\ measure[next[x]] < measure[x]

\* That function exists if next goes down, and stays where its steps lead.
LEMMA DescentExists ==
  ASSUME NEW D, NEW V, NEW Ends, NEW next, Descends(D, Ends, next),
         NEW base \in [D -> V], NEW step \in [D \X V -> V]
  PROVE  \E f \in [D -> V] : IsDescent(f, D, Ends, base, next, step)
<1>0. PICK measure \in [D -> Nat] : \A x \in D :
        x \notin Ends => next[x] \in D /\ measure[next[x]] < measure[x]
  BY DEF Descends
<1> DEFINE Below(n) == {x \in D : measure[x] < n}
           Good(h, n) ==
             /\ h \in [Below(n) -> V]
             /\ \A x \in Below(n) :
                  h[x] = IF x \in Ends THEN base[x] ELSE step[<<x, h[next[x]]>>]
           T == {n \in Nat : \E h : Good(h, n)}
<1>1. Below(0) = {}
  BY <1>0
<1>2. \A n \in Nat : /\ Below(n) \subseteq D
                     /\ Below(n) \subseteq Below(n + 1)
                     /\ \A x \in Below(n + 1) : x \notin Ends => next[x] \in Below(n)
                     /\ \A x \in Below(n) : x \notin Ends => next[x] \in Below(n)
  BY <1>0
<1>3. \A x \in D : /\ measure[x] + 1 \in Nat /\ x \in Below(measure[x] + 1)
                   /\ x \notin Ends => next[x] \in D /\ next[x] \in Below(measure[x] + 1)
  BY <1>0
<1> HIDE DEF Below
<1>4. 0 \in T
  <2>1. Good([x \in {} |-> x], 0)
    BY <1>1
  <2> QED BY <2>1
<1>5. ASSUME NEW n \in Nat, n \in T
      PROVE  n + 1 \in T
  <2>1. PICK h : Good(h, n)
    BY <1>5
  <2> DEFINE e == [x \in Below(n + 1) |->
                     IF x \in Ends THEN base[x] ELSE step[<<x, h[next[x]]>>]]
  <2>2. \A x \in Below(n + 1) : e[x] \in V
    BY <1>2, <2>1
  <2>3. e \in [Below(n + 1) -> V]
    BY <2>2
  <2>4. \A x \in Below(n) : e[x] = h[x]
    BY <1>2, <2>1
  <2>5. \A x \in Below(n + 1) :
          e[x] = IF x \in Ends THEN base[x] ELSE step[<<x, e[next[x]]>>]
    BY <1>2, <2>4
  <2> HIDE DEF e
  <2>6. Good(e, n + 1)
    BY <2>3, <2>5
  <2> QED BY <2>6
<1>6. Nat \subseteq T
  <2> HIDE DEF T
  <2> QED BY <1>4, <1>5, NumberInduction
<1> DEFINE G(n) == CHOOSE h : Good(h, n)
<1> HIDE DEF Good
<1>7. \A n \in Nat : Good(G(n), n)
  BY <1>6
<1> HIDE DEF G
<1>8. ASSUME NEW n \in Nat, NEW k \in Nat
      PROVE  \A x \in D : x \in Below(n) /\ x \in Below(k) => G(n)[x] = G(k)[x]
  <2> DEFINE U == {j \in Nat : \A x \in Below(j) :
                     x \in Below(n) /\ x \in Below(k) => G(n)[x] = G(k)[x]}
  <2>1. 0 \in U
    BY <1>1
  <2>2. ASSUME NEW j \in Nat, j \in U
        PROVE  j + 1 \in U
    <3> SUFFICES ASSUME NEW x \in Below(j + 1), x \in Below(n), x \in Below(k)
                 PROVE  G(n)[x] = G(k)[x]
      OBVIOUS
    <3>1. x \notin Ends => G(n)[next[x]] = G(k)[next[x]]
      BY <1>2, <2>2
    <3>2. Good(G(n), n) /\ Good(G(k), k)
      BY <1>7
    <3> QED BY <3>1, <3>2 DEF Good
  <2> HIDE DEF U
  <2>3. n \in U
    BY <2>1, <2>2, NumberInduction
  <2> QED BY <2>3 DEF U
<1> DEFINE f == [x \in D |-> G(measure[x] + 1)[x]]
<1>9. ASSUME NEW x \in D
      PROVE  f[x] \in V /\ f[x] = IF x \in Ends THEN base[x] ELSE step[<<x, f[next[x]]>>]
  <2> DEFINE n == measure[x] + 1
  <2>1. n \in Nat /\ x \in Below(n) /\ f[x] = G(n)[x]
    BY <1>3
  <2>2. Good(G(n), n)
    BY <1>7, <2>1
  <2>3. ASSUME x \notin Ends
        PROVE  f[next[x]] = G(n)[next[x]]
    <3> DEFINE k == measure[next[x]] + 1
    <3>1. next[x] \in D /\ next[x] \in Below(n) /\ k \in Nat /\ next[x] \in Below(k)
          /\ f[next[x]] = G(k)[next[x]]
      BY <1>3, <2>3
    <3> HIDE DEF f, n, k
    <3> QED BY <1>8, <2>1, <3>1
  <2> HIDE DEF f, n
  <2> QED BY <2>1, <2>2, <2>3 DEF Good
<1>10. f \in [D -> V]
  BY <1>9
<1> HIDE DEF f
<1>11. f = [x \in D |-> f[x]]
  BY <1>10
<1>12. f = [x \in D |-> IF x \in Ends THEN base[x] ELSE step[<<x, f[next[x]]>>]]
  BY <1>9, <1>11
<1> QED BY <1>10, <1>12, Zenon DEF IsDescent

\* What holds for x if it holds for next[x], holds everywhere.
LEMMA DescentInduction ==
  ASSUME NEW D, NEW Ends, NEW next, Descends(D, Ends, next),
         NEW T, \A x \in D : (x \notin Ends => next[x] \in T) => x \in T
  PROVE  \A x \in D : x \in T
<1>0. PICK measure \in [D -> Nat] : \A x \in D :
        x \notin Ends => next[x] \in D /\ measure[next[x]] < measure[x]
  BY DEF Descends
<1> DEFINE U == {n \in Nat : \A x \in D : measure[x] < n => x \in T}
<1>1. 0 \in U
  OBVIOUS
<1>2. ASSUME NEW n \in Nat, n \in U
      PROVE  n + 1 \in U
  <2> SUFFICES ASSUME NEW x \in D, measure[x] < n + 1 PROVE x \in T
    OBVIOUS
  <2>1. x \notin Ends => next[x] \in D /\ measure[next[x]] < n
    BY <1>0
  <2>2. x \notin Ends => next[x] \in T
    BY <1>2, <2>1
  <2> QED BY <2>2
<1> HIDE DEF U
<1>3. Nat \subseteq U
  BY <1>1, <1>2, NumberInduction
<1>4. \A x \in D : measure[x] + 1 \in U /\ measure[x] < measure[x] + 1
  BY <1>0, <1>3
<1> QED BY <1>4 DEF U

\* The function on the naturals that starts from base and takes one step at
\* each number.
IsRecursion(f, base, step) ==
  f = [k \in Nat |-> IF k = 0 THEN base ELSE step[f[k - 1]]]

LEMMA RecursionExists ==
  ASSUME NEW V, NEW base \in V, NEW step \in [V -> V]
  PROVE  \E f \in [Nat -> V] : IsRecursion(f, base, step)
<1> DEFINE measure == [k \in Nat |-> k]
           next == [k \in Nat |-> k - 1]
           start == [k \in Nat |-> base]
           steps == [p \in Nat \X V |-> step[p[2]]]
<1>1. start \in [Nat -> V] /\ steps \in [Nat \X V -> V] /\ Descends(Nat, {0}, next)
  <2>1. /\ measure \in [Nat -> Nat]
        /\ \A k \in Nat : k \notin {0} => next[k] \in Nat /\ measure[next[k]] < measure[k]
    OBVIOUS
  <2> HIDE DEF measure, next
  <2>2. Descends(Nat, {0}, next)
    BY <2>1 DEF Descends
  <2> QED BY <2>2
<1>2. \A k \in Nat : start[k] = base /\ next[k] = k - 1 /\ \A v \in V : steps[<<k, v>>] = step[v]
  OBVIOUS
<1> HIDE DEF next, start, steps
<1>3. \E f \in [Nat -> V] : IsDescent(f, Nat, {0}, start, next, steps)
  BY <1>1, DescentExists, Zenon
<1>4. PICK f \in [Nat -> V] :
        f = [k \in Nat |-> IF k \in {0} THEN start[k] ELSE steps[<<k, f[next[k]]>>]]
  BY <1>3, Zenon DEF IsDescent
<1>5. \A k \in Nat : f[k] = IF k = 0 THEN base ELSE step[f[k - 1]]
  <2> SUFFICES ASSUME NEW k \in Nat PROVE f[k] = IF k = 0 THEN base ELSE step[f[k - 1]]
    OBVIOUS
  <2>1. f[k] = IF k \in {0} THEN start[k] ELSE steps[<<k, f[next[k]]>>]
    BY <1>4
  <2>2. k # 0 => k - 1 \in Nat
    OBVIOUS
  <2> QED BY <1>2, <2>1, <2>2
<1>6. f = [k \in Nat |-> f[k]]
  OBVIOUS
<1>7. f = [k \in Nat |-> IF k = 0 THEN base ELSE step[f[k - 1]]]
  BY <1>5, <1>6
<1> QED BY <1>7, Zenon DEF IsRecursion
=============================================================================
