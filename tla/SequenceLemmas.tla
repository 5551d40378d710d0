--------------------------- MODULE SequenceLemmas ---------------------------
(***************************************************************************)
(* What the proofs need of natural numbers, recursive functions and        *)
(* sequences: sequences of sequences put one behind the other, and what is *)
(* selected from a sequence.                                               *)
(***************************************************************************)
EXTENDS Integers, Sequences, SequencesExt, Lists, SequenceTheorems, FiniteSetTheorems,
        WellFoundedInduction, TLAPS

-----------------------------------------------------------------------------
\* Natural numbers.

LEMMA Least ==
    ASSUME NEW T, T \subseteq Nat, T # {}
    PROVE  \E n \in T : \A m \in T : n <= m
<1>1. PICK n \in T : \A m \in T : ~(<<m, n>> \in OpToRel(<, Nat))
  BY WFMin, NatLessThanWellFounded
<1>2. \A m \in T : ~(m < n)
  BY <1>1 DEF OpToRel
<1> QED
  BY <1>2

LEMMA NatSet ==
    ASSUME NEW T, 0 \in T, \A n \in Nat : n \in T => n + 1 \in T
    PROVE  Nat \subseteq T
<1> SUFFICES ASSUME Nat \ T # {} PROVE FALSE
  OBVIOUS
<1>1. PICK n \in Nat \ T : \A m \in Nat \ T : n <= m
  BY Least
<1>2. n # 0 /\ n - 1 \in Nat /\ n - 1 < n
  BY <1>1
<1>3. n - 1 \in T
  BY <1>1, <1>2
<1> QED
  BY <1>1, <1>2, <1>3

LEMMA Smallest ==
    ASSUME NEW T, T \subseteq Nat, T # {}
    PROVE  Min(T) \in T /\ \A m \in T : Min(T) <= m
<1>1. PICK n \in T : \A m \in T : n <= m
  BY Least
<1> QED
  BY <1>1 DEF Min

LEMMA Greatest ==
    ASSUME NEW n \in Nat, NEW T, T \subseteq 1..n, T # {}
    PROVE  Max(T) \in T /\ \A m \in T : m <= Max(T)
<1> DEFINE U == {k \in Nat : n - k \in T}
<1>1. PICK m : m \in T
  OBVIOUS
<1>2. n - m \in Nat /\ n - (n - m) = m
  BY <1>1
<1>3. U \subseteq Nat /\ U # {}
  BY <1>1, <1>2
<1>4. PICK k \in U : \A l \in U : k <= l
  BY <1>3, Least
<1>5. n - k \in T /\ \A l \in T : l <= n - k
  <2>1. ASSUME NEW l \in T PROVE l <= n - k
    <3>1. n - l \in Nat /\ n - (n - l) = l
      BY <2>1
    <3>2. n - l \in U
      BY <3>1
    <3> QED
      BY <1>4, <3>1, <3>2
  <2> QED
    BY <1>4, <2>1
<1> QED
  BY <1>5 DEF Max

-----------------------------------------------------------------------------
\* What is built up in steps.  The function that a recursive definition stands for
\* is the one that satisfies it, which has to exist.

\* A value is carried through n steps, each of which keeps its type.
IsStep(acts, n, V) == acts \in [1..n -> [V -> V]]

IsCarried(f, n, V, base, acts) ==
    f \in [0..n -> V] /\ f[0] = base /\ \A i \in 1..n : f[i] = acts[i][f[i - 1]]

LEMMA Recursion ==
    ASSUME NEW n \in Nat, NEW V, NEW base \in V, NEW acts, IsStep(acts, n, V)
    PROVE  \E f : IsCarried(f, n, V, base, acts)
<1> USE DEF IsStep, IsCarried
<1> DEFINE P(k) == \E f : /\ f \in [0..k -> V] /\ f[0] = base
                          /\ \A i \in 1..k : f[i] = acts[i][f[i - 1]]
           T == {k \in Nat : k <= n => P(k)}
<1>1. P(0)
  <2> DEFINE f == [i \in 0..0 |-> base]
  <2>1. f \in [0..0 -> V] /\ f[0] = base /\ 1..0 = {}
    OBVIOUS
  <2> HIDE DEF f
  <2> QED
    BY <2>1
<1>2. ASSUME NEW k \in Nat, P(k), k + 1 <= n PROVE P(k + 1)
  <2>1. PICK f : /\ f \in [0..k -> V] /\ f[0] = base
                 /\ \A i \in 1..k : f[i] = acts[i][f[i - 1]]
    BY <1>2
  <2> DEFINE g == [i \in 0..(k + 1) |-> IF i = k + 1 THEN acts[k + 1][f[k]] ELSE f[i]]
  <2>2. acts[k + 1] \in [V -> V] /\ f[k] \in V
    BY <1>2, <2>1
  <2>3. g \in [0..(k + 1) -> V]
    BY <2>1, <2>2
  <2>4. g[k + 1] = acts[k + 1][f[k]] /\ \A i \in 0..k : g[i] = f[i]
    OBVIOUS
  <2> HIDE DEF g
  <2>5. ASSUME NEW i \in 1..(k + 1) PROVE g[i] = acts[i][g[i - 1]]
    <3>1. CASE i = k + 1
      BY <2>4, <3>1
    <3>2. CASE i # k + 1
      <4>1. i \in 1..k /\ i \in 0..k /\ i - 1 \in 0..k
        BY <3>2
      <4> QED
        BY <2>1, <2>4, <4>1
    <3> QED
      BY <3>1, <3>2
  <2>6. g[0] = base
    BY <2>1, <2>4
  <2> QED
    BY <2>3, <2>5, <2>6
<1> HIDE DEF P
<1>3. Nat \subseteq T
  <2>1. 0 \in T
    BY <1>1
  <2>2. \A k \in Nat : k \in T => k + 1 \in T
    BY <1>2
  <2> QED
    BY <2>1, <2>2, NatSet
<1> QED
  BY <1>3 DEF P

-----------------------------------------------------------------------------
\* Sequences of sequences.

\* What FlattenSeq says of each prefix.
IsFlatten(f, ss) ==
    f = [i \in 1..Len(ss) |-> IF i = 1 THEN ss[i] ELSE f[i - 1] \o ss[i]]

LEMMA FlattenExists ==
    ASSUME NEW S, NEW ss \in Seq(Seq(S))
    PROVE  \E f \in [1..Len(ss) -> Seq(S)] : IsFlatten(f, ss)
<1> DEFINE Equation(f, i) == f[i] = IF i = 1 THEN ss[i] ELSE f[i - 1] \o ss[i]
           P(n) == \E f \in [1..n -> Seq(S)] : \A i \in 1..n : Equation(f, i)
           T == {n \in Nat : n <= Len(ss) => P(n)}
<1>1. P(0)
  <2>1. [i \in 1..0 |-> <<>>] \in [1..0 -> Seq(S)] /\ 1..0 = {}
    OBVIOUS
  <2> QED
    BY <2>1
<1>2. ASSUME NEW n \in Nat, P(n), n + 1 <= Len(ss) PROVE P(n + 1)
  <2>1. PICK f \in [1..n -> Seq(S)] : \A i \in 1..n : Equation(f, i)
    BY <1>2
  <2> DEFINE next == IF n = 0 THEN ss[n + 1] ELSE f[n] \o ss[n + 1]
             g == [i \in 1..(n + 1) |-> IF i = n + 1 THEN next ELSE f[i]]
  <2>2. ss[n + 1] \in Seq(S)
    BY <1>2
  <2>3. n # 0 => f[n] \in Seq(S)
    BY <2>1
  <2>4. next \in Seq(S)
    BY <2>2, <2>3
  <2> HIDE DEF next
  <2>5. g \in [1..(n + 1) -> Seq(S)]
    BY <2>1, <2>4
  <2>6. g[n + 1] = next /\ \A i \in 1..n : g[i] = f[i]
    BY <2>1
  <2> HIDE DEF g
  <2>7. Equation(g, n + 1)
    BY <2>6 DEF next
  <2>8. ASSUME NEW i \in 1..n PROVE Equation(g, i)
    <3>1. i = 1 \/ i - 1 \in 1..n
      OBVIOUS
    <3> QED
      BY <2>1, <2>6, <3>1
  <2>9. \A i \in 1..(n + 1) : Equation(g, i)
    <3>1. \A i \in 1..(n + 1) : i \in 1..n \/ i = n + 1
      OBVIOUS
    <3> QED
      BY <2>7, <2>8, <3>1, Zenon
  <2> QED
    BY <2>5, <2>9
<1> HIDE DEF P
<1>3. Nat \subseteq T
  <2>1. 0 \in T
    BY <1>1
  <2>2. \A n \in Nat : n \in T => n + 1 \in T
    BY <1>2
  <2> QED
    BY <2>1, <2>2, NatSet
<1>4. P(Len(ss))
  BY <1>3
<1> QED
  BY <1>4 DEF P, IsFlatten

\* The value of FlattenSeq satisfies its recursion.
LEMMA FlattenPrefixes ==
    ASSUME NEW S, NEW ss \in Seq(Seq(S)), ss # <<>>
    PROVE  \E f : IsFlatten(f, ss) /\ FlattenSeq(ss) = f[Len(ss)]
<1> DEFINE f == CHOOSE g : IsFlatten(g, ss)
<1>1. IsFlatten(f, ss)
  BY FlattenExists
<1>2. FlattenSeq(ss) = f[Len(ss)]
  BY DEF FlattenSeq, IsFlatten
<1> QED
  BY <1>1, <1>2

StartsWith(tt, ss) ==
    /\ Len(ss) \in Nat /\ Len(tt) \in Nat /\ Len(ss) <= Len(tt)
    /\ \A i \in 1..Len(ss) : ss[i] = tt[i]

LEMMA FlattenUnique ==
    ASSUME NEW ss, NEW tt, StartsWith(tt, ss), NEW f, NEW g, IsFlatten(f, ss), IsFlatten(g, tt)
    PROVE  \A i \in 1..Len(ss) : f[i] = g[i]
<1> USE DEF StartsWith
<1> DEFINE T == {n \in Nat : n \in 1..Len(ss) => f[n] = g[n]}
<1>1. 0 \in T
  OBVIOUS
<1>2. ASSUME NEW n \in Nat, n \in T PROVE n + 1 \in T
  <2> SUFFICES ASSUME n + 1 \in 1..Len(ss) PROVE f[n + 1] = g[n + 1]
    OBVIOUS
  <2>1. n = 0 \/ f[n] = g[n]
    BY <1>2
  <2>2. n + 1 \in 1..Len(tt) /\ ss[n + 1] = tt[n + 1]
    OBVIOUS
  <2>3. f[n + 1] = IF n + 1 = 1 THEN ss[n + 1] ELSE f[(n + 1) - 1] \o ss[n + 1]
    BY DEF IsFlatten
  <2>4. g[n + 1] = IF n + 1 = 1 THEN tt[n + 1] ELSE g[(n + 1) - 1] \o tt[n + 1]
    BY <2>2 DEF IsFlatten
  <2> QED
    BY <2>1, <2>2, <2>3, <2>4
<1> HIDE DEF T
<1>3. Nat \subseteq T
  BY <1>1, <1>2, NatSet
<1> QED
  BY <1>3 DEF T

LEMMA FlattenSame ==
    ASSUME NEW ss, Len(ss) \in Nat, NEW f, NEW g, IsFlatten(f, ss), IsFlatten(g, ss)
    PROVE  \A i \in 1..Len(ss) : f[i] = g[i]
<1>1. StartsWith(ss, ss)
  BY DEF StartsWith
<1> QED
  BY <1>1, FlattenUnique

LEMMA FlattenType ==
    ASSUME NEW S, NEW ss \in Seq(Seq(S)) PROVE FlattenSeq(ss) \in Seq(S)
<1>1. CASE ss = <<>>
  BY <1>1 DEF FlattenSeq
<1>2. CASE ss # <<>>
  <2>1. PICK f : IsFlatten(f, ss) /\ FlattenSeq(ss) = f[Len(ss)]
    BY <1>2, FlattenPrefixes
  <2> HIDE DEF IsFlatten
  <2>2. PICK g : g \in [1..Len(ss) -> Seq(S)] /\ IsFlatten(g, ss)
    BY FlattenExists
  <2>3. Len(ss) \in 1..Len(ss)
    BY <1>2
  <2>4. f[Len(ss)] = g[Len(ss)]
    <3>1. Len(ss) \in Nat
      OBVIOUS
    <3>2. \A i \in 1..Len(ss) : f[i] = g[i]
      BY <2>1, <2>2, <3>1, FlattenSame
    <3> QED
      BY <2>3, <3>2
  <2> QED
    BY <2>1, <2>2, <2>3, <2>4
<1> QED
  BY <1>1, <1>2

LEMMA FlattenEmpty == FlattenSeq(<<>>) = <<>>
BY DEF FlattenSeq

LEMMA FlattenAppend ==
    ASSUME NEW S, NEW ss \in Seq(Seq(S)), NEW s \in Seq(S)
    PROVE  FlattenSeq(Append(ss, s)) = FlattenSeq(ss) \o s
<1> DEFINE tt == Append(ss, s)
<1>1. /\ tt \in Seq(Seq(S)) /\ tt # <<>> /\ Len(tt) = Len(ss) + 1 /\ tt[Len(ss) + 1] = s
      /\ \A i \in 1..Len(ss) : tt[i] = ss[i]
  <2> DEFINE SS == Seq(S)
  <2> HIDE DEF SS
  <2>1. ss \in Seq(SS) /\ s \in SS
    BY DEF SS
  <2>2. /\ tt \in Seq(SS) /\ tt # <<>> /\ Len(tt) = Len(ss) + 1 /\ tt[Len(ss) + 1] = s
        /\ \A i \in 1..Len(ss) : tt[i] = ss[i]
    <3>1. tt \in Seq(SS) /\ Len(tt) = Len(ss) + 1 /\ tt # <<>>
      BY <2>1
    <3>2. tt[Len(ss) + 1] = s
      BY <2>1
    <3>3. \A i \in 1..Len(ss) : tt[i] = ss[i]
      BY <2>1
    <3> QED
      BY <3>1, <3>2, <3>3
  <2> QED
    BY <2>2 DEF SS
<1> HIDE DEF tt
<1>2. PICK g : IsFlatten(g, tt) /\ FlattenSeq(tt) = g[Len(tt)]
  BY <1>1, FlattenPrefixes
<1>3. g[Len(ss) + 1] = IF Len(ss) = 0 THEN s ELSE g[Len(ss)] \o s
  <2>1. Len(ss) + 1 \in 1..Len(tt)
    BY <1>1
  <2>2. g[Len(ss) + 1] = IF Len(ss) + 1 = 1 THEN tt[Len(ss) + 1] ELSE g[(Len(ss) + 1) - 1] \o tt[Len(ss) + 1]
    BY <1>2, <2>1 DEF IsFlatten
  <2> QED
    BY <1>1, <2>2
<1>4. CASE ss = <<>>
  <2>1. FlattenSeq(tt) = s
    BY <1>1, <1>2, <1>3, <1>4
  <2> QED
    BY <2>1, <1>4, FlattenEmpty DEF tt
<1>5. CASE ss # <<>>
  <2>1. PICK f : IsFlatten(f, ss) /\ FlattenSeq(ss) = f[Len(ss)]
    BY <1>5, FlattenPrefixes
  <2>2. Len(ss) \in 1..Len(ss)
    BY <1>5
  <2>3. f[Len(ss)] = g[Len(ss)]
    <3>1. StartsWith(tt, ss)
      BY <1>1 DEF StartsWith
    <3>3. \A i \in 1..Len(ss) : f[i] = g[i]
      BY <1>2, <2>1, <3>1, FlattenUnique
    <3> QED
      BY <2>2, <3>3
  <2> QED
    BY <1>1, <1>2, <1>3, <2>1, <2>2, <2>3 DEF tt
<1> QED
  BY <1>4, <1>5

LEMMA ConcatAt ==
    ASSUME NEW S, NEW a \in Seq(S), NEW b \in Seq(S)
    PROVE  /\ a \o b \in Seq(S) /\ Len(a \o b) = Len(a) + Len(b)
           /\ DOMAIN (a \o b) = 1..(Len(a) + Len(b)) /\ DOMAIN a = 1..Len(a) /\ DOMAIN b = 1..Len(b)
           /\ Len(a) \in Nat /\ Len(b) \in Nat
           /\ \A i \in 1..Len(a) : (a \o b)[i] = a[i]
           /\ \A i \in 1..Len(b) : (a \o b)[Len(a) + i] = b[i]
           /\ \A i \in 1..(Len(a) + Len(b)) :
                 i \in 1..Len(a) \/ (i - Len(a) \in 1..Len(b) /\ i = Len(a) + (i - Len(a)))
OBVIOUS

LEMMA ConcatRange ==
    ASSUME NEW S, NEW a \in Seq(S), NEW b \in Seq(S)
    PROVE  Range(a \o b) = Range(a) \cup Range(b)
<1>1. /\ DOMAIN (a \o b) = 1..(Len(a) + Len(b)) /\ DOMAIN a = 1..Len(a) /\ DOMAIN b = 1..Len(b)
      /\ Len(a) \in Nat /\ Len(b) \in Nat
      /\ \A i \in 1..Len(a) : (a \o b)[i] = a[i]
      /\ \A i \in 1..Len(b) : (a \o b)[Len(a) + i] = b[i]
      /\ \A i \in 1..(Len(a) + Len(b)) :
            i \in 1..Len(a) \/ (i - Len(a) \in 1..Len(b) /\ i = Len(a) + (i - Len(a)))
  OBVIOUS
<1>2. ASSUME NEW x \in Range(a \o b) PROVE x \in Range(a) \/ x \in Range(b)
  <2>1. PICK i \in 1..(Len(a) + Len(b)) : x = (a \o b)[i]
    BY <1>1 DEF Range
  <2> QED
    BY <1>1, <2>1 DEF Range
<1>3. ASSUME NEW x \in Range(a) PROVE x \in Range(a \o b)
  BY <1>1 DEF Range
<1>4. ASSUME NEW x \in Range(b) PROVE x \in Range(a \o b)
  <2>1. PICK i \in 1..Len(b) : x = b[i]
    BY <1>1 DEF Range
  <2>2. Len(a) + i \in DOMAIN (a \o b)
    BY <1>1
  <2> QED
    BY <1>1, <2>1, <2>2 DEF Range
<1> QED
  BY <1>2, <1>3, <1>4

LEMMA FlattenRange ==
    ASSUME NEW S, NEW ss \in Seq(Seq(S)), NEW x
    PROVE  x \in Range(FlattenSeq(ss)) <=> \E i \in DOMAIN ss : x \in Range(ss[i])
<1>1. CASE ss = <<>>
  BY <1>1, FlattenEmpty DEF Range
<1>2. CASE ss # <<>>
  <2>1. PICK f : IsFlatten(f, ss) /\ FlattenSeq(ss) = f[Len(ss)]
    BY <1>2, FlattenPrefixes
  <2> DEFINE P(n) == f[n] \in Seq(S) /\ (x \in Range(f[n]) <=> \E i \in 1..n : x \in Range(ss[i]))
             T == {n \in Nat : n \in 1..Len(ss) => P(n)}
  <2>2. \A i \in 1..Len(ss) : ss[i] \in Seq(S)
    OBVIOUS
  <2>3. \A i \in 1..Len(ss) : f[i] = IF i = 1 THEN ss[i] ELSE f[i - 1] \o ss[i]
    BY <2>1 DEF IsFlatten
  <2>4. ASSUME 1 \in 1..Len(ss) PROVE P(1)
    BY <2>2, <2>3, <2>4
  <2>5. ASSUME NEW n \in 1..Len(ss), n + 1 \in 1..Len(ss), P(n) PROVE P(n + 1)
    <3>1. f[n + 1] = f[n] \o ss[n + 1] /\ ss[n + 1] \in Seq(S)
      <4>1. n + 1 # 1 /\ (n + 1) - 1 = n
        BY <2>5
      <4>2. f[n + 1] = IF n + 1 = 1 THEN ss[n + 1] ELSE f[(n + 1) - 1] \o ss[n + 1]
        BY <2>3, <2>5
      <4>3. ss[n + 1] \in Seq(S)
        BY <2>2, <2>5
      <4> QED
        BY <4>1, <4>2, <4>3
    <3>2. f[n + 1] \in Seq(S) /\ Range(f[n + 1]) = Range(f[n]) \cup Range(ss[n + 1])
      BY <2>5, <3>1, ConcatRange
    <3>3. \A i \in 1..(n + 1) : i \in 1..n \/ i = n + 1
      OBVIOUS
    <3>4. \A i \in 1..n : i \in 1..(n + 1)
      OBVIOUS
    <3>5. n + 1 \in 1..(n + 1)
      OBVIOUS
    <3> QED
      BY <2>5, <3>2, <3>3, <3>4, <3>5
  <2> HIDE DEF P
  <2>6. Nat \subseteq T
    <3>1. 0 \in T
      OBVIOUS
    <3>2. ASSUME NEW n \in Nat, n \in T PROVE n + 1 \in T
      <4>1. CASE n = 0
        BY <2>4, <4>1
      <4>2. CASE n # 0
        BY <2>5, <3>2, <4>2
      <4> QED
        BY <4>1, <4>2
    <3> HIDE DEF T
    <3> QED
      BY <3>1, <3>2, NatSet
  <2>7. Len(ss) \in 1..Len(ss) /\ DOMAIN ss = 1..Len(ss) /\ Len(ss) \in Nat
    BY <1>2
  <2>8. Len(ss) \in T
    BY <2>6, <2>7
  <2>9. P(Len(ss))
    BY <2>7, <2>8
  <2> HIDE DEF T
  <2> QED
    BY <2>1, <2>7, <2>9 DEF P
<1> QED
  BY <1>1, <1>2

-----------------------------------------------------------------------------
\* Prefixes, and what is selected from a list (Filtered).

\* A prefix and the next element make the next prefix.
LEMMA PrefixNext ==
    ASSUME NEW S, NEW s \in Seq(S), NEW n \in Nat, n + 1 <= Len(s)
    PROVE  /\ SubSeq(s, 1, n) \in Seq(S) /\ Len(SubSeq(s, 1, n)) = n
           /\ s[n + 1] \in S
           /\ SubSeq(s, 1, n + 1) = Append(SubSeq(s, 1, n), s[n + 1])
<1>1. SubSeq(s, 1, n) \in Seq(S) /\ Len(SubSeq(s, 1, n)) = n /\ s[n + 1] \in S
  <2>1. \A i \in 1..n : s[i] \in S
    OBVIOUS
  <2> QED
    BY <2>1, SubSeqProperties
<1>2. SubSeq(s, 1, n + 1) = SubSeq(s, 1, n) \o <<s[n + 1]>>
  BY SubSeqRecursiveSecond
<1> QED
  BY <1>1, <1>2, AppendIsConcat

\* What holds of no elements and goes on to hold with each more holds of all.
IsPrefixes(T, s) ==
    /\ 0 \in T
    /\ \A n \in Nat : n \in T /\ n + 1 <= Len(s) => n + 1 \in T

\* What holds of the empty prefix and passes from each to the next holds of the whole.
LEMMA AllPrefixes ==
    ASSUME NEW S, NEW s \in Seq(S), NEW T, IsPrefixes(T, s)
    PROVE  Len(s) \in T
<1> DEFINE U == {n \in Nat : n <= Len(s) => n \in T}
<1>1. 0 \in U
  BY DEF IsPrefixes
<1>2. ASSUME NEW n \in Nat, n \in U PROVE n + 1 \in U
  BY <1>2 DEF IsPrefixes
<1> HIDE DEF U
<1>3. Len(s) \in U
  BY <1>1, <1>2, NatSet
<1> QED
  BY <1>3 DEF U

\* Flattening distributes over putting one behind the other.
LEMMA FlattenConcat ==
    ASSUME NEW S, NEW a \in Seq(Seq(S)), NEW b \in Seq(Seq(S))
    PROVE  FlattenSeq(a \o b) = FlattenSeq(a) \o FlattenSeq(b)
<1> DEFINE SS == Seq(S)
           first(n) == SubSeq(b, 1, n)
           T == {n \in Nat : FlattenSeq(a \o first(n)) = FlattenSeq(a) \o FlattenSeq(first(n))}
<1> HIDE DEF SS
<1>1. a \in Seq(SS) /\ b \in Seq(SS)
  BY DEF SS
<1>2. \A c \in Seq(SS) : FlattenSeq(c) \in Seq(S)
  BY FlattenType DEF SS
<1>3. 0 \in T
  <2>1. first(0) = <<>>
    BY SubSeqEmpty
  <2>2. a \o <<>> = a /\ FlattenSeq(a) \o <<>> = FlattenSeq(a)
    BY <1>1, <1>2, ConcatEmptySeq
  <2> QED
    BY <2>1, <2>2, FlattenEmpty
<1>4. ASSUME NEW n \in Nat, n \in T, n + 1 <= Len(b) PROVE n + 1 \in T
  <2>1. /\ first(n) \in Seq(SS) /\ b[n + 1] \in SS
        /\ first(n + 1) = Append(first(n), b[n + 1])
    BY <1>1, <1>4, PrefixNext
  <2> DEFINE f == first(n)
             last == b[n + 1]
  <2>2. FlattenSeq(a \o f) = FlattenSeq(a) \o FlattenSeq(f)
    BY <1>4
  <2>3. first(n + 1) = Append(f, last) /\ f \in Seq(SS) /\ last \in SS
    BY <2>1
  <2> HIDE DEF f, last, first
  <2>4. a \o Append(f, last) = Append(a \o f, last) /\ a \o f \in Seq(SS)
    BY <1>1, <2>3
  <2>5. FlattenSeq(Append(a \o f, last)) = FlattenSeq(a \o f) \o last
    BY <2>3, <2>4, FlattenAppend DEF SS
  <2>6. FlattenSeq(Append(f, last)) = FlattenSeq(f) \o last
    BY <2>3, FlattenAppend DEF SS
  <2>7. (FlattenSeq(a) \o FlattenSeq(f)) \o last = FlattenSeq(a) \o (FlattenSeq(f) \o last)
    <3>1. FlattenSeq(a) \in Seq(S) /\ FlattenSeq(f) \in Seq(S)
      BY <1>1, <1>2, <2>3
    <3>2. last \in Seq(S)
      BY <2>3 DEF SS
    <3> QED
      BY <3>1, <3>2, ConcatAssociative, SMTT(30)
  <2>8. FlattenSeq(a \o first(n + 1)) = FlattenSeq(a) \o FlattenSeq(first(n + 1))
    BY <2>2, <2>3, <2>4, <2>5, <2>6, <2>7, Zenon
  <2> QED
    BY <2>8
<1>5. Len(b) \in T
  <2>1. IsPrefixes(T, b)
    BY <1>3, <1>4 DEF IsPrefixes
  <2> HIDE DEF T
  <2> QED
    BY <1>1, <2>1, AllPrefixes
<1>6. first(Len(b)) = b
  BY <1>1, SubSeqFull
<1> QED
  BY <1>5, <1>6

\* A list as it is flattened by Filtered.
Chosen(list, places) == [i \in DOMAIN list |-> IF i \in places THEN <<list[i]>> ELSE <<>>]

\* It is as long as the list.
LEMMA ChosenType ==
    ASSUME NEW S, NEW list \in Seq(S), NEW places
    PROVE  /\ Chosen(list, places) \in Seq(Seq(S)) /\ Len(Chosen(list, places)) = Len(list)
           /\ DOMAIN Chosen(list, places) = DOMAIN list
<1> DEFINE SS == Seq(S)
<1>1. DOMAIN list = 1..Len(list) /\ Len(list) \in Nat
  OBVIOUS
<1>2. \A i \in DOMAIN list : (IF i \in places THEN <<list[i]>> ELSE <<>>) \in SS
  OBVIOUS
<1> HIDE DEF SS
<1>3. Chosen(list, places) \in [1..Len(list) -> SS]
  BY <1>1, <1>2 DEF Chosen
<1> QED
  BY <1>1, <1>3 DEF SS, Chosen

\* What is selected are elements of the list.
LEMMA FilteredType ==
    ASSUME NEW S, NEW list \in Seq(S), NEW places
    PROVE  Filtered(list, places) \in Seq(S)
BY ChosenType, FlattenType DEF Filtered, Chosen

\* Two selections that are the same of this list.
Alike(list, P, Q) == \A i \in DOMAIN list : i \in P <=> i \in Q

\* They select the same.
LEMMA FilteredSame ==
    ASSUME NEW list, NEW P, NEW Q, Alike(list, P, Q)
    PROVE  Filtered(list, P) = Filtered(list, Q)
<1>1. Chosen(list, P) = Chosen(list, Q)
  BY DEF Chosen, Alike
<1> QED
  BY <1>1 DEF Filtered, Chosen

\* The places behind the first n, counted from there.
Beyond(P, n) == {i \in Nat : n + i \in P}

\* A selection from two lists, one behind the other, is one from each.
LEMMA FilteredConcat ==
    ASSUME NEW S, NEW a \in Seq(S), NEW b \in Seq(S), NEW P
    PROVE  Filtered(a \o b, P) = Filtered(a, P) \o Filtered(b, Beyond(P, Len(a)))
<1> DEFINE SS == Seq(S)
           R == Beyond(P, Len(a))
           c == Chosen(a, P)
           d == Chosen(b, R)
           e == Chosen(a \o b, P)
<1>1. /\ a \o b \in Seq(S) /\ Len(a \o b) = Len(a) + Len(b)
      /\ DOMAIN a = 1..Len(a) /\ DOMAIN b = 1..Len(b) /\ DOMAIN (a \o b) = 1..(Len(a) + Len(b))
      /\ Len(a) \in Nat /\ Len(b) \in Nat
      /\ \A i \in 1..Len(a) : (a \o b)[i] = a[i]
      /\ \A i \in 1..Len(b) : (a \o b)[Len(a) + i] = b[i]
  BY ConcatAt
<1>2. /\ c \in Seq(SS) /\ d \in Seq(SS) /\ e \in Seq(SS)
      /\ Len(c) = Len(a) /\ Len(d) = Len(b) /\ Len(e) = Len(a) + Len(b)
  BY <1>1, ChosenType
<1> HIDE DEF R
<1>3. \A i \in 1..Len(a) : e[i] = c[i]
  BY <1>1 DEF Chosen
<1>4. ASSUME NEW i \in 1..Len(b) PROVE e[Len(a) + i] = d[i]
  <2>1. /\ Len(a) + i \in DOMAIN (a \o b) /\ i \in DOMAIN b /\ (a \o b)[Len(a) + i] = b[i]
        /\ (Len(a) + i \in P <=> i \in R)
    BY <1>1 DEF Beyond, R
  <2>2. e[Len(a) + i] = IF Len(a) + i \in P THEN <<(a \o b)[Len(a) + i]>> ELSE <<>>
    BY <2>1, Zenon DEF Chosen
  <2>3. d[i] = IF i \in R THEN <<b[i]>> ELSE <<>>
    BY <2>1, Zenon DEF Chosen
  <2> QED
    BY <2>1, <2>2, <2>3
<1> HIDE DEF c, d, e, SS
<1>5. e = c \o d
  <2>1. \A i \in 1..(Len(a) + Len(b)) :
           i \in 1..Len(a) \/ (i - Len(a) \in 1..Len(b) /\ i = Len(a) + (i - Len(a)))
    BY <1>1
  <2>2. c \o d \in Seq(SS) /\ Len(c \o d) = Len(a) + Len(b)
    BY <1>2, ConcatAt
  <2>3. \A i \in 1..Len(a) : (c \o d)[i] = c[i]
    BY <1>2, ConcatAt
  <2>4. \A i \in 1..Len(b) : (c \o d)[Len(a) + i] = d[i]
    BY <1>2, ConcatAt
  <2>5. \A i \in 1..(Len(a) + Len(b)) : e[i] = (c \o d)[i]
    BY <1>3, <1>4, <2>1, <2>3, <2>4, ZenonT(60)
  <2> QED
    BY <1>2, <2>2, <2>5, SeqEqual
<1>6. FlattenSeq(c \o d) = FlattenSeq(c) \o FlattenSeq(d)
  BY <1>2, FlattenConcat DEF SS
<1> QED
  BY <1>5, <1>6 DEF c, d, e, Filtered, Chosen, R

\* A single sequence flattens to itself.
LEMMA FlattenOne == ASSUME NEW S, NEW s \in Seq(S) PROVE FlattenSeq(<<s>>) = s
<1> DEFINE SS == Seq(S)
<1> HIDE DEF SS
<1>1. s \in SS /\ <<>> \in Seq(SS)
  BY DEF SS
<1>2. <<s>> = Append(<<>>, s)
  BY <1>1
<1>3. FlattenSeq(Append(<<>>, s)) = FlattenSeq(<<>>) \o s
  BY <1>1, FlattenAppend DEF SS
<1>4. <<>> \o s = s
  BY ConcatEmptySeq
<1> QED
  BY <1>2, <1>3, <1>4, FlattenEmpty

\* Of an empty list nothing is selected.
LEMMA FilteredEmpty == ASSUME NEW P PROVE Filtered(<<>>, P) = <<>>
<1>1. [i \in DOMAIN <<>> |-> IF i \in P THEN <<<<>>[i]>> ELSE <<>>] = <<>>
  OBVIOUS
<1> QED
  BY <1>1, FlattenEmpty DEF Filtered

\* Of a single element it is selected or nothing.
LEMMA FilteredOne ==
    ASSUME NEW x, NEW P PROVE Filtered(<<x>>, P) = IF 1 \in P THEN <<x>> ELSE <<>>
<1> DEFINE c == IF 1 \in P THEN <<x>> ELSE <<>>
<1>1. c \in Seq({x})
  <2>1. <<x>> \in Seq({x}) /\ <<>> \in Seq({x})
    OBVIOUS
  <2> QED
    BY <2>1
<1>2. Chosen(<<x>>, P) = <<c>>
  BY DEF Chosen
<1> HIDE DEF c
<1>3. FlattenSeq(<<c>>) = c
  BY <1>1, FlattenOne
<1> QED
  BY <1>2, <1>3 DEF Filtered, Chosen, c

\* An element at the end is the last selected, or none.
LEMMA FilteredAppend ==
    ASSUME NEW S, NEW list \in Seq(S), NEW x \in S, NEW P
    PROVE  Filtered(Append(list, x), P) =
              IF Len(list) + 1 \in P THEN Append(Filtered(list, P), x) ELSE Filtered(list, P)
<1> DEFINE R == Beyond(P, Len(list))
           f == Filtered(list, P)
           y == <<x>>
<1>1. Append(list, x) = list \o y /\ y \in Seq(S) /\ (1 \in R <=> Len(list) + 1 \in P)
  BY DEF Beyond
<1>2. f \in Seq(S)
  BY FilteredType
<1>3. f \o y = Append(f, x) /\ f \o <<>> = f
  BY <1>2
<1>4. Filtered(y, R) = IF 1 \in R THEN y ELSE <<>>
  BY FilteredOne
<1> HIDE DEF f, y, R
<1>5. Filtered(list \o y, P) = f \o Filtered(y, R)
  BY <1>1, FilteredConcat DEF f, R
<1> QED
  BY <1>1, <1>3, <1>4, <1>5 DEF f

\* Every place selects the list.
LEMMA FilteredAll ==
    ASSUME NEW S, NEW list \in Seq(S), NEW P, \A i \in DOMAIN list : i \in P
    PROVE  Filtered(list, P) = list
<1> DEFINE first(n) == SubSeq(list, 1, n)
           T == {n \in Nat : Filtered(first(n), P) = first(n)}
<1>1. 0 \in T
  <2>1. first(0) = <<>>
    BY SubSeqEmpty
  <2> QED
    BY <2>1, FilteredEmpty
<1>2. ASSUME NEW n \in Nat, n \in T, n + 1 <= Len(list) PROVE n + 1 \in T
  <2>1. /\ first(n) \in Seq(S) /\ Len(first(n)) = n /\ list[n + 1] \in S
        /\ first(n + 1) = Append(first(n), list[n + 1])
    BY <1>2, PrefixNext
  <2>2. Len(first(n)) + 1 \in P
    BY <1>2, <2>1
  <2>3. Filtered(first(n), P) = first(n)
    BY <1>2
  <2> HIDE DEF first
  <2>4. Filtered(first(n + 1), P) = first(n + 1)
    BY <2>1, <2>2, <2>3, FilteredAppend
  <2> QED
    BY <2>4
<1>3. Len(list) \in T
  <2>1. IsPrefixes(T, list)
    BY <1>1, <1>2 DEF IsPrefixes
  <2> HIDE DEF T
  <2> QED
    BY <2>1, AllPrefixes
<1> QED
  BY <1>3, SubSeqFull

\* No place selects nothing.
LEMMA FilteredNone ==
    ASSUME NEW S, NEW list \in Seq(S), NEW P, \A i \in DOMAIN list : i \notin P
    PROVE  Filtered(list, P) = <<>>
<1> DEFINE first(n) == SubSeq(list, 1, n)
           T == {n \in Nat : Filtered(first(n), P) = <<>>}
<1>1. 0 \in T
  <2>1. first(0) = <<>>
    BY SubSeqEmpty
  <2> QED
    BY <2>1, FilteredEmpty
<1>2. ASSUME NEW n \in Nat, n \in T, n + 1 <= Len(list) PROVE n + 1 \in T
  <2>1. /\ first(n) \in Seq(S) /\ Len(first(n)) = n /\ list[n + 1] \in S
        /\ first(n + 1) = Append(first(n), list[n + 1])
    BY <1>2, PrefixNext
  <2>2. Len(first(n)) + 1 \notin P
    BY <1>2, <2>1
  <2>3. Filtered(first(n), P) = <<>>
    BY <1>2
  <2> HIDE DEF first
  <2> DEFINE f == first(n)
             x == list[n + 1]
  <2>4. f \in Seq(S) /\ x \in S /\ Len(f) + 1 \notin P
    BY <2>1, <2>2
  <2> HIDE DEF f, x
  <2>5. Filtered(Append(f, x), P) = Filtered(f, P)
    BY <2>4, FilteredAppend
  <2>6. Filtered(first(n + 1), P) = <<>>
    BY <2>1, <2>3, <2>5 DEF f, x
  <2> QED
    BY <2>6
<1>3. Len(list) \in T
  <2>1. IsPrefixes(T, list)
    BY <1>1, <1>2 DEF IsPrefixes
  <2> HIDE DEF T
  <2> QED
    BY <2>1, AllPrefixes
<1> QED
  BY <1>3, SubSeqFull

\* Where the elements that are selected stood, each at a place of its own.
IsSelection(e, list, P) ==
    LET f == Filtered(list, P)
    IN  /\ e \in [1..Len(f) -> {i \in DOMAIN list : i \in P}]
        /\ \A i \in 1..Len(f) : f[i] = list[e[i]]
        /\ \A i, j \in 1..Len(f) : e[i] = e[j] => i = j

\* The selected elements come from places of the list, in their order.
LEMMA FilteredPlaces ==
    ASSUME NEW S, NEW list \in Seq(S), NEW P
    PROVE  \E e : IsSelection(e, list, P)
<1> DEFINE first(n) == SubSeq(list, 1, n)
           T == {n \in Nat : \E e : IsSelection(e, first(n), P)}
<1>1. 0 \in T
  <2>1. first(0) = <<>>
    BY SubSeqEmpty
  <2>2. IsSelection(<<>>, <<>>, P)
    BY FilteredEmpty DEF IsSelection
  <2> QED
    BY <2>1, <2>2
<1>2. ASSUME NEW n \in Nat, n \in T, n + 1 <= Len(list) PROVE n + 1 \in T
  <2> DEFINE s == first(n)
             x == list[n + 1]
             f == Filtered(s, P)
  <2>1. /\ s \in Seq(S) /\ Len(s) = n /\ x \in S
        /\ first(n + 1) = Append(s, x)
    BY <1>2, PrefixNext
  <2>2. PICK e : IsSelection(e, s, P)
    BY <1>2
  <2>3. f \in Seq(S)
    BY <2>1, FilteredType
  <2>4. first(n + 1) = Append(s, x)
    BY <2>1
  <2> HIDE DEF s, x, first
  <2>5. Filtered(Append(s, x), P) = IF n + 1 \in P THEN Append(f, x) ELSE f
    <3>1. s \in Seq(S) /\ x \in S /\ Len(s) = n
      BY <2>1
    <3>2. Filtered(Append(s, x), P) = IF Len(s) + 1 \in P THEN Append(f, x) ELSE f
      BY <3>1, FilteredAppend
    <3> QED
      BY <3>1, <3>2
  <2>6. /\ e \in [1..Len(f) -> {i \in DOMAIN s : i \in P}]
        /\ \A i \in 1..Len(f) : f[i] = s[e[i]]
        /\ \A i, j \in 1..Len(f) : e[i] = e[j] => i = j
    BY <2>2 DEF IsSelection
  <2> HIDE DEF f
  <2>7. /\ DOMAIN s = 1..n /\ DOMAIN Append(s, x) = 1..(n + 1) /\ Append(s, x)[n + 1] = x
        /\ \A i \in 1..n : Append(s, x)[i] = s[i]
    BY <2>1
  <2>8. \E g : IsSelection(g, Append(s, x), P)
    <3>1. CASE n + 1 \notin P
      <4>1. \A i \in 1..Len(f) : e[i] \in 1..n
        BY <2>6, <2>7
      <4>2. e \in [1..Len(f) -> {i \in DOMAIN Append(s, x) : i \in P}]
        BY <2>6, <2>7
      <4>3. IsSelection(e, Append(s, x), P)
        BY <2>5, <2>6, <2>7, <3>1, <4>1, <4>2 DEF IsSelection
      <4> QED
        BY <4>3
    <3>2. CASE n + 1 \in P
      <4> DEFINE g == [i \in 1..(Len(f) + 1) |-> IF i = Len(f) + 1 THEN n + 1 ELSE e[i]]
                 h == Append(f, x)
      <4>1. /\ Len(h) = Len(f) + 1 /\ h[Len(f) + 1] = x /\ Len(f) \in Nat
            /\ \A i \in 1..Len(f) : h[i] = f[i]
        BY <2>3
      <4>2. \A i \in 1..Len(f) : e[i] \in 1..n /\ e[i] \in P
        BY <2>6, <2>7
      <4>3. g \in [1..(Len(f) + 1) -> {i \in 1..(n + 1) : i \in P}]
        BY <3>2, <4>2
      <4>4. g[Len(f) + 1] = n + 1 /\ \A i \in 1..Len(f) : g[i] = e[i]
        BY <4>1
      <4> HIDE DEF g, h
      <4>5. \A i \in 1..(Len(f) + 1) : i \in 1..Len(f) \/ i = Len(f) + 1
        BY <4>1
      <4>6. ASSUME NEW i \in 1..(Len(f) + 1) PROVE h[i] = Append(s, x)[g[i]]
        <5>1. CASE i = Len(f) + 1
          BY <2>7, <4>1, <4>4, <5>1
        <5>2. CASE i \in 1..Len(f)
          <6>1. h[i] = f[i] /\ g[i] = e[i] /\ e[i] \in 1..n
            BY <4>1, <4>2, <4>4, <5>2
          <6>2. f[i] = s[e[i]] /\ Append(s, x)[e[i]] = s[e[i]]
            BY <2>6, <2>7, <5>2, <6>1
          <6> QED
            BY <6>1, <6>2
        <5> QED
          BY <4>5, <5>1, <5>2
      <4>7. \A i, j \in 1..(Len(f) + 1) : g[i] = g[j] => i = j
        BY <2>6, <4>2, <4>4, <4>5
      <4>8. IsSelection(g, Append(s, x), P)
        BY <2>5, <2>7, <3>2, <4>1, <4>3, <4>6, <4>7 DEF IsSelection, h
      <4> QED
        BY <4>8
    <3> QED
      BY <3>1, <3>2
  <2>9. \E g : IsSelection(g, first(n + 1), P)
    BY <2>4, <2>8
  <2> QED
    BY <2>9
<1>3. Len(list) \in T
  <2>1. IsPrefixes(T, list)
    BY <1>1, <1>2 DEF IsPrefixes
  <2> HIDE DEF T
  <2> QED
    BY <2>1, AllPrefixes
<1>4. first(Len(list)) = list
  BY SubSeqFull
<1>5. \E e : IsSelection(e, first(Len(list)), P)
  BY <1>3
<1> QED
  BY <1>4, <1>5, Zenon

\* The selected elements are those at the places.
LEMMA FilteredRange ==
    ASSUME NEW S, NEW list \in Seq(S), NEW P, NEW x
    PROVE  x \in Range(Filtered(list, P)) <=> \E i \in DOMAIN list : i \in P /\ x = list[i]
<1> DEFINE c == Chosen(list, P)
<1>1. \A i \in DOMAIN list : x \in Range(c[i]) <=> i \in P /\ x = list[i]
  <2> SUFFICES ASSUME NEW i \in DOMAIN list PROVE x \in Range(c[i]) <=> i \in P /\ x = list[i]
    OBVIOUS
  <2>1. c[i] = IF i \in P THEN <<list[i]>> ELSE <<>>
    BY Zenon DEF Chosen
  <2>2. Range(<<list[i]>>) = {list[i]} /\ Range(<<>>) = {}
    BY DEF Range
  <2> QED
    BY <2>1, <2>2
<1>2. c \in Seq(Seq(S)) /\ DOMAIN c = DOMAIN list /\ Filtered(list, P) = FlattenSeq(c)
  BY ChosenType DEF Filtered, Chosen
<1> HIDE DEF c
<1>3. x \in Range(FlattenSeq(c)) <=> \E i \in DOMAIN c : x \in Range(c[i])
  BY <1>2, FlattenRange
<1> QED
  BY <1>1, <1>2, <1>3

\* What the sequences of a sequence amount to, one after the other.
Grows(g, ss) ==
    /\ g[0] = <<>>
    /\ \A k \in Nat : k + 1 <= Len(ss) => g[k + 1] = g[k] \o ss[k + 1]

\* A function that grows by each of the sequences ends with them flattened.
LEMMA FlattenGrows ==
    ASSUME NEW S, NEW ss \in Seq(Seq(S)), NEW g, Grows(g, ss)
    PROVE  FlattenSeq(ss) = g[Len(ss)]
<1> DEFINE SS == Seq(S)
           first(n) == SubSeq(ss, 1, n)
           T == {n \in Nat : FlattenSeq(first(n)) = g[n]}
<1> HIDE DEF SS
<1>1. ss \in Seq(SS)
  BY DEF SS
<1>2. 0 \in T
  <2>1. first(0) = <<>>
    BY SubSeqEmpty
  <2> QED
    BY <2>1, FlattenEmpty DEF Grows
<1>3. ASSUME NEW n \in Nat, n \in T, n + 1 <= Len(ss) PROVE n + 1 \in T
  <2>1. /\ first(n) \in Seq(SS) /\ ss[n + 1] \in SS
        /\ first(n + 1) = Append(first(n), ss[n + 1])
    BY <1>1, <1>3, PrefixNext
  <2>2. g[n + 1] = g[n] \o ss[n + 1] /\ FlattenSeq(first(n)) = g[n]
    BY <1>3 DEF Grows
  <2> DEFINE f == first(n)
             last == ss[n + 1]
  <2>3. f \in Seq(SS) /\ last \in SS /\ first(n + 1) = Append(f, last)
        /\ FlattenSeq(f) \o last = g[n + 1]
    BY <2>1, <2>2
  <2> HIDE DEF f, last, first
  <2>4. FlattenSeq(Append(f, last)) = FlattenSeq(f) \o last
    BY <2>3, FlattenAppend DEF SS
  <2>5. FlattenSeq(first(n + 1)) = g[n + 1]
    BY <2>3, <2>4
  <2> QED
    BY <2>5
<1>4. Len(ss) \in T
  <2>1. IsPrefixes(T, ss)
    BY <1>2, <1>3 DEF IsPrefixes
  <2> HIDE DEF T
  <2> QED
    BY <1>1, <2>1, AllPrefixes
<1>5. first(Len(ss)) = ss
  BY <1>1, SubSeqFull
<1> QED
  BY <1>4, <1>5

\* A part of a sequence, element by element.
LEMMA PartType ==
    ASSUME NEW S, NEW c \in Seq(S), NEW m \in Nat, NEW n \in Nat, 1 <= m, n <= Len(c)
    PROVE  /\ SubSeq(c, m, n) \in Seq(S)
           /\ Len(SubSeq(c, m, n)) = IF m <= n THEN n - m + 1 ELSE 0
           /\ \A i \in 1..(n - m + 1) : SubSeq(c, m, n)[i] = c[m + i - 1]
<1>1. \A i \in m..n : c[i] \in S
  OBVIOUS
<1> QED
  BY <1>1, SubSeqProperties

\* A part grows by the next element.
LEMMA PartNext ==
    ASSUME NEW S, NEW c \in Seq(S), NEW m \in Nat, NEW k \in Nat, 1 <= m, m <= k + 1, k + 1 <= Len(c)
    PROVE  SubSeq(c, m, k) \o <<c[k + 1]>> = SubSeq(c, m, k + 1)
<1>1. m \in 1..Len(c) /\ k + 1 \in m..Len(c)
  OBVIOUS
<1>2. SubSeq(c, m, k + 1) = SubSeq(c, m, (k + 1) - 1) \o <<c[k + 1]>>
  BY <1>1, SubSeqRecursiveSecond
<1> QED
  BY <1>2

\* A place in a sequence or just behind it, and a stretch of it.
IsPlace(c, n) == n \in 1..(Len(c) + 1)
IsSpan(c, m, n) == m \in 1..Len(c) /\ n \in (m + 1)..(Len(c) + 1)

IsTriple(S, a, b, z) == a \in Seq(S) /\ b \in Seq(S) /\ z \in Seq(S)

\* Three sequences are put together from either end.
LEMMA ConcatThree ==
    ASSUME NEW S, NEW a, NEW b, NEW z, IsTriple(S, a, b, z)
    PROVE  a \o b \in Seq(S) /\ (a \o b) \o z = a \o (b \o z)
<1>1. a \in Seq(S) /\ b \in Seq(S) /\ z \in Seq(S)
  BY DEF IsTriple
<1>2. a \o b \in Seq(S)
  BY <1>1, ConcatAt
<1> QED
  BY <1>1, <1>2, ConcatAssociative

IsQuadruple(S, s1, s2, s3, s4) == s1 \in Seq(S) /\ s2 \in Seq(S) /\ s3 \in Seq(S) /\ s4 \in Seq(S)
IsRegrouped(s1, s2, s3, s4) == (s1 \o (s2 \o s3)) \o s4 = s1 \o (s2 \o (s3 \o s4))

\* So are four.
LEMMA ConcatFour ==
    ASSUME NEW S, NEW s1, NEW s2, NEW s3, NEW s4, IsQuadruple(S, s1, s2, s3, s4)
    PROVE  IsRegrouped(s1, s2, s3, s4)
<1>1. IsTriple(S, s2, s3, s4)
  BY DEF IsTriple, IsQuadruple
<1>2. s2 \o s3 \in Seq(S) /\ (s2 \o s3) \o s4 = s2 \o (s3 \o s4)
  BY <1>1, ConcatThree
<1>3. IsTriple(S, s1, s2 \o s3, s4)
  BY <1>2 DEF IsTriple, IsQuadruple
<1>4. (s1 \o (s2 \o s3)) \o s4 = s1 \o ((s2 \o s3) \o s4)
  BY <1>3, ConcatThree, SMTT(30)
<1> QED
  BY <1>2, <1>4, Zenon DEF IsRegrouped

\* A part that ends before it starts is empty.
LEMMA PartEmpty == ASSUME NEW c, NEW m \in Nat, NEW n \in Nat, n < m PROVE SubSeq(c, m, n) = <<>>
BY SubSeqEmpty

\* Something put before the n-th element, or behind all.
LEMMA FlattenInsert ==
    ASSUME NEW S, NEW c \in Seq(S), NEW x \in Seq(S), NEW n, IsPlace(c, n)
    PROVE  FlattenSeq([i \in 1..(Len(c) + 1) |->
                          (IF i = n THEN x ELSE <<>>) \o (IF i <= Len(c) THEN <<c[i]>> ELSE <<>>)])
              = SubSeq(c, 1, n - 1) \o (x \o SubSeq(c, n, Len(c)))
<1> DEFINE At(i) == (IF i = n THEN x ELSE <<>>) \o (IF i <= Len(c) THEN <<c[i]>> ELSE <<>>)
           ss == [i \in 1..(Len(c) + 1) |-> At(i)]
           SS == Seq(S)
           upto(k) == IF k <= Len(c) THEN k ELSE Len(c)
           a == SubSeq(c, 1, n - 1)
           G(k) == IF k < n THEN SubSeq(c, 1, k) ELSE a \o (x \o SubSeq(c, n, upto(k)))
           g == [k \in 0..(Len(c) + 1) |-> G(k)]
<1>1. Len(c) \in Nat /\ n \in Nat /\ n >= 1 /\ n <= Len(c) + 1 /\ n - 1 \in Nat
  BY DEF IsPlace
<1>2. \A i \in 1..(Len(c) + 1) : At(i) \in SS
  <2> SUFFICES ASSUME NEW i \in 1..(Len(c) + 1) PROVE At(i) \in SS
    OBVIOUS
  <2> DEFINE y == IF i = n THEN x ELSE <<>>
             z == IF i <= Len(c) THEN <<c[i]>> ELSE <<>>
  <2>1. y \in Seq(S) /\ z \in Seq(S)
    OBVIOUS
  <2> HIDE DEF y, z
  <2>2. y \o z \in Seq(S)
    BY <2>1
  <2> QED
    BY <2>2 DEF y, z
<1>3. a \in Seq(S)
  BY <1>1, PartType
<1>4. \A k : k < n => G(k) = SubSeq(c, 1, k)
  OBVIOUS
<1>5. \A k : ~(k < n) => G(k) = a \o (x \o SubSeq(c, n, upto(k)))
  OBVIOUS
<1>6. /\ \A k : k <= Len(c) => upto(k) = k
      /\ \A k : ~(k <= Len(c)) => upto(k) = Len(c)
  OBVIOUS
<1>7. /\ \A i : i # n /\ i <= Len(c) => At(i) = <<>> \o <<c[i]>>
      /\ \A i : i # n /\ ~(i <= Len(c)) => At(i) = <<>> \o <<>>
      /\ \A i : i = n /\ i <= Len(c) => At(i) = x \o <<c[i]>>
      /\ \A i : i = n /\ ~(i <= Len(c)) => At(i) = x \o <<>>
  BY Zenon
<1>8. \A z \in Seq(S) : <<>> \o z = z /\ z \o <<>> = z
  BY ConcatEmptySeq
<1>9. \A i \in Nat : 1 <= i /\ i <= Len(c) => <<c[i]>> \in Seq(S)
  OBVIOUS
<1> HIDE DEF SS, At, a, G, upto
<1>10. ss \in Seq(SS) /\ Len(ss) = Len(c) + 1 /\ \A i \in 1..(Len(c) + 1) : ss[i] = At(i)
  <2>1. ss \in [1..(Len(c) + 1) -> SS] /\ Len(c) + 1 \in Nat
    BY <1>1, <1>2
  <2> QED
    BY <2>1
<1> HIDE DEF ss, g
<1>11. ASSUME NEW k \in Nat, k + 1 <= Len(c) + 1 PROVE G(k + 1) = G(k) \o At(k + 1)
  <2> DEFINE z == <<c[k + 1]>>
  <2>1. k <= Len(c) /\ k + 1 \in Nat /\ (k < n \/ n <= k)
    BY <1>1, <1>11
  <2>2. k + 1 <= Len(c) => z \in Seq(S)
    BY <1>9, <2>1, <1>1
  <2> HIDE DEF z
  <2>3. CASE k + 1 < n
    <3>1. k < n /\ k + 1 # n /\ k + 1 <= Len(c)
      BY <1>1, <2>1, <2>3
    <3>2. At(k + 1) = z
      BY <1>7, <1>8, <2>2, <3>1, Zenon DEF z
    <3>3. SubSeq(c, 1, k) \o z = SubSeq(c, 1, k + 1)
      BY <3>1, PartNext DEF z
    <3> QED
      BY <1>4, <2>3, <3>1, <3>2, <3>3, Zenon
  <2>4. CASE k + 1 = n /\ n <= Len(c)
    <3>1. /\ k < n /\ ~(k + 1 < n) /\ n - 1 = k /\ k + 1 <= Len(c) /\ 1 <= k + 1
          /\ upto(k + 1) = k + 1
      BY <1>1, <1>6, <2>1, <2>4
    <3>2. At(k + 1) = x \o z
      BY <1>7, <2>4, Zenon DEF z
    <3>3. SubSeq(c, k + 1, k) = <<>>
      BY <2>1, <3>1, PartEmpty
    <3>4. SubSeq(c, k + 1, k) \o z = SubSeq(c, k + 1, k + 1)
      BY <2>1, <3>1, PartNext DEF z
    <3>5. SubSeq(c, n, upto(k + 1)) = z
      BY <1>8, <2>2, <2>4, <3>1, <3>3, <3>4, Zenon
    <3>6. G(k) = a
      BY <1>4, <3>1, Zenon DEF a
    <3> QED
      BY <1>5, <3>1, <3>2, <3>5, <3>6, Zenon
  <2>5. CASE k + 1 = n /\ n = Len(c) + 1
    <3>1. k < n /\ ~(k + 1 < n) /\ n - 1 = k /\ ~(k + 1 <= Len(c)) /\ Len(c) < n
      BY <1>1, <2>1, <2>5
    <3>2. At(k + 1) = x \o <<>>
      BY <1>7, <2>5, <3>1, Zenon
    <3>3. upto(k + 1) = Len(c) /\ SubSeq(c, n, Len(c)) = <<>>
      BY <1>1, <1>6, <3>1, PartEmpty
    <3>4. G(k) = a
      BY <1>4, <3>1, Zenon DEF a
    <3>5. G(k + 1) = a \o (x \o <<>>)
      BY <1>5, <3>1, <3>3, Zenon
    <3> QED
      BY <3>2, <3>4, <3>5, Zenon
  <2>6. CASE n <= k
    <3> DEFINE b == SubSeq(c, n, k)
               y == IF k + 1 <= Len(c) THEN z ELSE <<>>
    <3>1. ~(k < n) /\ ~(k + 1 < n) /\ k + 1 # n /\ n \in Nat /\ 1 <= n /\ n <= k + 1
      BY <1>1, <2>1, <2>6
    <3>2. y \in Seq(S)
      BY <2>2
    <3>3. b \in Seq(S)
      BY <2>1, <3>1, PartType
    <3>4. At(k + 1) = y
      <4>1. CASE k + 1 <= Len(c)
        BY <1>7, <1>8, <2>2, <3>1, <4>1, Zenon DEF z
      <4>2. CASE ~(k + 1 <= Len(c))
        <5>1. <<>> \o <<>> = <<>>
          OBVIOUS
        <5> QED
          BY <1>7, <3>1, <4>2, <5>1, Zenon
      <4> QED
        BY <4>1, <4>2
    <3>5. G(k) = a \o (x \o b)
      BY <1>5, <1>6, <2>1, <3>1, Zenon
    <3>6. SubSeq(c, n, upto(k + 1)) = b \o y
      <4>1. CASE k + 1 <= Len(c)
        <5>1. b \o z = SubSeq(c, n, k + 1)
          BY <2>1, <3>1, <4>1, PartNext DEF z
        <5> QED
          BY <1>6, <4>1, <5>1, Zenon
      <4>2. CASE ~(k + 1 <= Len(c))
        <5>1. k = Len(c)
          BY <1>1, <2>1, <4>2
        <5> QED
          BY <1>6, <1>8, <3>3, <4>2, <5>1, Zenon
      <4> QED
        BY <4>1, <4>2
    <3>7. G(k + 1) = a \o (x \o SubSeq(c, n, upto(k + 1)))
      BY <1>5, <3>1, Zenon
    <3> HIDE DEF y, b
    <3>8. IsQuadruple(S, a, x, b, y)
      BY <1>3, <3>2, <3>3, Zenon DEF IsQuadruple
    <3>9. (a \o (x \o b)) \o y = a \o (x \o (b \o y))
      <4>1. IsRegrouped(a, x, b, y)
        BY <3>8, ConcatFour, Zenon
      <4> QED
        BY <4>1, Zenon DEF IsRegrouped
    <3> QED
      BY <3>4, <3>5, <3>6, <3>7, <3>9, Zenon
  <2> QED
    BY <1>1, <2>1, <2>3, <2>4, <2>5, <2>6
<1>12. G(0) = <<>>
  <2>1. 0 < n /\ SubSeq(c, 1, 0) = <<>>
    BY <1>1, PartEmpty
  <2> QED
    BY <1>4, <2>1, Zenon
<1>13. G(Len(c) + 1) = a \o (x \o SubSeq(c, n, Len(c)))
  <2>1. ~(Len(c) + 1 < n) /\ ~(Len(c) + 1 <= Len(c))
    BY <1>1
  <2> QED
    BY <1>5, <1>6, <2>1, Zenon
<1>14. \A k \in 0..(Len(c) + 1) : g[k] = G(k)
  BY DEF g
<1>15. Grows(g, ss)
  <2>1. g[0] = <<>>
    BY <1>1, <1>12, <1>14
  <2>2. ASSUME NEW k \in Nat, k + 1 <= Len(ss) PROVE g[k + 1] = g[k] \o ss[k + 1]
    <3>1. /\ k \in 0..(Len(c) + 1) /\ k + 1 \in 0..(Len(c) + 1) /\ k + 1 \in 1..(Len(c) + 1)
          /\ k + 1 <= Len(c) + 1
      BY <1>1, <1>10, <2>2
    <3>2. G(k + 1) = G(k) \o At(k + 1)
      BY <1>11, <3>1
    <3> QED
      BY <1>10, <1>14, <3>1, <3>2, Zenon
  <2> QED
    BY <2>1, <2>2 DEF Grows
<1>16. FlattenSeq(ss) = g[Len(c) + 1]
  BY <1>10, <1>15, FlattenGrows DEF SS
<1>17. FlattenSeq(ss) = a \o (x \o SubSeq(c, n, Len(c)))
  <2>1. Len(c) + 1 \in 0..(Len(c) + 1)
    BY <1>1
  <2> QED
    BY <1>13, <1>16, <1>14, <2>1, Zenon
<1> QED
  BY <1>17 DEF ss, At, a

\* The elements between two places replaced.
LEMMA FlattenReplace ==
    ASSUME NEW S, NEW c \in Seq(S), NEW x \in Seq(S), NEW m, NEW n, IsSpan(c, m, n)
    PROVE  FlattenSeq([i \in DOMAIN c |-> IF i \in (m + 1)..(n - 1) THEN <<>>
                                          ELSE IF i = m THEN <<c[i]>> \o x ELSE <<c[i]>>])
              = SubSeq(c, 1, m) \o (x \o SubSeq(c, n, Len(c)))
<1> DEFINE At(i) == IF i \in (m + 1)..(n - 1) THEN <<>>
                    ELSE IF i = m THEN <<c[i]>> \o x ELSE <<c[i]>>
           ss == [i \in DOMAIN c |-> At(i)]
           SS == Seq(S)
           a == SubSeq(c, 1, m)
           G(k) == IF k < m THEN SubSeq(c, 1, k) ELSE a \o (x \o SubSeq(c, n, k))
           g == [k \in 0..Len(c) |-> G(k)]
<1>1. /\ Len(c) \in Nat /\ m \in Nat /\ n \in Nat /\ n - 1 \in Nat /\ m >= 1 /\ m <= Len(c)
      /\ n >= m + 1 /\ n <= Len(c) + 1 /\ DOMAIN c = 1..Len(c)
  BY DEF IsSpan
<1>2. \A i \in 1..Len(c) : At(i) \in SS
  <2> SUFFICES ASSUME NEW i \in 1..Len(c) PROVE At(i) \in SS
    OBVIOUS
  <2>1. <<c[i]>> \in Seq(S) /\ <<>> \in Seq(S)
    OBVIOUS
  <2>2. <<c[i]>> \o x \in Seq(S)
    BY <2>1, ConcatAt
  <2> QED
    BY <2>1, <2>2
<1>3. a \in Seq(S)
  BY <1>1, PartType
<1>4. \A k : k < m => G(k) = SubSeq(c, 1, k)
  OBVIOUS
<1>5. \A k : ~(k < m) => G(k) = a \o (x \o SubSeq(c, n, k))
  OBVIOUS
<1>6. /\ \A i : i \in (m + 1)..(n - 1) => At(i) = <<>>
      /\ \A i : i \notin (m + 1)..(n - 1) /\ i = m => At(i) = <<c[i]>> \o x
      /\ \A i : i \notin (m + 1)..(n - 1) /\ i # m => At(i) = <<c[i]>>
  BY Zenon
<1>7. \A z \in Seq(S) : <<>> \o z = z /\ z \o <<>> = z
  BY ConcatEmptySeq
<1>8. \A i \in Nat : 1 <= i /\ i <= Len(c) => <<c[i]>> \in Seq(S)
  OBVIOUS
<1> HIDE DEF SS, At, a, G
<1>9. ss \in Seq(SS) /\ Len(ss) = Len(c) /\ \A i \in 1..Len(c) : ss[i] = At(i)
  <2>1. ss \in [1..Len(c) -> SS]
    BY <1>1, <1>2
  <2> QED
    BY <1>1, <2>1
<1> HIDE DEF ss, g
<1>10. ASSUME NEW k \in Nat, k + 1 <= Len(c) PROVE G(k + 1) = G(k) \o At(k + 1)
  <2> DEFINE z == <<c[k + 1]>>
             b == SubSeq(c, n, k)
  <2>1. z \in Seq(S)
    BY <1>8, <1>10
  <2>2. b \in Seq(S)
    BY <1>1, <1>10, PartType
  <2> HIDE DEF z
  <2>3. CASE k + 1 < m
    <3>1. k < m /\ k + 1 \notin (m + 1)..(n - 1) /\ k + 1 # m
      BY <1>1, <2>3
    <3>2. At(k + 1) = z
      BY <1>6, <3>1, Zenon DEF z
    <3>3. SubSeq(c, 1, k) \o z = SubSeq(c, 1, k + 1)
      BY <1>10, <3>1, PartNext DEF z
    <3> QED
      BY <1>4, <2>3, <3>1, <3>2, <3>3, Zenon
  <2>4. CASE k + 1 = m
    <3> DEFINE p == SubSeq(c, 1, k)
    <3>1. /\ k < m /\ ~(k + 1 < m) /\ k + 1 \notin (m + 1)..(n - 1) /\ k + 1 < n /\ 1 <= k + 1
          /\ k <= Len(c) /\ k + 1 \in Nat
      BY <1>1, <1>10, <2>4
    <3>2. At(k + 1) = z \o x
      BY <1>6, <2>4, <3>1, Zenon DEF z
    <3>3. p \o z = a
      BY <1>10, <2>4, <3>1, PartNext DEF a, z
    <3>4. p \in Seq(S)
      BY <3>1, PartType
    <3>5. G(k) = p
      BY <1>4, <3>1, Zenon
    <3>6. SubSeq(c, n, k + 1) = <<>>
      BY <1>1, <3>1, PartEmpty
    <3>7. G(k + 1) = a \o x
      BY <1>5, <1>7, <3>1, <3>6, Zenon
    <3> HIDE DEF p
    <3>8. IsTriple(S, p, z, x)
      BY <2>1, <3>4, Zenon DEF IsTriple
    <3>9. (p \o z) \o x = p \o (z \o x)
      BY <3>8, ConcatThree
    <3> QED
      BY <3>2, <3>3, <3>5, <3>7, <3>9, Zenon
  <2>5. CASE m <= k /\ k + 1 < n
    <3>1. ~(k < m) /\ ~(k + 1 < m) /\ k + 1 \in (m + 1)..(n - 1) /\ k < n /\ k + 1 \in Nat
      BY <1>1, <2>5
    <3>2. At(k + 1) = <<>>
      BY <1>6, <3>1, Zenon
    <3>3. b = <<>> /\ SubSeq(c, n, k + 1) = <<>>
      BY <1>1, <2>5, <3>1, PartEmpty
    <3>4. G(k) = a \o x /\ G(k + 1) = a \o x
      BY <1>5, <1>7, <3>1, <3>3, Zenon
    <3>5. a \o x \in Seq(S)
      BY <1>3, ConcatAt
    <3> QED
      BY <1>7, <3>2, <3>4, <3>5, Zenon
  <2>6. CASE n <= k + 1
    <3>1. ~(k < m) /\ ~(k + 1 < m) /\ k + 1 \notin (m + 1)..(n - 1) /\ k + 1 # m /\ 1 <= n
      BY <1>1, <2>6
    <3>2. At(k + 1) = z
      BY <1>6, <3>1, Zenon DEF z
    <3>3. b \o z = SubSeq(c, n, k + 1)
      BY <1>1, <1>10, <2>6, <3>1, PartNext DEF z
    <3>4. G(k) = a \o (x \o b) /\ G(k + 1) = a \o (x \o SubSeq(c, n, k + 1))
      BY <1>5, <3>1, Zenon
    <3> HIDE DEF b
    <3>5. IsQuadruple(S, a, x, b, z)
      BY <1>3, <2>1, <2>2, Zenon DEF IsQuadruple
    <3>6. (a \o (x \o b)) \o z = a \o (x \o (b \o z))
      <4>1. IsRegrouped(a, x, b, z)
        BY <3>5, ConcatFour, Zenon
      <4> QED
        BY <4>1, Zenon DEF IsRegrouped
    <3> QED
      BY <3>2, <3>3, <3>4, <3>6, Zenon
  <2> QED
    BY <1>1, <2>3, <2>4, <2>5, <2>6
<1>11. G(0) = <<>>
  <2>1. 0 < m /\ SubSeq(c, 1, 0) = <<>>
    BY <1>1, PartEmpty
  <2> QED
    BY <1>4, <2>1, Zenon
<1>12. G(Len(c)) = a \o (x \o SubSeq(c, n, Len(c)))
  <2>1. ~(Len(c) < m)
    BY <1>1
  <2> QED
    BY <1>5, <2>1, Zenon
<1>13. \A k \in 0..Len(c) : g[k] = G(k)
  BY DEF g
<1>14. Grows(g, ss)
  <2>1. g[0] = <<>>
    BY <1>1, <1>11, <1>13
  <2>2. ASSUME NEW k \in Nat, k + 1 <= Len(ss) PROVE g[k + 1] = g[k] \o ss[k + 1]
    <3>1. k \in 0..Len(c) /\ k + 1 \in 0..Len(c) /\ k + 1 \in 1..Len(c) /\ k + 1 <= Len(c)
      BY <1>1, <1>9, <2>2
    <3>2. G(k + 1) = G(k) \o At(k + 1)
      BY <1>10, <3>1
    <3> QED
      BY <1>9, <1>13, <3>1, <3>2, Zenon
  <2> QED
    BY <2>1, <2>2 DEF Grows
<1>15. FlattenSeq(ss) = g[Len(c)]
  BY <1>9, <1>14, FlattenGrows DEF SS
<1>16. FlattenSeq(ss) = a \o (x \o SubSeq(c, n, Len(c)))
  <2>1. Len(c) \in 0..Len(c)
    BY <1>1
  <2> QED
    BY <1>12, <1>15, <1>13, <2>1, Zenon
<1> QED
  BY <1>16 DEF ss, At, a

\* The greatest of a set.
LEMMA GreatestIs ==
    ASSUME NEW T, T \subseteq Nat, NEW m \in T, \A k \in T : k <= m
    PROVE  Max(T) = m
<1>1. \A k \in T : m >= k
  OBVIOUS
<1>2. Max(T) \in T /\ \A k \in T : Max(T) >= k
  BY <1>1 DEF Max
<1>3. Max(T) >= m /\ m >= Max(T) /\ Max(T) \in Nat /\ m \in Nat
  BY <1>1, <1>2
<1> QED
  BY <1>3

\* sing-box: the program's own proxies go before the nodes.
LEMMA InjectiveConcat ==
    ASSUME NEW S, NEW a \in Seq(S), NEW b \in Seq(S), IsInjective(a), IsInjective(b),
           \A x \in Range(b) : x \notin Range(a)
    PROVE  IsInjective(a \o b)
<1> DEFINE c == a \o b
<1>1. /\ DOMAIN c = 1..(Len(a) + Len(b)) /\ DOMAIN a = 1..Len(a) /\ DOMAIN b = 1..Len(b)
      /\ Len(a) \in Nat /\ Len(b) \in Nat
      /\ \A i \in 1..Len(a) : c[i] = a[i]
      /\ \A i \in 1..Len(b) : c[Len(a) + i] = b[i]
      /\ \A i \in 1..(Len(a) + Len(b)) :
            i \in 1..Len(a) \/ (i - Len(a) \in 1..Len(b) /\ i = Len(a) + (i - Len(a)))
  BY ConcatAt
<1> HIDE DEF c
<1>2. \A i \in 1..Len(a), k \in 1..Len(b) : a[i] # b[k]
  BY <1>1 DEF Range
<1>3. IsInjective(c)
  <2> SUFFICES ASSUME NEW i \in DOMAIN c, NEW k \in DOMAIN c, c[i] = c[k] PROVE i = k
    BY DEF IsInjective
  <2> DEFINE n == Len(a)
  <2>1. \A q \in DOMAIN c : \/ q \in DOMAIN a /\ c[q] = a[q]
                            \/ q - n \in DOMAIN b /\ c[q] = b[q - n]
    <3> SUFFICES ASSUME NEW q \in DOMAIN c
                 PROVE  (q \in DOMAIN a /\ c[q] = a[q]) \/ (q - n \in DOMAIN b /\ c[q] = b[q - n])
      OBVIOUS
    <3>1. CASE q \in 1..Len(a)
      BY <1>1, <3>1
    <3>2. CASE q - Len(a) \in 1..Len(b) /\ q = Len(a) + (q - Len(a))
      <4>1. c[q] = b[q - Len(a)]
        BY <1>1, <3>2, Zenon
      <4> QED
        BY <1>1, <3>2, <4>1
    <3> QED
      BY <1>1, <3>1, <3>2
  <2>2. CASE i \in DOMAIN a /\ c[i] = a[i] /\ k \in DOMAIN a /\ c[k] = a[k]
    BY <2>2 DEF IsInjective
  <2>3. CASE i - n \in DOMAIN b /\ c[i] = b[i - n] /\ k - n \in DOMAIN b /\ c[k] = b[k - n]
    <3>1. i - n = k - n
      BY <2>3 DEF IsInjective
    <3> QED
      BY <1>1, <3>1
  <2> QED
    BY <1>1, <1>2, <2>1, <2>2, <2>3
<1> QED
  BY <1>3 DEF c

IsJoin(c, a, b) == c = a \o b
IsThree(x, a, b, c) == x = (a \o b) \o c

\* Three sequences flatten to one behind the other.
LEMMA FlattenThree ==
    ASSUME NEW S, NEW a \in Seq(S), NEW b \in Seq(S), NEW c \in Seq(S)
    PROVE  IsThree(FlattenSeq(<<a, b, c>>), a, b, c)
<1> DEFINE SS == Seq(S)
<1>1. <<a>> \in Seq(SS) /\ <<a, b>> \in Seq(SS) /\ <<a, b>> = Append(<<a>>, b)
      /\ <<a, b, c>> = Append(<<a, b>>, c)
  <2> HIDE DEF SS
  <2>1. a \in SS /\ b \in SS /\ c \in SS
    BY DEF SS
  <2> QED
    BY <2>1
<1>2. FlattenSeq(<<a>>) = a
  BY FlattenOne
<1>3. FlattenSeq(<<a, b>>) = a \o b
  BY <1>1, <1>2, FlattenAppend
<1>4. FlattenSeq(<<a, b, c>>) = FlattenSeq(<<a, b>>) \o c
  BY <1>1, FlattenAppend
<1> QED
  BY <1>3, <1>4, Zenon DEF IsThree

-----------------------------------------------------------------------------
\* What can be left of a list.
Sub(list) == {Filtered(list, P) : P \in SUBSET DOMAIN list}

\* Whatever is selected is something left of it.
LEMMA SubAny ==
    ASSUME NEW list, NEW P
    PROVE  Filtered(list, P) \in Sub(list)
<1> DEFINE Q == {i \in DOMAIN list : i \in P}
<1>1. Q \in SUBSET DOMAIN list /\ Alike(list, P, Q)
  BY DEF Alike
<1> HIDE DEF Q
<1>2. Filtered(list, P) = Filtered(list, Q)
  BY <1>1, FilteredSame
<1> QED
  BY <1>1, <1>2 DEF Sub

\* It is a list of the same elements.
LEMMA SubType ==
    ASSUME NEW S, NEW list \in Seq(S), NEW k \in Sub(list)
    PROVE  k \in Seq(S)
BY FilteredType DEF Sub

\* All of it can be left.
LEMMA SubSelf == ASSUME NEW S, NEW list \in Seq(S) PROVE list \in Sub(list)
<1>1. Filtered(list, DOMAIN list) = list
  BY FilteredAll
<1> QED
  BY <1>1, SubAny

\* Nothing is left of nothing.
LEMMA SubEmpty == ASSUME NEW k \in Sub(<<>>) PROVE k = <<>>
BY FilteredEmpty DEF Sub

\* An element more at the end is left or not.
LEMMA SubAppend ==
    ASSUME NEW S, NEW list \in Seq(S), NEW x \in S, NEW k
    PROVE  k \in Sub(Append(list, x)) <=> k \in Sub(list) \/ \E l \in Sub(list) : k = Append(l, x)
<1> DEFINE more == Append(list, x)
           n == Len(list)
<1>1. n \in Nat /\ DOMAIN list = 1..n /\ DOMAIN more = 1..(n + 1)
  OBVIOUS
<1>2. \A P : Filtered(more, P) = IF n + 1 \in P THEN Append(Filtered(list, P), x) ELSE Filtered(list, P)
  BY FilteredAppend
<1> HIDE DEF more, n
<1>3. ASSUME k \in Sub(more) PROVE k \in Sub(list) \/ \E l \in Sub(list) : k = Append(l, x)
  <2>1. PICK P : k = Filtered(more, P)
    BY <1>3 DEF Sub
  <2>2. Filtered(list, P) \in Sub(list)
    BY SubAny
  <2>3. k = Append(Filtered(list, P), x) \/ k = Filtered(list, P)
    BY <1>2, <2>1
  <2> QED
    BY <2>2, <2>3
<1>4. ASSUME k \in Sub(list) PROVE k \in Sub(more)
  <2>1. PICK P \in SUBSET DOMAIN list : k = Filtered(list, P)
    BY <1>4 DEF Sub
  <2>2. n + 1 \notin P
    BY <1>1, <2>1
  <2>3. k = Filtered(more, P)
    BY <1>2, <2>1, <2>2
  <2> QED
    BY <2>3, SubAny
<1>5. ASSUME NEW l \in Sub(list), k = Append(l, x) PROVE k \in Sub(more)
  <2>1. PICK P \in SUBSET DOMAIN list : l = Filtered(list, P)
    BY DEF Sub
  <2> DEFINE Q == P \cup {n + 1}
  <2>2. n + 1 \in Q /\ Alike(list, P, Q)
    BY <1>1 DEF Alike
  <2> HIDE DEF Q
  <2>3. Filtered(list, Q) = Filtered(list, P)
    BY <2>2, FilteredSame
  <2>4. k = Filtered(more, Q)
    BY <1>2, <1>5, <2>1, <2>2, <2>3
  <2> QED
    BY <2>4, SubAny
<1> QED
  BY <1>3, <1>4, <1>5 DEF more

\* What is left of what is left.
LEMMA SubTrans ==
    ASSUME NEW S, NEW list \in Seq(S), NEW l \in Sub(list), NEW k \in Sub(l)
    PROVE  k \in Sub(list)
<1> DEFINE first(n) == SubSeq(list, 1, n)
           Through(m) == \A b \in Sub(m) : \A a \in Sub(b) : a \in Sub(m)
           T == {n \in Nat : Through(first(n))}
<1>1. 0 \in T
  <2>1. first(0) = <<>>
    BY SubSeqEmpty
  <2>2. Through(<<>>)
    BY SubEmpty
  <2> QED
    BY <2>1, <2>2
<1>2. ASSUME NEW n \in Nat, n \in T, n + 1 <= Len(list) PROVE n + 1 \in T
  <2> DEFINE m == first(n)
             x == list[n + 1]
  <2>1. /\ m \in Seq(S) /\ x \in S
        /\ first(n + 1) = Append(m, x)
    BY <1>2, PrefixNext
  <2>2. Through(m)
    BY <1>2
  <2> HIDE DEF first, m, x
  <2>3. ASSUME NEW b \in Sub(Append(m, x)), NEW a \in Sub(b) PROVE a \in Sub(Append(m, x))
    <3>1. b \in Sub(m) \/ \E c \in Sub(m) : b = Append(c, x)
      BY <2>1, <2>3, SubAppend
    <3>2. CASE b \in Sub(m)
      <4>1. a \in Sub(m)
        BY <2>2, <2>3, <3>2
      <4> QED
        BY <2>1, <4>1, SubAppend
    <3>3. ASSUME NEW c \in Sub(m), b = Append(c, x) PROVE a \in Sub(Append(m, x))
      <4>1. c \in Seq(S)
        BY <2>1, SubType
      <4>2. a \in Sub(c) \/ \E d \in Sub(c) : a = Append(d, x)
        BY <2>1, <2>3, <3>3, <4>1, SubAppend
      <4>3. \A d \in Sub(c) : d \in Sub(m)
        BY <2>2
      <4>4. a \in Sub(m) \/ \E d \in Sub(m) : a = Append(d, x)
        BY <4>2, <4>3
      <4> QED
        BY <2>1, <4>4, SubAppend
    <3> QED
      BY <3>1, <3>2, <3>3
  <2>4. Through(first(n + 1))
    BY <2>1, <2>3
  <2> QED
    BY <2>4
<1>3. Len(list) \in T
  <2>1. IsPrefixes(T, list)
    BY <1>1, <1>2 DEF IsPrefixes
  <2> HIDE DEF T
  <2> QED
    BY <2>1, AllPrefixes
<1>4. first(Len(list)) = list
  BY SubSeqFull
<1>5. Through(list)
  BY <1>3, <1>4
<1> QED
  BY <1>5

\* One element in the middle goes.
LEMMA SubDrop ==
    ASSUME NEW S, NEW a \in Seq(S), NEW b \in Seq(S), NEW x \in S
    PROVE  a \o b \in Sub(a \o (<<x>> \o b))
<1> DEFINE n == Len(a)
           P == {i \in Nat : i # n + 1}
           Q == Beyond(P, n)
           R == Beyond(Q, Len(<<x>>))
<1>1. /\ \A i \in DOMAIN a : i \in P
      /\ 1 \notin Q
      /\ \A i \in DOMAIN b : i \in R
  BY DEF Beyond
<1>2. <<x>> \in Seq(S) /\ <<x>> \o b \in Seq(S)
  OBVIOUS
<1> DEFINE y == <<x>>
<1>3. Filtered(y, Q) = <<>>
  BY <1>1, FilteredOne
<1> HIDE DEF P, Q, R, n, y
<1>4. Filtered(a, P) = a /\ Filtered(b, R) = b
  BY <1>1, FilteredAll
<1>5. Filtered(a \o (y \o b), P) = Filtered(a, P) \o Filtered(y \o b, Q)
  BY <1>2, FilteredConcat DEF n, Q, y
<1>6. Filtered(y \o b, Q) = Filtered(y, Q) \o Filtered(b, R)
  BY <1>2, FilteredConcat DEF R, y
<1>7. <<>> \o b = b
  BY ConcatEmptySeq
<1>8. Filtered(a \o (y \o b), P) = a \o b
  BY <1>3, <1>4, <1>5, <1>6, <1>7
<1> QED
  BY <1>8, SubAny DEF y

-----------------------------------------------------------------------------
\* The elements of a list that are in a set.
Of(list, T) == Filtered(list, {i \in DOMAIN list : list[i] \in T})

\* The elements of a set are elements.
LEMMA OfType == ASSUME NEW S, NEW list \in Seq(S), NEW T PROVE Of(list, T) \in Seq(S)
BY FilteredType DEF Of

\* An empty list has none of them.
LEMMA OfEmpty == ASSUME NEW T PROVE Of(<<>>, T) = <<>>
BY FilteredEmpty DEF Of

\* One more element is among them if it is in the set.
LEMMA OfAppend ==
    ASSUME NEW S, NEW list \in Seq(S), NEW x \in S, NEW T
    PROVE  Of(Append(list, x), T) = IF x \in T THEN Append(Of(list, T), x) ELSE Of(list, T)
<1> DEFINE more == Append(list, x)
           n == Len(list)
           P == {i \in DOMAIN more : more[i] \in T}
           Q == {i \in DOMAIN list : list[i] \in T}
<1>1. /\ n \in Nat /\ DOMAIN list = 1..n /\ DOMAIN more = 1..(n + 1)
      /\ more[n + 1] = x /\ \A i \in 1..n : more[i] = list[i]
  OBVIOUS
<1> HIDE DEF more, n
<1>2. Alike(list, P, Q) /\ (n + 1 \in P <=> x \in T)
  BY <1>1 DEF Alike
<1> HIDE DEF P, Q
<1>3. Filtered(list, P) = Filtered(list, Q)
  BY <1>2, FilteredSame
<1>4. Filtered(more, P) = IF n + 1 \in P THEN Append(Filtered(list, P), x) ELSE Filtered(list, P)
  BY FilteredAppend DEF more, n
<1> QED
  BY <1>2, <1>3, <1>4 DEF Of, P, Q, more

\* What was left of all and is in the set is left of what was in the set.
LEMMA SubOf ==
    ASSUME NEW S, NEW list \in Seq(S), NEW l \in Sub(list), NEW T
    PROVE  Of(l, T) \in Sub(Of(list, T))
<1> DEFINE first(n) == SubSeq(list, 1, n)
           Kept(m) == \A b \in Sub(m) : Of(b, T) \in Sub(Of(m, T))
           U == {n \in Nat : Kept(first(n))}
<1>1. 0 \in U
  <2>1. first(0) = <<>>
    BY SubSeqEmpty
  <2>2. <<>> \in Sub(<<>>)
    BY SubSelf, EmptySeq
  <2>3. Kept(<<>>)
    BY <2>2, SubEmpty, OfEmpty
  <2> QED
    BY <2>1, <2>3
<1>2. ASSUME NEW n \in Nat, n \in U, n + 1 <= Len(list) PROVE n + 1 \in U
  <2> DEFINE m == first(n)
             x == list[n + 1]
  <2>1. /\ m \in Seq(S) /\ x \in S
        /\ first(n + 1) = Append(m, x)
    BY <1>2, PrefixNext
  <2>2. Kept(m)
    BY <1>2
  <2> HIDE DEF first, m, x
  <2>3. Of(m, T) \in Seq(S)
    BY <2>1, OfType
  <2>4. Of(Append(m, x), T) = IF x \in T THEN Append(Of(m, T), x) ELSE Of(m, T)
    BY <2>1, OfAppend
  <2>5. ASSUME NEW b \in Sub(Append(m, x)) PROVE Of(b, T) \in Sub(Of(Append(m, x), T))
    <3>1. b \in Sub(m) \/ \E c \in Sub(m) : b = Append(c, x)
      BY <2>1, <2>5, SubAppend
    <3>2. CASE b \in Sub(m)
      <4>1. Of(b, T) \in Sub(Of(m, T))
        BY <2>2, <3>2
      <4>2. Of(b, T) \in Sub(Append(Of(m, T), x))
        BY <2>1, <2>3, <4>1, SubAppend
      <4> QED
        BY <2>4, <4>1, <4>2
    <3>3. ASSUME NEW c \in Sub(m), b = Append(c, x) PROVE Of(b, T) \in Sub(Of(Append(m, x), T))
      <4>1. c \in Seq(S)
        BY <2>1, SubType
      <4>2. Of(b, T) = IF x \in T THEN Append(Of(c, T), x) ELSE Of(c, T)
        BY <2>1, <3>3, <4>1, OfAppend
      <4>3. Of(c, T) \in Sub(Of(m, T))
        BY <2>2
      <4>4. Append(Of(c, T), x) \in Sub(Append(Of(m, T), x))
        BY <2>1, <2>3, <4>3, SubAppend
      <4> QED
        BY <2>4, <4>2, <4>3, <4>4
    <3> QED
      BY <3>1, <3>2, <3>3
  <2>6. Kept(first(n + 1))
    BY <2>1, <2>5
  <2> QED
    BY <2>6
<1>3. Len(list) \in U
  <2>1. IsPrefixes(U, list)
    BY <1>1, <1>2 DEF IsPrefixes
  <2> HIDE DEF U
  <2> QED
    BY <2>1, AllPrefixes
<1>4. first(Len(list)) = list
  BY SubSeqFull
<1>5. Kept(list)
  BY <1>3, <1>4
<1> QED
  BY <1>5
=============================================================================
