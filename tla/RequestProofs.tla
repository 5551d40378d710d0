--------------------------- MODULE RequestProofs ---------------------------
(***************************************************************************)
(* What holds of a request, and of what the adapters do around it, for any *)
(* requests, settings, configurations and limits.  Each of the four        *)
(* programs is proved about on its own.                                    *)
(***************************************************************************)
EXTENDS MCRequest, SequenceLemmas

-----------------------------------------------------------------------------
\* Texts.  Which block a line is in is told by the lines before it.
Bracket(line) == line.kind \in {"open", "sect"}

LEMMA StartFacts ==
    ASSUME NEW t, NEW i \in Nat
    PROVE  \/ BlockStart(t, i) = 0 /\ \A k \in 1..i : ~Bracket(t[k])
           \/ /\ BlockStart(t, i) \in 1..i /\ Bracket(t[BlockStart(t, i)])
              /\ \A k \in 1..i : Bracket(t[k]) => k <= BlockStart(t, i)
<1> DEFINE B == Brackets(t, i)
<1>1. B \subseteq 1..i /\ \A k \in 1..i : k \in B <=> Bracket(t[k])
  BY DEF Brackets, Bracket
<1>2. BlockStart(t, i) = IF B = {} THEN 0 ELSE Max(B)
  BY DEF BlockStart
<1> HIDE DEF B
<1>3. CASE B = {}
  BY <1>1, <1>2, <1>3
<1>4. CASE B # {}
  <2>1. Max(B) \in B /\ \A m \in B : m <= Max(B)
    BY <1>1, <1>4, Greatest
  <2> QED
    BY <1>1, <1>2, <1>4, <2>1
<1> QED
  BY <1>3, <1>4

LEMMA StartNone ==
    ASSUME NEW t, NEW i \in Nat, \A k \in 1..i : ~Bracket(t[k]) PROVE BlockStart(t, i) = 0
BY StartFacts

LEMMA StartIs ==
    ASSUME NEW t, NEW i \in Nat, NEW j \in 1..i, Bracket(t[j]),
           \A k \in 1..i : Bracket(t[k]) => k <= j
    PROVE  BlockStart(t, i) = j
<1>1. BlockStart(t, i) \in 1..i /\ Bracket(t[BlockStart(t, i)]) /\ j <= BlockStart(t, i)
  BY StartFacts
<1> QED
  BY <1>1

\* A text that is put behind another leaves its blocks alone, and the last of them
\* is open for the lines that come before its own brackets.
LEMMA StartBefore ==
    ASSUME NEW S, NEW a \in Seq(S), NEW b \in Seq(S), NEW i \in 0..Len(a)
    PROVE  BlockStart(a \o b, i) = BlockStart(a, i)
<1>1. \A k \in 1..i : (a \o b)[k] = a[k]
  OBVIOUS
<1>2. Brackets(a \o b, i) = Brackets(a, i)
  BY <1>1 DEF Brackets
<1> QED
  BY <1>2 DEF BlockStart

LEMMA StartBehind ==
    ASSUME NEW S, NEW a \in Seq(S), NEW b \in Seq(S), NEW i \in 1..Len(b)
    PROVE  BlockStart(a \o b, Len(a) + i) =
             IF BlockStart(b, i) = 0 THEN BlockStart(a, Len(a)) ELSE Len(a) + BlockStart(b, i)
<1> DEFINE t == a \o b
           n == Len(a)
<1>1. n \in Nat /\ i \in Nat /\ n + i \in Nat
  OBVIOUS
<1>2. \A k \in 1..n : t[k] = a[k]
  OBVIOUS
<1>3. \A k \in 1..i : t[n + k] = b[k]
  OBVIOUS
<1>4. \A k \in 1..(n + i) : k \in 1..n \/ (k - n \in 1..i /\ k = n + (k - n))
  BY <1>1
<1> HIDE DEF t, n
<1>5. CASE BlockStart(b, i) = 0
  <2>1. \A k \in 1..i : ~Bracket(b[k])
    BY <1>1, <1>5, StartFacts
  <2>2. \A k \in 1..(n + i) : Bracket(t[k]) => k \in 1..n /\ Bracket(a[k])
    BY <1>1, <1>2, <1>3, <1>4, <2>1
  <2>3. CASE BlockStart(a, n) = 0
    <3>1. \A k \in 1..n : ~Bracket(a[k])
      BY <1>1, <2>3, StartFacts
    <3> QED
      BY <1>1, <1>5, <2>2, <2>3, <3>1, StartNone DEF t, n
  <2>4. CASE BlockStart(a, n) # 0
    <3>1. BlockStart(a, n) \in 1..n /\ Bracket(a[BlockStart(a, n)])
          /\ \A k \in 1..n : Bracket(a[k]) => k <= BlockStart(a, n)
      BY <1>1, <2>4, StartFacts
    <3>2. BlockStart(a, n) \in 1..(n + i) /\ Bracket(t[BlockStart(a, n)])
      BY <1>1, <1>2, <3>1
    <3>3. \A k \in 1..(n + i) : Bracket(t[k]) => k <= BlockStart(a, n)
      BY <2>2, <3>1
    <3>4. BlockStart(t, n + i) = BlockStart(a, n)
      BY <1>1, <3>2, <3>3, StartIs
    <3> QED
      BY <1>5, <3>4 DEF t, n
  <2> QED
    BY <2>3, <2>4
<1>6. CASE BlockStart(b, i) # 0
  <2>1. BlockStart(b, i) \in 1..i /\ Bracket(b[BlockStart(b, i)])
        /\ \A k \in 1..i : Bracket(b[k]) => k <= BlockStart(b, i)
    BY <1>1, <1>6, StartFacts
  <2>2. n + BlockStart(b, i) \in 1..(n + i) /\ Bracket(t[n + BlockStart(b, i)])
    BY <1>1, <1>3, <2>1
  <2>3. ASSUME NEW k \in 1..(n + i), Bracket(t[k]) PROVE k <= n + BlockStart(b, i)
    <3>1. CASE k \in 1..n
      BY <1>1, <2>1, <3>1
    <3>2. CASE k - n \in 1..i /\ k = n + (k - n)
      <4>1. Bracket(b[k - n])
        BY <1>3, <2>3, <3>2
      <4>2. k - n <= BlockStart(b, i)
        BY <2>1, <3>2, <4>1
      <4> QED
        BY <1>1, <2>1, <4>2
    <3> QED
      BY <1>4, <3>1, <3>2
  <2>4. BlockStart(t, n + i) = n + BlockStart(b, i)
    BY <1>1, <2>2, <2>3, StartIs
  <2> QED
    BY <1>6, <2>4 DEF t, n
<1> QED
  BY <1>5, <1>6

\* Is the last block of a text a table, which takes the lines that come next?
Open(t) == InBlock(t, Len(t))

\* What line i of a text includes.
Brings(t, i, inc) ==
    \/ t[i].kind \in {"ini", "yaml"} /\ ~InBlock(t, i) /\ inc = [how |-> t[i].kind, ref |-> t[i].ref]
    \/ /\ t[i].kind = "toml" /\ InBlock(t, i) /\ FirstOfTable(t, i)
       /\ inc = [how |-> "table", ref |-> t[i].ref]

LEMMA IncludesIff ==
    ASSUME NEW t, NEW inc
    PROVE  inc \in Includes(t) <=> \E i \in DOMAIN t : Brings(t, i, inc)
BY DEF Includes, LineImports, TableImports, Brings

LEMMA FirstIff ==
    ASSUME NEW t, NEW i
    PROVE  FirstOfTable(t, i) <=>
             \A j \in DOMAIN t : t[j].kind = "toml" /\ InBlock(t, j) /\ BlockStart(t, j) = BlockStart(t, i)
                                   => i <= j
BY DEF FirstOfTable, BlockImports

\* The lines of the first text include what they did.
LEMMA BringsBefore ==
    ASSUME NEW S, NEW a \in Seq(S), NEW b \in Seq(S), NEW i \in 1..Len(a), NEW inc
    PROVE  Brings(a \o b, i, inc) <=> Brings(a, i, inc)
<1> DEFINE t == a \o b
<1>1. /\ DOMAIN t = 1..(Len(a) + Len(b)) /\ DOMAIN a = 1..Len(a) /\ Len(a) \in Nat /\ Len(b) \in Nat
      /\ \A j \in 1..Len(a) : t[j] = a[j]
  BY ConcatAt
<1>2. \A j \in 1..Len(a) : BlockStart(t, j) = BlockStart(a, j)
  BY StartBefore
<1> HIDE DEF t
<1>3. \A j \in 1..Len(a) : BlockStart(a, j) # 0 => BlockStart(a, j) \in 1..Len(a)
  <2> TAKE j \in 1..Len(a)
  <2>1. j \in Nat /\ j <= Len(a)
    BY <1>1
  <2>2. BlockStart(a, j) = 0 \/ BlockStart(a, j) \in 1..j
    BY <2>1, StartFacts
  <2> QED
    BY <1>1, <2>1, <2>2
<1>4. \A j \in 1..Len(a) : InBlock(t, j) <=> InBlock(a, j)
  BY <1>1, <1>2, <1>3 DEF InBlock
<1>5. FirstOfTable(t, i) <=> FirstOfTable(a, i)
  <2>1. ASSUME FirstOfTable(t, i) PROVE FirstOfTable(a, i)
    BY <1>1, <1>2, <1>4, <2>1, FirstIff
  <2>2. ASSUME FirstOfTable(a, i) PROVE FirstOfTable(t, i)
    <3>1. ASSUME NEW j \in DOMAIN t, t[j].kind = "toml", InBlock(t, j), BlockStart(t, j) = BlockStart(t, i)
          PROVE  i <= j
      <4>1. CASE j \in 1..Len(a)
        BY <1>1, <1>2, <1>4, <2>2, <3>1, <4>1, FirstIff
      <4>2. CASE j \notin 1..Len(a)
        BY <1>1, <3>1, <4>2
      <4> QED
        BY <4>1, <4>2
    <3> QED
      BY <3>1, FirstIff
  <2> QED
    BY <2>1, <2>2
<1>6. t[i] = a[i] /\ (InBlock(t, i) <=> InBlock(a, i))
  BY <1>1, <1>4
<1> QED
  BY <1>5, <1>6 DEF Brings, t

\* The lines of a text which stands on its own include what they do by themselves.
LEMMA BringsBehind ==
    ASSUME NEW S, NEW a \in Seq(S), NEW b \in Seq(S), OnItsOwn(b), NEW i \in 1..Len(b), NEW inc
    PROVE  Brings(a \o b, Len(a) + i, inc) <=> Brings(b, i, inc)
<1> DEFINE t == a \o b
           n == Len(a)
<1>1. /\ DOMAIN t = 1..(n + Len(b)) /\ DOMAIN b = 1..Len(b) /\ n \in Nat /\ Len(b) \in Nat
      /\ \A j \in 1..Len(b) : t[n + j] = b[j]
      /\ \A j \in 1..(n + Len(b)) : j \in 1..n \/ (j - n \in 1..Len(b) /\ j = n + (j - n))
  BY ConcatAt
<1>2. \A j \in 1..Len(b) : BlockStart(t, n + j) =
         IF BlockStart(b, j) = 0 THEN BlockStart(a, n) ELSE n + BlockStart(b, j)
  BY StartBehind
<1>3. \A j \in 1..n : BlockStart(t, j) = BlockStart(a, j)
  BY <1>1, StartBefore
<1> HIDE DEF t, n
<1>4. \A j \in 1..Len(b) : BlockStart(b, j) = 0 \/ BlockStart(b, j) \in 1..Len(b)
  <2> TAKE j \in 1..Len(b)
  <2>1. BlockStart(b, j) = 0 \/ BlockStart(b, j) \in 1..j
    BY <1>1, StartFacts
  <2> QED
    BY <1>1, <2>1
<1>5. \A j \in 0..n : BlockStart(a, j) \in 0..n
  <2> TAKE j \in 0..n
  <2>1. BlockStart(a, j) = 0 \/ BlockStart(a, j) \in 1..j
    BY <1>1, StartFacts
  <2> QED
    BY <1>1, <2>1
<1>6. \A j \in 1..Len(b) : BlockStart(b, j) # 0 => (InBlock(t, n + j) <=> InBlock(b, j))
  <2> SUFFICES ASSUME NEW j \in 1..Len(b), BlockStart(b, j) # 0
               PROVE  InBlock(t, n + j) <=> InBlock(b, j)
    OBVIOUS
  <2>1. BlockStart(t, n + j) = n + BlockStart(b, j) /\ BlockStart(b, j) \in 1..Len(b)
    BY <1>2, <1>4
  <2>2. t[n + BlockStart(b, j)] = b[BlockStart(b, j)] /\ n + BlockStart(b, j) # 0
    BY <1>1, <2>1
  <2> QED
    BY <2>1, <2>2 DEF InBlock
<1>7. \A j \in 1..Len(b) : b[j].kind \in {"ini", "yaml", "toml"} => BlockStart(b, j) # 0
  BY <1>1 DEF OnItsOwn
<1>8. t[n + i] = b[i]
  BY <1>1
<1>9. SUFFICES ASSUME b[i].kind \in {"ini", "yaml", "toml"}
               PROVE  Brings(t, n + i, inc) <=> Brings(b, i, inc)
  BY <1>8 DEF Brings, t, n
<1>10. BlockStart(b, i) # 0 /\ BlockStart(b, i) \in 1..Len(b)
  BY <1>4, <1>7, <1>9
<1>11. BlockStart(t, n + i) = n + BlockStart(b, i) /\ (InBlock(t, n + i) <=> InBlock(b, i))
  BY <1>2, <1>6, <1>10
<1>12. ASSUME FirstOfTable(t, n + i) PROVE FirstOfTable(b, i)
  <2>1. ASSUME NEW j \in DOMAIN b, b[j].kind = "toml", InBlock(b, j), BlockStart(b, j) = BlockStart(b, i)
        PROVE  i <= j
    <3>1. n + j \in DOMAIN t /\ t[n + j].kind = "toml"
      BY <1>1, <2>1
    <3>2. BlockStart(t, n + j) = BlockStart(t, n + i) /\ InBlock(t, n + j)
      BY <1>1, <1>2, <1>6, <1>10, <1>11, <2>1
    <3>3. n + i <= n + j
      BY <1>12, <3>1, <3>2, FirstIff
    <3> QED
      BY <1>1, <3>3
  <2> QED
    BY <2>1, FirstIff
<1>13. ASSUME FirstOfTable(b, i) PROVE FirstOfTable(t, n + i)
  <2>1. ASSUME NEW j \in DOMAIN t, t[j].kind = "toml", InBlock(t, j), BlockStart(t, j) = BlockStart(t, n + i)
        PROVE  n + i <= j
    <3>1. CASE j \in 1..n
      <4>1. BlockStart(t, j) \in 0..n
        BY <1>1, <1>3, <1>5, <3>1
      <4> QED
        BY <1>1, <1>10, <1>11, <2>1, <4>1
    <3>2. CASE j - n \in 1..Len(b) /\ j = n + (j - n)
      <4> DEFINE k == j - n
      <4>1. k \in 1..Len(b) /\ j = n + k /\ b[k].kind = "toml"
        BY <1>1, <2>1, <3>2
      <4> HIDE DEF k
      <4>2. BlockStart(b, k) # 0
        BY <1>7, <4>1
      <4>3. BlockStart(b, k) = BlockStart(b, i) /\ InBlock(b, k)
        <5>1. BlockStart(t, n + k) = n + BlockStart(b, k) /\ BlockStart(b, k) \in 1..Len(b)
          BY <1>2, <1>4, <4>1, <4>2
        <5>2. BlockStart(t, n + k) = n + BlockStart(b, i)
          BY <1>11, <2>1, <4>1
        <5>3. InBlock(t, n + k)
          BY <2>1, <4>1
        <5> QED
          BY <1>1, <1>6, <1>10, <4>1, <4>2, <5>1, <5>2, <5>3
      <4>4. i <= k
        BY <1>1, <1>13, <4>1, <4>3, FirstIff
      <4> QED
        BY <1>1, <4>1, <4>4
    <3> QED
      BY <1>1, <2>1, <3>1, <3>2
  <2> QED
    BY <2>1, FirstIff
<1> QED
  BY <1>8, <1>11, <1>12, <1>13 DEF Brings

\* What texts include that are put one behind the other.
LEMMA IncludesOnItsOwn ==
    ASSUME NEW S, NEW a \in Seq(S), NEW b \in Seq(S), OnItsOwn(b)
    PROVE  Includes(a \o b) = Includes(a) \cup Includes(b)
<1> SUFFICES ASSUME NEW inc
             PROVE  inc \in Includes(a \o b) <=> inc \in Includes(a) \/ inc \in Includes(b)
  OBVIOUS
<1>1. ASSUME NEW i \in DOMAIN (a \o b), Brings(a \o b, i, inc)
      PROVE  inc \in Includes(a) \/ inc \in Includes(b)
  <2>1. CASE i \in 1..Len(a)
    BY <1>1, <2>1, ConcatAt, BringsBefore, IncludesIff
  <2>2. CASE i - Len(a) \in 1..Len(b) /\ i = Len(a) + (i - Len(a))
    <3>1. Brings(b, i - Len(a), inc)
      BY <1>1, <2>2, BringsBehind
    <3> QED
      BY <2>2, <3>1, ConcatAt, IncludesIff
  <2> QED
    BY <2>1, <2>2, ConcatAt
<1>2. ASSUME NEW i \in DOMAIN a, Brings(a, i, inc) PROVE inc \in Includes(a \o b)
  <2>1. Brings(a \o b, i, inc) /\ i \in DOMAIN (a \o b)
    BY <1>2, ConcatAt, BringsBefore
  <2> QED
    BY <2>1, IncludesIff
<1>3. ASSUME NEW i \in DOMAIN b, Brings(b, i, inc) PROVE inc \in Includes(a \o b)
  <2>1. i \in 1..Len(b)
    BY ConcatAt
  <2>2. Brings(a \o b, Len(a) + i, inc)
    BY <1>3, <2>1, BringsBehind
  <2>3. Len(a) + i \in DOMAIN (a \o b)
    BY <2>1, ConcatAt
  <2> QED
    BY <2>2, <2>3, IncludesIff
<1> QED
  BY <1>1, <1>2, <1>3, IncludesIff

\* Lines without a bracket go to the last block of the text before them.
LineBrings(line, inc) ==
    line.kind \in {"ini", "yaml"} /\ inc = [how |-> line.kind, ref |-> line.ref]

LEMMA IncludesPlain ==
    ASSUME NEW S, NEW a \in Seq(S), NEW b \in Seq(S),
           \A i \in DOMAIN b : ~Bracket(b[i]),
           Open(a) => \A i \in DOMAIN b : b[i].kind # "toml"
    PROVE  /\ \A inc : inc \in Includes(a \o b) <=>
                 inc \in Includes(a) \/ (~Open(a) /\ \E i \in DOMAIN b : LineBrings(b[i], inc))
           /\ Open(a \o b) <=> Open(a)
<1> DEFINE t == a \o b
           n == Len(a)
<1>1. /\ DOMAIN t = 1..(n + Len(b)) /\ DOMAIN b = 1..Len(b) /\ DOMAIN a = 1..n
      /\ n \in Nat /\ Len(b) \in Nat /\ Len(t) = n + Len(b)
      /\ \A j \in 1..n : t[j] = a[j]
      /\ \A j \in 1..Len(b) : t[n + j] = b[j]
      /\ \A j \in 1..(n + Len(b)) : j \in 1..n \/ (j - n \in 1..Len(b) /\ j = n + (j - n))
  BY ConcatAt
<1>2. \A j \in 1..Len(b) : BlockStart(t, n + j) = BlockStart(a, n)
  <2> TAKE j \in 1..Len(b)
  <2>1. \A k \in 1..j : ~Bracket(b[k])
    BY <1>1
  <2>2. BlockStart(b, j) = 0
    BY <1>1, <2>1, StartNone
  <2> QED
    BY <2>2, StartBehind
<1>3. BlockStart(t, n) = BlockStart(a, n)
  BY <1>1, StartBefore
<1>4. \A i \in 1..n : \A inc : Brings(t, i, inc) <=> Brings(a, i, inc)
  BY <1>1, BringsBefore
<1> HIDE DEF t, n
<1>5. BlockStart(a, n) = 0 \/ (BlockStart(a, n) \in 1..n /\ t[BlockStart(a, n)] = a[BlockStart(a, n)])
  BY <1>1, StartFacts
<1>6. InBlock(a, n) <=> Open(a)
  BY DEF Open, n
<1>7. \A j \in 1..Len(b) : InBlock(t, n + j) <=> Open(a)
  BY <1>2, <1>5, <1>6 DEF InBlock
<1>8. Open(t) <=> Open(a)
  <2>1. CASE Len(b) = 0
    <3>1. InBlock(t, n) <=> InBlock(a, n)
      BY <1>3, <1>5 DEF InBlock
    <3> QED
      BY <1>1, <1>6, <2>1, <3>1 DEF Open
  <2>2. CASE Len(b) # 0
    BY <1>1, <1>7, <2>2 DEF Open
  <2> QED
    BY <2>1, <2>2
<1>9. \A i \in 1..Len(b) : \A inc : Brings(t, n + i, inc) <=> ~Open(a) /\ LineBrings(b[i], inc)
  <2> TAKE i \in 1..Len(b)
  <2> TAKE inc
  <2>1. t[n + i] = b[i] /\ (InBlock(t, n + i) <=> Open(a)) /\ (Open(a) => b[i].kind # "toml")
    BY <1>1, <1>7
  <2> QED
    BY <2>1 DEF Brings, LineBrings
<1>10. ASSUME NEW inc
       PROVE  inc \in Includes(t) <=>
                 inc \in Includes(a) \/ (~Open(a) /\ \E i \in DOMAIN b : LineBrings(b[i], inc))
  <2>1. inc \in Includes(t) <=> \E i \in 1..(n + Len(b)) : Brings(t, i, inc)
    BY <1>1, IncludesIff
  <2>2. inc \in Includes(a) <=> \E i \in 1..n : Brings(a, i, inc)
    BY <1>1, IncludesIff
  <2>3. \A i \in 1..n : i \in 1..(n + Len(b))
    BY <1>1
  <2>4. \A i \in 1..Len(b) : n + i \in 1..(n + Len(b))
    BY <1>1
  <2>5. ASSUME NEW i \in 1..(n + Len(b)), Brings(t, i, inc)
        PROVE  inc \in Includes(a) \/ (~Open(a) /\ \E j \in DOMAIN b : LineBrings(b[j], inc))
    <3>1. CASE i \in 1..n
      BY <1>4, <2>2, <2>5, <3>1
    <3>2. CASE i - n \in 1..Len(b) /\ i = n + (i - n)
      BY <1>1, <1>9, <2>5, <3>2
    <3> QED
      BY <1>1, <3>1, <3>2
  <2>6. ASSUME inc \in Includes(a) PROVE inc \in Includes(t)
    BY <1>4, <2>1, <2>2, <2>3, <2>6
  <2>7. ASSUME ~Open(a), NEW j \in DOMAIN b, LineBrings(b[j], inc) PROVE inc \in Includes(t)
    <3>1. j \in 1..Len(b)
      BY <1>1
    <3>2. Brings(t, n + j, inc)
      BY <1>9, <2>7, <3>1
    <3> QED
      BY <2>1, <2>4, <3>1, <3>2
  <2> QED
    BY <2>1, <2>5, <2>6, <2>7
<1> QED
  BY <1>8, <1>10 DEF t

\* The lines that an imported list makes of its own.
LEMMA LineKinds ==
    ASSUME NEW line \in Line
    PROVE  /\ line.kind \in {"text", "skip", "open", "sect", "bare", "ini", "yaml", "toml", "head"}
           /\ line.kind \in {"bare", "ini", "yaml", "toml"} => line.ref \in References \cup TableFiles
           /\ line.kind \in {"bare", "ini", "yaml"} => line.ref \in References
           /\ line.kind = "toml" => line.ref \in TableFiles
BY DEF Line, Plain, Importing, Heading

LEMMA IniLineKinds ==
    ASSUME NEW line \in Line
    PROVE  /\ IniLine(line) \in Line /\ IniLine(line).kind \in {"ini", "text"}
           /\ \A inc : LineBrings(IniLine(line), inc) <=>
                          line.kind = "bare" /\ inc = [how |-> "ini", ref |-> line.ref]
<1>1. CASE line.kind = "bare"
  <2>1. IniLine(line) = Importing("ini", line.ref) /\ line.ref \in References
    BY <1>1, LineKinds DEF IniLine
  <2> QED
    BY <1>1, <2>1 DEF Importing, Line, LineBrings
<1>2. CASE line.kind # "bare"
  BY <1>2 DEF IniLine, Plain, Line, LineBrings
<1> QED
  BY <1>1, <1>2

LEMMA IniLinesBring ==
    ASSUME NEW file \in Seq(Line)
    PROVE  /\ IniLines(file) \in Seq(Line)
           /\ \A i \in DOMAIN IniLines(file) : IniLines(file)[i].kind \in {"ini", "text"}
           /\ \A inc : (\E i \in DOMAIN IniLines(file) : LineBrings(IniLines(file)[i], inc)) <=>
                 \E i \in DOMAIN file : file[i].kind = "bare" /\ inc = [how |-> "ini", ref |-> file[i].ref]
<1> DEFINE ss == [i \in DOMAIN file |-> IF file[i].kind = "skip" THEN <<>> ELSE <<IniLine(file[i])>>]
<1>1. IniLines(file) = FlattenSeq(ss)
  BY DEF IniLines
<1>2. \A i \in DOMAIN file : file[i] \in Line
  OBVIOUS
<1>3. \A i \in DOMAIN file : ss[i] \in Seq(Line)
  BY <1>2, IniLineKinds
<1>4. ss \in Seq(Seq(Line)) /\ DOMAIN ss = DOMAIN file
  <2>1. DOMAIN file = 1..Len(file) /\ Len(file) \in Nat
    OBVIOUS
  <2> DEFINE SS == Seq(Line)
  <2>2. \A i \in 1..Len(file) : ss[i] \in SS
    BY <1>3, <2>1
  <2>3. ss = [i \in 1..Len(file) |-> ss[i]]
    BY <2>1
  <2> HIDE DEF SS, ss
  <2>4. ss \in Seq(SS)
    BY <2>1, <2>2, <2>3
  <2> QED
    BY <2>1, <2>3, <2>4 DEF SS
<1>5. IniLines(file) \in Seq(Line)
  BY <1>1, <1>4, FlattenType
<1>6. \A i \in DOMAIN file : \A x : x \in Range(ss[i]) <=> file[i].kind # "skip" /\ x = IniLine(file[i])
  BY DEF Range
<1>7. \A x : x \in Range(IniLines(file)) <=>
               \E i \in DOMAIN file : file[i].kind # "skip" /\ x = IniLine(file[i])
  <2> HIDE DEF ss
  <2> QED
    BY <1>1, <1>4, <1>6, FlattenRange
<1>8. \A i \in DOMAIN IniLines(file) : IniLines(file)[i].kind \in {"ini", "text"}
  <2> TAKE i \in DOMAIN IniLines(file)
  <2>1. IniLines(file)[i] \in Range(IniLines(file))
    BY DEF Range
  <2> QED
    BY <1>2, <1>7, <2>1, IniLineKinds
<1>9. ASSUME NEW inc
      PROVE  (\E i \in DOMAIN IniLines(file) : LineBrings(IniLines(file)[i], inc)) <=>
               \E i \in DOMAIN file : file[i].kind = "bare" /\ inc = [how |-> "ini", ref |-> file[i].ref]
  <2>1. (\E i \in DOMAIN IniLines(file) : LineBrings(IniLines(file)[i], inc)) <=>
           \E x \in Range(IniLines(file)) : LineBrings(x, inc)
    BY DEF Range
  <2>2. (\E x \in Range(IniLines(file)) : LineBrings(x, inc)) <=>
           \E i \in DOMAIN file : file[i].kind # "skip" /\ LineBrings(IniLine(file[i]), inc)
    BY <1>7
  <2> QED
    BY <1>2, <2>1, <2>2, IniLineKinds
<1> QED
  BY <1>5, <1>8, <1>9

LEMMA YamlLinesBring ==
    ASSUME NEW file \in Seq(Line), NEW context
    PROVE  /\ YamlLines(context, file) \in Seq(Line)
           /\ \A i \in DOMAIN YamlLines(context, file) : YamlLines(context, file)[i].kind = "text"
<1> DEFINE Quoted(l) == IF context = "unknown" THEN l.kind # "skip" ELSE l.kind = "text"
           ss == [i \in DOMAIN file |-> IF Quoted(file[i]) THEN <<Plain("text")>> ELSE <<>>]
<1>1. YamlLines(context, file) = FlattenSeq(ss)
  BY DEF YamlLines
<1>2. Plain("text") \in Line /\ Plain("text").kind = "text"
  BY DEF Line, Plain
<1>3. \A i \in DOMAIN file : ss[i] = <<>> \/ ss[i] = <<Plain("text")>>
  OBVIOUS
<1>4. ss \in Seq(Seq(Line)) /\ DOMAIN ss = DOMAIN file
  <2>1. DOMAIN file = 1..Len(file) /\ Len(file) \in Nat
    OBVIOUS
  <2> DEFINE SS == Seq(Line)
  <2>2. \A i \in 1..Len(file) : ss[i] \in SS
    BY <1>2, <1>3, <2>1
  <2>3. ss = [i \in 1..Len(file) |-> ss[i]]
    BY <2>1
  <2> HIDE DEF SS, ss
  <2>4. ss \in Seq(SS)
    BY <2>1, <2>2, <2>3
  <2> QED
    BY <2>1, <2>3, <2>4 DEF SS
<1> HIDE DEF ss
<1>5. FlattenSeq(ss) \in Seq(Line)
  BY <1>4, FlattenType
<1>6. \A i \in DOMAIN file : Range(ss[i]) \subseteq {Plain("text")}
  BY <1>3 DEF Range
<1>7. \A i \in DOMAIN FlattenSeq(ss) : FlattenSeq(ss)[i] = Plain("text")
  <2> TAKE i \in DOMAIN FlattenSeq(ss)
  <2>1. FlattenSeq(ss)[i] \in Range(FlattenSeq(ss))
    BY DEF Range
  <2>2. \E k \in DOMAIN ss : FlattenSeq(ss)[i] \in Range(ss[k])
    BY <1>4, <2>1, FlattenRange
  <2> QED
    BY <1>4, <1>6, <2>2
<1> QED
  BY <1>1, <1>2, <1>5, <1>7

\* A bracket begins a block, and any other line goes on with the one it is in.
LEMMA StartNext ==
    ASSUME NEW t, NEW i \in Nat
    PROVE  /\ Bracket(t[i + 1]) => BlockStart(t, i + 1) = i + 1
           /\ ~Bracket(t[i + 1]) => BlockStart(t, i + 1) = BlockStart(t, i)
<1>1. i + 1 \in Nat /\ i + 1 \in 1..(i + 1) /\ \A k \in 1..(i + 1) : k \in 1..i \/ k = i + 1
  OBVIOUS
<1>2. ASSUME Bracket(t[i + 1]) PROVE BlockStart(t, i + 1) = i + 1
  <2>1. \A k \in 1..(i + 1) : k <= i + 1
    OBVIOUS
  <2> QED
    BY <1>1, <1>2, <2>1, StartIs
<1>3. ASSUME ~Bracket(t[i + 1]) PROVE BlockStart(t, i + 1) = BlockStart(t, i)
  <2>1. \A k \in 1..i : k \in 1..(i + 1)
    OBVIOUS
  <2>2. Brackets(t, i + 1) = Brackets(t, i)
    BY <1>1, <1>3, <2>1 DEF Brackets, Bracket
  <2> QED
    BY <2>2 DEF BlockStart
<1> QED
  BY <1>2, <1>3

\* Of a block, its first line tells whether it is a table.
LEMMA InBlockNext ==
    ASSUME NEW t, NEW i \in Nat
    PROVE  /\ Bracket(t[i + 1]) => (InBlock(t, i + 1) <=> t[i + 1].kind = "open")
           /\ ~Bracket(t[i + 1]) => (InBlock(t, i + 1) <=> InBlock(t, i))
           /\ InBlock(t, i + 1) /\ t[i + 1].kind = "open" => BlockStart(t, i + 1) = i + 1
BY StartNext DEF InBlock, Bracket

LEMMA OpenEmpty == ~Open(<<>>) /\ Includes(<<>>) = {}
<1>1. BlockStart(<<>>, 0) = 0
  BY StartNone
<1> QED
  BY <1>1, IncludesIff DEF Open, InBlock

LEMMA AppendBracket ==
    ASSUME NEW S, NEW out \in Seq(S), NEW line \in S, Bracket(line)
    PROVE  Includes(Append(out, line)) = Includes(out) /\ (Open(Append(out, line)) <=> line.kind = "open")
<1>1. <<line>> \in Seq(S) /\ Append(out, line) = out \o <<line>>
  OBVIOUS
<1>2. OnItsOwn(<<line>>)
  BY DEF OnItsOwn, Bracket
<1>3. Includes(<<line>>) = {}
  BY IncludesIff DEF Brings, Bracket
<1>4. Includes(out \o <<line>>) = Includes(out) \cup Includes(<<line>>)
  BY <1>1, <1>2, IncludesOnItsOwn, SMTT(30)
<1> DEFINE t == Append(out, line)
<1>5. Len(t) = Len(out) + 1 /\ t[Len(out) + 1] = line /\ Len(out) \in Nat
  OBVIOUS
<1>6. Includes(t) = Includes(out)
  BY <1>1, <1>3, <1>4
<1> HIDE DEF t
<1>7. Open(t) <=> line.kind = "open"
  BY <1>5, InBlockNext DEF Open
<1> QED
  BY <1>6, <1>7 DEF t

LEMMA AppendLine ==
    ASSUME NEW S, NEW out \in Seq(S), NEW line \in S, ~Bracket(line),
           line.kind = "toml" => ~Open(out), line.kind \in {"ini", "yaml"} => Open(out)
    PROVE  Includes(Append(out, line)) = Includes(out) /\ (Open(Append(out, line)) <=> Open(out))
<1>1. <<line>> \in Seq(S) /\ Append(out, line) = out \o <<line>> /\ DOMAIN <<line>> = {1} /\ <<line>>[1] = line
  OBVIOUS
<1>2. /\ \A inc : inc \in Includes(out \o <<line>>) <=>
             inc \in Includes(out) \/ (~Open(out) /\ \E i \in DOMAIN <<line>> : LineBrings(<<line>>[i], inc))
      /\ Open(out \o <<line>>) <=> Open(out)
  <2>1. \A i \in DOMAIN <<line>> : ~Bracket(<<line>>[i])
    BY <1>1
  <2>2. Open(out) => \A i \in DOMAIN <<line>> : <<line>>[i].kind # "toml"
    BY <1>1
  <2> QED
    BY <1>1, <2>1, <2>2, IncludesPlain
<1>3. \A inc : LineBrings(line, inc) => Open(out)
  BY DEF LineBrings
<1> QED
  BY <1>1, <1>2, <1>3, ZenonT(60)

\* The lines of a text that an imported file can be found for.
Readable(t, lib) == t \in Seq(Line) /\ ImportFiles(lib) /\ ImportRefs(t) \subseteq DOMAIN lib

LEMMA ImportReadable ==
    ASSUME NEW t, NEW lib, Readable(t, lib), NEW i \in DOMAIN t,
           \/ t[i].kind \in {"ini", "yaml"} /\ ~InBlock(t, i)
           \/ t[i].kind = "toml" /\ InBlock(t, i)
    PROVE  /\ lib[t[i].ref] \in Seq(Line)
           /\ t[i].kind = "toml" => OnItsOwn(lib[t[i].ref])
<1>1. t[i].ref \in ImportRefs(t)
  BY DEF ImportRefs, LineImports, TableImports
<1>2. t[i] \in Line
  BY DEF Readable
<1> QED
  BY <1>1, <1>2, LineKinds DEF Readable, ImportFiles

\* The first import of a block, which the table gives way to.
LEMMA BlockImport ==
    ASSUME NEW t, NEW lib, Readable(t, lib), NEW i, BlockImports(t, i) # {}
    PROVE  LET j == Min(BlockImports(t, i)) IN
           /\ j \in DOMAIN t /\ t[j].kind = "toml" /\ InBlock(t, j) /\ BlockStart(t, j) = BlockStart(t, i)
           /\ FirstOfTable(t, j)
           /\ lib[t[j].ref] \in Seq(Line) /\ OnItsOwn(lib[t[j].ref])
<1> DEFINE j == Min(BlockImports(t, i))
<1>1. BlockImports(t, i) \subseteq Nat
  BY DEF BlockImports, Readable
<1>2. j \in BlockImports(t, i) /\ \A k \in BlockImports(t, i) : j <= k
  BY <1>1, Smallest
<1> HIDE DEF j
<1>3. j \in DOMAIN t /\ t[j].kind = "toml" /\ InBlock(t, j) /\ BlockStart(t, j) = BlockStart(t, i)
  BY <1>2 DEF BlockImports
<1>4. FirstOfTable(t, j)
  BY <1>2, <1>3 DEF FirstOfTable, BlockImports
<1>5. lib[t[j].ref] \in Seq(Line) /\ OnItsOwn(lib[t[j].ref])
  BY <1>3, ImportReadable
<1> QED
  BY <1>3, <1>4, <1>5 DEF j

LEMMA ExpandLineType ==
    ASSUME NEW t, NEW lib, Readable(t, lib), NEW i \in DOMAIN t, NEW out \in Seq(Line)
    PROVE  ExpandLine(t, lib, out, i) \in Seq(Line)
<1>1. t[i] \in Line /\ Append(out, t[i]) \in Seq(Line)
  BY DEF Readable
<1>2. CASE InBlock(t, i)
  <2>1. ExpandTable(t, lib, out, i) \in Seq(Line)
    <3>1. CASE BlockImports(t, i) = {}
      BY <1>1, <3>1 DEF ExpandTable
    <3>2. CASE BlockImports(t, i) # {} /\ t[i].kind = "open"
      <4>1. lib[t[Min(BlockImports(t, i))].ref] \in Seq(Line)
        BY <3>2, BlockImport
      <4>2. out \o lib[t[Min(BlockImports(t, i))].ref] \in Seq(Line)
        BY <4>1
      <4> QED
        BY <3>2, <4>2 DEF ExpandTable
    <3>3. CASE BlockImports(t, i) # {} /\ t[i].kind # "open"
      BY <3>3 DEF ExpandTable
    <3> QED
      BY <3>1, <3>2, <3>3
  <2> QED
    BY <1>2, <2>1 DEF ExpandLine
<1>3. CASE ~InBlock(t, i)
  <2>1. CASE t[i].kind = "ini"
    <3>1. IniLines(lib[t[i].ref]) \in Seq(Line)
      BY <1>3, <2>1, ImportReadable, IniLinesBring
    <3>2. out \o IniLines(lib[t[i].ref]) \in Seq(Line)
      BY <3>1
    <3> QED
      BY <1>3, <2>1, <3>2 DEF ExpandLine
  <2>2. CASE t[i].kind = "yaml"
    <3>1. YamlLines(YamlContext(out), lib[t[i].ref]) \in Seq(Line)
      BY <1>3, <2>2, ImportReadable, YamlLinesBring
    <3>2. out \o YamlLines(YamlContext(out), lib[t[i].ref]) \in Seq(Line)
      BY <3>1
    <3> QED
      BY <1>3, <2>2, <3>2 DEF ExpandLine
  <2>3. CASE t[i].kind # "ini" /\ t[i].kind # "yaml"
    BY <1>1, <1>3, <2>3 DEF ExpandLine
  <2> QED
    BY <2>1, <2>2, <2>3
<1> QED
  BY <1>2, <1>3

\* What has been put out after each line.
IsExpansion(f, t, lib) ==
    f = [i \in 0..Len(t) |-> IF i = 0 THEN <<>> ELSE ExpandLine(t, lib, f[i - 1], i)]

LEMMA ExpansionExists ==
    ASSUME NEW t, NEW lib, Readable(t, lib) PROVE \E f : IsExpansion(f, t, lib)
<1> DEFINE V == Seq(Line)
           n == Len(t)
           acts == [i \in 1..n |-> [out \in V |-> ExpandLine(t, lib, out, i)]]
<1>1. n \in Nat /\ DOMAIN t = 1..n /\ <<>> \in V
  BY DEF Readable
<1>2. \A i \in 1..n : \A out \in V : ExpandLine(t, lib, out, i) \in V
  BY <1>1, ExpandLineType
<1> HIDE DEF V, n
<1>3. acts \in [1..n -> [V -> V]] /\ \A i \in 1..n : \A out \in V : acts[i][out] = ExpandLine(t, lib, out, i)
  BY <1>2
<1> HIDE DEF acts
<1>4. PICK f : /\ f \in [0..n -> V] /\ f[0] = <<>>
               /\ \A i \in 1..n : f[i] = acts[i][f[i - 1]]
  <2>1. IsStep(acts, n, V)
    BY <1>3 DEF IsStep
  <2>2. \E f : IsCarried(f, n, V, <<>>, acts)
    BY <1>1, <2>1, Recursion
  <2> QED
    BY <2>2 DEF IsCarried
<1>5. \A i \in 0..n : f[i] = IF i = 0 THEN <<>> ELSE ExpandLine(t, lib, f[i - 1], i)
  <2> TAKE i \in 0..n
  <2>1. CASE i = 0
    BY <1>4, <2>1
  <2>2. CASE i # 0
    <3>1. i \in 1..n /\ i - 1 \in 0..n
      BY <1>1, <2>2
    <3> QED
      BY <1>3, <1>4, <2>2, <3>1
  <2> QED
    BY <2>1, <2>2
<1>6. f = [i \in 0..n |-> IF i = 0 THEN <<>> ELSE ExpandLine(t, lib, f[i - 1], i)]
  BY <1>4, <1>5
<1> QED
  BY <1>6 DEF IsExpansion, n

LEMMA Expansion ==
    ASSUME NEW t, NEW lib, Readable(t, lib)
    PROVE  \E f : /\ ExpandImports(t, lib) = f[Len(t)] /\ f[0] = <<>>
                  /\ \A i \in 0..Len(t) : f[i] \in Seq(Line)
                  /\ \A i \in 1..Len(t) : f[i] = ExpandLine(t, lib, f[i - 1], i)
<1> DEFINE f == CHOOSE g : IsExpansion(g, t, lib)
           n == Len(t)
<1>1. IsExpansion(f, t, lib)
  BY ExpansionExists
<1>2. ExpandImports(t, lib) = f[n]
  BY DEF ExpandImports, IsExpansion
<1>3. n \in Nat /\ DOMAIN t = 1..n
  BY DEF Readable
<1> HIDE DEF f, n
<1>4. f[0] = <<>> /\ \A i \in 1..n : f[i] = ExpandLine(t, lib, f[i - 1], i)
  <2>1. \A i \in 0..n : f[i] = IF i = 0 THEN <<>> ELSE ExpandLine(t, lib, f[i - 1], i)
    BY <1>1 DEF IsExpansion, n
  <2>2. 0 \in 0..n /\ \A i \in 1..n : i \in 0..n /\ i # 0
    BY <1>3
  <2> QED
    BY <2>1, <2>2
<1> DEFINE T == {i \in Nat : i <= n => f[i] \in Seq(Line)}
<1>5. 0 \in T
  <2>1. f[0] \in Seq(Line)
    BY <1>4
  <2> QED
    BY <2>1
<1>6. ASSUME NEW i \in Nat, i \in T PROVE i + 1 \in T
  <2>1. i + 1 <= n => i + 1 \in 1..n /\ i <= n /\ (i + 1) - 1 = i
    BY <1>3
  <2>2. i + 1 <= n => f[i + 1] = ExpandLine(t, lib, f[i], i + 1)
    BY <1>4, <2>1
  <2>3. i + 1 <= n => f[i] \in Seq(Line)
    BY <1>6, <2>1
  <2>4. i + 1 <= n => f[i + 1] \in Seq(Line)
    BY <1>3, <2>1, <2>2, <2>3, ExpandLineType
  <2> QED
    BY <2>4
<1>7. Nat \subseteq T
  <2> HIDE DEF T
  <2> QED
    BY <1>5, <1>6, NatSet
<1> QED
  BY <1>2, <1>3, <1>4, <1>7 DEF n

\* The line at which an import is replaced: for a table's, the table's first.
Place(t, j) == IF t[j].kind = "toml" THEN BlockStart(t, j) ELSE j

\* Line j of the text brings in a text which includes inc.
Passes(t, lib, j, inc) ==
    \E cause : Brings(t, j, cause) /\ inc \in IncludedBy(cause, lib)

\* What the expansion up to line i has to include.
Due(t, lib, i, inc) == \E j \in DOMAIN t : Place(t, j) <= i /\ Passes(t, lib, j, inc)

\* The expansion includes that, and its last block is open as the text's is, unless
\* that one is being replaced.
IsExpanded(t, lib, i, out) ==
    /\ out \in Seq(Line)
    /\ \A inc : inc \in Includes(out) <=> Due(t, lib, i, inc)
    /\ ~(InBlock(t, i) /\ BlockImports(t, i) # {}) => (Open(out) <=> InBlock(t, i))

LEMMA PlaceIs ==
    ASSUME NEW t \in Seq(Line), NEW j \in DOMAIN t, NEW cause, Brings(t, j, cause)
    PROVE  /\ Place(t, j) \in 1..Len(t)
           /\ \/ t[j].kind \in {"ini", "yaml"} /\ ~InBlock(t, j) /\ Place(t, j) = j
                 /\ cause = [how |-> t[j].kind, ref |-> t[j].ref]
              \/ t[j].kind = "toml" /\ InBlock(t, j) /\ Place(t, j) = BlockStart(t, j) /\ FirstOfTable(t, j)
                 /\ t[Place(t, j)].kind = "open" /\ cause = [how |-> "table", ref |-> t[j].ref]
<1>1. j \in 1..Len(t) /\ j \in Nat /\ Len(t) \in Nat /\ DOMAIN t = 1..Len(t)
  OBVIOUS
<1>2. BlockStart(t, j) = 0 \/ BlockStart(t, j) \in 1..j
  BY <1>1, StartFacts
<1> QED
  BY <1>1, <1>2 DEF Brings, Place, InBlock

\* At a line where nothing is replaced nothing more is due.
LEMMA DueUnchanged ==
    ASSUME NEW t \in Seq(Line), NEW lib, NEW i \in Nat,
           \A j \in DOMAIN t : \A cause : Brings(t, j, cause) => Place(t, j) # i + 1,
           NEW inc
    PROVE  Due(t, lib, i + 1, inc) <=> Due(t, lib, i, inc)
<1>1. \A j \in DOMAIN t : \A cause : Brings(t, j, cause) => (Place(t, j) <= i + 1 <=> Place(t, j) <= i)
  <2> TAKE j \in DOMAIN t
  <2> TAKE cause
  <2> HAVE Brings(t, j, cause)
  <2>1. Place(t, j) \in 1..Len(t) /\ Place(t, j) # i + 1
    BY PlaceIs
  <2>2. Place(t, j) \in Nat
    BY <2>1
  <2> QED
    BY <2>1, <2>2
<1> QED
  BY <1>1 DEF Due, Passes

\* At one where one import is replaced that one's inclusions are.
LEMMA DueMore ==
    ASSUME NEW t \in Seq(Line), NEW lib, NEW i \in Nat, NEW k \in DOMAIN t, NEW one,
           Brings(t, k, one), Place(t, k) = i + 1,
           \A j \in DOMAIN t : \A cause : Brings(t, j, cause) /\ Place(t, j) = i + 1 => cause = one,
           NEW inc
    PROVE  Due(t, lib, i + 1, inc) <=> Due(t, lib, i, inc) \/ inc \in IncludedBy(one, lib)
<1>1. \A j \in DOMAIN t : \A cause : Brings(t, j, cause) => Place(t, j) \in Nat
  <2> TAKE j \in DOMAIN t
  <2> TAKE cause
  <2> HAVE Brings(t, j, cause)
  <2>1. Place(t, j) \in 1..Len(t)
    BY PlaceIs
  <2> QED
    BY <2>1
<1>2. ASSUME Due(t, lib, i + 1, inc) PROVE Due(t, lib, i, inc) \/ inc \in IncludedBy(one, lib)
  <2>1. PICK j \in DOMAIN t : Place(t, j) <= i + 1 /\ Passes(t, lib, j, inc)
    BY <1>2 DEF Due
  <2>2. PICK cause : Brings(t, j, cause) /\ inc \in IncludedBy(cause, lib)
    BY <2>1 DEF Passes
  <2>3. CASE Place(t, j) = i + 1
    BY <2>2, <2>3
  <2>4. CASE Place(t, j) # i + 1
    <3>1. Place(t, j) <= i
      BY <1>1, <2>1, <2>2, <2>4
    <3> QED
      BY <2>1, <3>1 DEF Due
  <2> QED
    BY <2>3, <2>4
<1>3. ASSUME Due(t, lib, i, inc) PROVE Due(t, lib, i + 1, inc)
  <2>1. PICK j \in DOMAIN t : Place(t, j) <= i /\ Passes(t, lib, j, inc)
    BY <1>3 DEF Due
  <2>2. Place(t, j) <= i + 1
    BY <1>1, <2>1 DEF Passes
  <2> QED
    BY <2>1, <2>2 DEF Due
<1>4. ASSUME inc \in IncludedBy(one, lib) PROVE Due(t, lib, i + 1, inc)
  <2>1. Place(t, k) <= i + 1
    OBVIOUS
  <2>2. Passes(t, lib, k, inc)
    BY <1>4 DEF Passes
  <2> QED
    BY <2>1, <2>2 DEF Due
<1> QED
  BY <1>2, <1>3, <1>4

\* A line of a table without imports.
LEMMA ExpandTableLine ==
    ASSUME NEW t, NEW lib, Readable(t, lib), NEW i \in Nat, i + 1 \in DOMAIN t, NEW out,
           IsExpanded(t, lib, i, out), InBlock(t, i + 1), BlockImports(t, i + 1) = {}
    PROVE  IsExpanded(t, lib, i + 1, ExpandLine(t, lib, out, i + 1))
<1> DEFINE line == t[i + 1]
<1>1. t \in Seq(Line) /\ out \in Seq(Line) /\ line \in Line
  BY DEF Readable, IsExpanded
<1>2. ExpandLine(t, lib, out, i + 1) = Append(out, line)
  BY DEF ExpandLine, ExpandTable
<1>3. \A j \in DOMAIN t : \A cause : Brings(t, j, cause) => Place(t, j) # i + 1
  <2> SUFFICES ASSUME NEW j \in DOMAIN t, NEW cause, Brings(t, j, cause), Place(t, j) = i + 1 PROVE FALSE
    OBVIOUS
  <2>1. CASE t[j].kind \in {"ini", "yaml"}
    BY <1>1, <2>1, PlaceIs
  <2>2. CASE t[j].kind = "toml"
    <3>1. InBlock(t, j) /\ BlockStart(t, j) = i + 1 /\ t[i + 1].kind = "open"
      BY <1>1, <2>2, PlaceIs
    <3>2. BlockStart(t, i + 1) = i + 1
      BY <3>1, InBlockNext
    <3> QED
      BY <2>2, <3>1, <3>2 DEF BlockImports
  <2> QED
    BY <1>1, <2>1, <2>2, PlaceIs
<1>4. Includes(Append(out, line)) = Includes(out) /\ Open(Append(out, line))
  <2>1. CASE Bracket(line)
    <3>1. line.kind = "open"
      BY <2>1, InBlockNext
    <3> QED
      BY <1>1, <2>1, <3>1, AppendBracket
  <2>2. CASE ~Bracket(line)
    <3>1. InBlock(t, i) /\ BlockStart(t, i + 1) = BlockStart(t, i)
      BY <2>2, InBlockNext, StartNext
    <3>2. BlockImports(t, i) = {}
      BY <3>1 DEF BlockImports
    <3>3. Open(out)
      BY <3>1, <3>2 DEF IsExpanded
    <3>4. line.kind # "toml"
      BY DEF BlockImports
    <3> QED
      BY <1>1, <2>2, <3>3, <3>4, AppendLine
  <2> QED
    BY <2>1, <2>2
<1>5. Append(out, line) \in Seq(Line)
  BY <1>1
<1> HIDE DEF line
<1> QED
  BY <1>1, <1>2, <1>3, <1>4, <1>5, DueUnchanged DEF IsExpanded

\* A table with imports: its first line gives way to the file, the others to nothing.
LEMMA ExpandTableImport ==
    ASSUME NEW t, NEW lib, Readable(t, lib), NEW i \in Nat, i + 1 \in DOMAIN t, NEW out,
           IsExpanded(t, lib, i, out), InBlock(t, i + 1), BlockImports(t, i + 1) # {}
    PROVE  IsExpanded(t, lib, i + 1, ExpandLine(t, lib, out, i + 1))
<1> DEFINE k == Min(BlockImports(t, i + 1))
           file == lib[t[k].ref]
           one == [how |-> "table", ref |-> t[k].ref]
<1>1. t \in Seq(Line) /\ out \in Seq(Line)
  BY DEF Readable, IsExpanded
<1>2. CASE t[i + 1].kind = "open"
  <2>1. ExpandLine(t, lib, out, i + 1) = out \o file
    BY <1>2 DEF ExpandLine, ExpandTable
  <2>2. /\ k \in DOMAIN t /\ t[k].kind = "toml" /\ InBlock(t, k) /\ BlockStart(t, k) = BlockStart(t, i + 1)
        /\ FirstOfTable(t, k) /\ file \in Seq(Line) /\ OnItsOwn(file)
    BY BlockImport
  <2> HIDE DEF k
  <2>3. BlockStart(t, i + 1) = i + 1
    BY <1>2, InBlockNext
  <2>4. Brings(t, k, one) /\ Place(t, k) = i + 1
    BY <2>2, <2>3 DEF Brings, Place
  <2>5. \A j \in DOMAIN t : \A cause : Brings(t, j, cause) /\ Place(t, j) = i + 1 => cause = one
    <3> SUFFICES ASSUME NEW j \in DOMAIN t, NEW cause, Brings(t, j, cause), Place(t, j) = i + 1
                 PROVE  cause = one
      OBVIOUS
    <3>1. /\ t[j].kind = "toml" /\ InBlock(t, j) /\ BlockStart(t, j) = i + 1 /\ FirstOfTable(t, j)
          /\ cause = [how |-> "table", ref |-> t[j].ref]
      BY <1>1, <1>2, PlaceIs
    <3>2. j <= k /\ k <= j
      BY <2>2, <2>3, <3>1, FirstIff
    <3>3. j \in Nat /\ k \in Nat
      BY <1>1, <2>2
    <3>4. j = k
      BY <3>2, <3>3
    <3> QED
      BY <3>1, <3>4
  <2>6. Includes(out \o file) = Includes(out) \cup Includes(file) /\ out \o file \in Seq(Line)
    BY <1>1, <2>2, IncludesOnItsOwn
  <2>7. IncludedBy(one, lib) = Includes(file)
    BY DEF IncludedBy
  <2> HIDE DEF file, one
  <2>8. \A inc : Due(t, lib, i + 1, inc) <=> Due(t, lib, i, inc) \/ inc \in IncludedBy(one, lib)
    BY <1>1, <2>2, <2>4, <2>5, DueMore
  <2> QED
    BY <2>1, <2>6, <2>7, <2>8 DEF IsExpanded
<1>3. CASE t[i + 1].kind # "open"
  <2>1. ExpandLine(t, lib, out, i + 1) = out
    BY <1>3 DEF ExpandLine, ExpandTable
  <2>2. \A j \in DOMAIN t : \A cause : Brings(t, j, cause) => Place(t, j) # i + 1
    BY <1>1, <1>3, PlaceIs
  <2> QED
    BY <1>1, <2>1, <2>2, DueUnchanged DEF IsExpanded
<1> QED
  BY <1>2, <1>3

\* A line outside of tables.
LEMMA ExpandPlainLine ==
    ASSUME NEW t, NEW lib, Readable(t, lib), NEW i \in Nat, i + 1 \in DOMAIN t, NEW out,
           IsExpanded(t, lib, i, out), ~InBlock(t, i + 1)
    PROVE  IsExpanded(t, lib, i + 1, ExpandLine(t, lib, out, i + 1))
<1> DEFINE line == t[i + 1]
           new == ExpandLine(t, lib, out, i + 1)
<1>1. t \in Seq(Line) /\ out \in Seq(Line) /\ line \in Line
  BY DEF Readable, IsExpanded
<1>2. \A j \in DOMAIN t : \A cause : Brings(t, j, cause) /\ Place(t, j) = i + 1 =>
         j = i + 1 /\ line.kind \in {"ini", "yaml"} /\ cause = [how |-> line.kind, ref |-> line.ref]
  <2> SUFFICES ASSUME NEW j \in DOMAIN t, NEW cause, Brings(t, j, cause), Place(t, j) = i + 1
               PROVE  j = i + 1 /\ line.kind \in {"ini", "yaml"} /\ cause = [how |-> line.kind, ref |-> line.ref]
    OBVIOUS
  <2>1. t[i + 1].kind # "open"
    BY InBlockNext DEF Bracket
  <2> QED
    BY <1>1, <2>1, PlaceIs
<1>3. ~Bracket(line) => ~Open(out)
  BY InBlockNext DEF IsExpanded
<1>4. CASE Bracket(line)
  <2>1. line.kind = "sect"
    BY <1>4, InBlockNext DEF Bracket
  <2>2. new = Append(out, line)
    BY <2>1 DEF ExpandLine
  <2>3. \A j \in DOMAIN t : \A cause : Brings(t, j, cause) => Place(t, j) # i + 1
    BY <1>2, <2>1
  <2> HIDE DEF new, line
  <2>4. Includes(new) = Includes(out) /\ ~Open(new) /\ new \in Seq(Line)
    <3>1. Append(out, line) \in Seq(Line)
      BY <1>1
    <3>2. Includes(Append(out, line)) = Includes(out) /\ ~Open(Append(out, line))
      BY <1>1, <1>4, <2>1, AppendBracket
    <3> QED
      BY <2>2, <3>1, <3>2
  <2> QED
    BY <1>1, <2>3, <2>4, DueUnchanged DEF IsExpanded, new
<1>5. CASE line.kind = "ini"
  <2> DEFINE file == lib[line.ref]
             one == [how |-> "ini", ref |-> line.ref]
  <2>1. new = out \o IniLines(file)
    BY <1>5 DEF ExpandLine
  <2>2. file \in Seq(Line)
    BY <1>5, ImportReadable
  <2>3. /\ IniLines(file) \in Seq(Line)
        /\ \A j \in DOMAIN IniLines(file) : IniLines(file)[j].kind \in {"ini", "text"}
        /\ \A inc : (\E j \in DOMAIN IniLines(file) : LineBrings(IniLines(file)[j], inc)) <=>
                       \E j \in DOMAIN file : file[j].kind = "bare" /\ inc = [how |-> "ini", ref |-> file[j].ref]
    <3> HIDE DEF file
    <3> QED
      BY <2>2, IniLinesBring
  <2>4. ~Open(out)
    BY <1>3, <1>5 DEF Bracket
  <2>5. \A inc : inc \in IncludedBy(one, lib) <=>
           \E j \in DOMAIN file : file[j].kind = "bare" /\ inc = [how |-> "ini", ref |-> file[j].ref]
    BY DEF IncludedBy
  <2>6. Brings(t, i + 1, one) /\ Place(t, i + 1) = i + 1
    BY <1>5 DEF Brings, Place
  <2> HIDE DEF file
  <2>7. \A j \in DOMAIN IniLines(file) : ~Bracket(IniLines(file)[j])
    BY <2>3 DEF Bracket
  <2>8. /\ \A inc : inc \in Includes(new) <=>
                inc \in Includes(out) \/ (~Open(out) /\ \E j \in DOMAIN IniLines(file) : LineBrings(IniLines(file)[j], inc))
        /\ Open(new) <=> Open(out)
        /\ new \in Seq(Line)
    <3> HIDE DEF new
    <3>1. new \in Seq(Line)
      <4>1. out \o IniLines(file) \in Seq(Line)
        BY <1>1, <2>3
      <4> QED
        BY <2>1, <4>1
    <3> QED
      BY <1>1, <2>1, <2>3, <2>4, <2>7, <3>1, IncludesPlain
  <2> HIDE DEF one, new
  <2>9. \A inc : Due(t, lib, i + 1, inc) <=> Due(t, lib, i, inc) \/ inc \in IncludedBy(one, lib)
    <3>1. \A j \in DOMAIN t : \A cause : Brings(t, j, cause) /\ Place(t, j) = i + 1 => cause = one
      BY <1>2, <1>5 DEF one
    <3> QED
      BY <1>1, <2>6, <3>1, DueMore
  <2> QED
    BY <2>3, <2>4, <2>5, <2>8, <2>9 DEF IsExpanded, new
<1>6. CASE line.kind = "yaml"
  <2> DEFINE file == lib[line.ref]
             one == [how |-> "yaml", ref |-> line.ref]
             more == YamlLines(YamlContext(out), file)
  <2>1. new = out \o more
    BY <1>6 DEF ExpandLine
  <2>2. file \in Seq(Line)
    BY <1>6, ImportReadable
  <2>3. more \in Seq(Line) /\ \A j \in DOMAIN more : more[j].kind = "text"
    BY <2>2, YamlLinesBring
  <2>4. ~Open(out)
    BY <1>3, <1>6 DEF Bracket
  <2>5. IncludedBy(one, lib) = {}
    BY DEF IncludedBy
  <2>6. Brings(t, i + 1, one) /\ Place(t, i + 1) = i + 1
    BY <1>6 DEF Brings, Place
  <2> HIDE DEF file, more
  <2>7. \A j \in DOMAIN more : ~Bracket(more[j])
    BY <2>3 DEF Bracket
  <2>8. \A inc : \A j \in DOMAIN more : ~LineBrings(more[j], inc)
    BY <2>3 DEF LineBrings
  <2>9. Includes(new) = Includes(out) /\ (Open(new) <=> Open(out)) /\ new \in Seq(Line)
    <3> HIDE DEF new
    <3>1. new \in Seq(Line)
      <4>1. out \o more \in Seq(Line)
        BY <1>1, <2>3
      <4> QED
        BY <2>1, <4>1
    <3> QED
      BY <1>1, <2>1, <2>3, <2>4, <2>7, <2>8, <3>1, IncludesPlain
  <2> HIDE DEF one, new
  <2>10. \A inc : Due(t, lib, i + 1, inc) <=> Due(t, lib, i, inc) \/ inc \in IncludedBy(one, lib)
    <3>1. \A j \in DOMAIN t : \A cause : Brings(t, j, cause) /\ Place(t, j) = i + 1 => cause = one
      BY <1>2, <1>6 DEF one
    <3> QED
      BY <1>1, <2>6, <3>1, DueMore
  <2> QED
    BY <2>4, <2>5, <2>9, <2>10 DEF IsExpanded, new
<1>7. CASE ~Bracket(line) /\ line.kind \notin {"ini", "yaml"}
  <2>1. new = Append(out, line)
    BY <1>7 DEF ExpandLine
  <2>2. \A j \in DOMAIN t : \A cause : Brings(t, j, cause) => Place(t, j) # i + 1
    BY <1>2, <1>7
  <2> HIDE DEF new, line
  <2>3. Includes(new) = Includes(out) /\ ~Open(new) /\ new \in Seq(Line)
    <3>1. Append(out, line) \in Seq(Line)
      BY <1>1
    <3>2. Includes(Append(out, line)) = Includes(out) /\ ~Open(Append(out, line))
      BY <1>1, <1>3, <1>7, AppendLine
    <3> QED
      BY <2>1, <3>1, <3>2
  <2> QED
    BY <1>1, <2>2, <2>3, DueUnchanged DEF IsExpanded, new
<1> QED
  BY <1>4, <1>5, <1>6, <1>7

\* A round of imports leaves to import what the imported texts go on to import.
LEMMA RoundOfImports ==
    ASSUME NEW t, NEW lib, Readable(t, lib)
    PROVE  /\ ExpandImports(t, lib) \in Seq(Line)
           /\ Includes(ExpandImports(t, lib)) = UNION {IncludedBy(inc, lib) : inc \in Includes(t)}
<1>1. PICK f : /\ ExpandImports(t, lib) = f[Len(t)] /\ f[0] = <<>>
               /\ \A i \in 0..Len(t) : f[i] \in Seq(Line)
               /\ \A i \in 1..Len(t) : f[i] = ExpandLine(t, lib, f[i - 1], i)
  BY Expansion
<1>2. t \in Seq(Line) /\ Len(t) \in Nat /\ DOMAIN t = 1..Len(t)
  BY DEF Readable
<1> DEFINE T == {i \in Nat : i <= Len(t) => IsExpanded(t, lib, i, f[i])}
<1>3. 0 \in T
  <2>1. \A inc : ~Due(t, lib, 0, inc)
    <3> SUFFICES ASSUME NEW inc, NEW j \in DOMAIN t, NEW cause, Brings(t, j, cause), Place(t, j) <= 0 PROVE FALSE
      BY DEF Due, Passes
    <3>1. Place(t, j) \in 1..Len(t)
      BY <1>2, PlaceIs
    <3> QED
      BY <1>2, <3>1
  <2>2. ~InBlock(t, 0)
    <3>1. BlockStart(t, 0) = 0
      BY StartNone
    <3> QED
      BY <3>1 DEF InBlock
  <2>3. f[0] \in Seq(Line) /\ Includes(f[0]) = {} /\ ~Open(f[0])
    BY <1>1, <1>2, OpenEmpty
  <2> QED
    BY <2>1, <2>2, <2>3 DEF IsExpanded
<1>4. ASSUME NEW i \in Nat, i \in T PROVE i + 1 \in T
  <2> SUFFICES ASSUME i + 1 <= Len(t) PROVE IsExpanded(t, lib, i + 1, f[i + 1])
    OBVIOUS
  <2>1. i + 1 \in DOMAIN t /\ i <= Len(t) /\ i + 1 \in 1..Len(t) /\ (i + 1) - 1 = i
    BY <1>2
  <2>2. IsExpanded(t, lib, i, f[i]) /\ f[i + 1] = ExpandLine(t, lib, f[i], i + 1)
    BY <1>1, <1>4, <2>1
  <2> HIDE DEF T
  <2> QED
    BY <2>1, <2>2, ExpandTableLine, ExpandTableImport, ExpandPlainLine
<1>5. Nat \subseteq T
  <2> HIDE DEF T
  <2> QED
    BY <1>3, <1>4, NatSet
<1>6. IsExpanded(t, lib, Len(t), ExpandImports(t, lib))
  BY <1>1, <1>2, <1>5
<1>7. \A inc : Due(t, lib, Len(t), inc) <=> \E cause \in Includes(t) : inc \in IncludedBy(cause, lib)
  <2> TAKE inc
  <2>1. ASSUME Due(t, lib, Len(t), inc) PROVE \E cause \in Includes(t) : inc \in IncludedBy(cause, lib)
    BY <2>1, IncludesIff DEF Due, Passes
  <2>2. ASSUME NEW cause \in Includes(t), inc \in IncludedBy(cause, lib) PROVE Due(t, lib, Len(t), inc)
    <3>1. PICK j \in DOMAIN t : Brings(t, j, cause)
      BY IncludesIff
    <3>2. Place(t, j) \in 1..Len(t)
      BY <1>2, <3>1, PlaceIs
    <3>3. Place(t, j) <= Len(t)
      BY <1>2, <3>2
    <3> QED
      BY <2>2, <3>1, <3>3 DEF Due, Passes
  <2> QED
    BY <2>1, <2>2
<1> QED
  BY <1>6, <1>7 DEF IsExpanded

-----------------------------------------------------------------------------
\* EdgeFetch.  The URL at hand was checked when a request goes to it, and every
\* redirect that was followed took a request.
Permitted == {url \in Url : ~RuledOut(url)}

Chain ==
    /\ edge \in Edge /\ at \in Url
    /\ step \in {"cache", "check", "send", "store", "done"}
    /\ hops \in 0..MaxHops
    /\ sent \in Seq(Permitted)
    /\ step = "cache" => sent = <<>> /\ hops = 0
    /\ step \in {"check", "send"} => Len(sent) = hops
    /\ step = "send" => at \in Permitted
    /\ step \in {"store", "done"} => Len(sent) <= hops + 1
    /\ step = "store" => sent # <<>> /\ sent[Len(sent)] = at
    /\ step # "done" => result # "content"

\* What is delivered comes from where the chain ended, or from the cache.
Origin == result = "content" => (sent = <<>> /\ kv) \/ (sent # <<>> /\ sent[Len(sent)] = at)

\* What an adapter allows is not ruled out by its settings.
LEMMA AllowedUrl ==
    ASSUME edge \in Edge, at \in Url, Allows(at)
    PROVE  at \in Permitted
BY DEF Edge, Url, Allows, WorkerAllows, CliAllows, SchemeAllowed, RuledOut, Permitted

LEMMA AppendUrl ==
    ASSUME sent \in Seq(Permitted), at \in Permitted
    PROVE  /\ Append(sent, at) \in Seq(Permitted) /\ Len(Append(sent, at)) = Len(sent) + 1
           /\ Append(sent, at) # <<>> /\ Append(sent, at)[Len(Append(sent, at))] = at
OBVIOUS

LEMMA ChainStep == Chain /\ [EdgeNext]_edgeVars => Chain'
<1> SUFFICES ASSUME Chain, [EdgeNext]_edgeVars PROVE Chain'
  OBVIOUS
<1> USE MaxHopsNat
<1>1. edge' = edge
  BY DEF EdgeNext, edgeVars, KvHit, KvUnreadable, KvMiss, CheckUrl, SendFails, Redirected,
     Received, KvStore, End
<1>2. Permitted' = Permitted
  BY <1>1 DEF Permitted, RuledOut
<1>3. CASE UNCHANGED edgeVars
  BY <1>2, <1>3 DEF edgeVars, Chain
<1>4. CASE KvHit \/ KvUnreadable \/ SendFails
  <2>1. step' = "done" /\ UNCHANGED <<edge, at, hops, sent>> /\ step \in {"cache", "send"}
    BY <1>4, Zenon DEF KvHit, KvUnreadable, SendFails, End
  <2> QED
    BY <1>2, <2>1 DEF Chain
<1>5. CASE KvMiss
  BY <1>2, <1>5 DEF KvMiss, Chain
<1>6. CASE CheckUrl
  BY <1>2, <1>6, AllowedUrl DEF CheckUrl, End, Chain
<1>7. CASE Redirected
  BY <1>2, <1>7, AppendUrl DEF Redirected, Chain
<1>8. CASE Received
  <2>1. step = "send" /\ sent' = Append(sent, at) /\ UNCHANGED <<edge, at, hops>>
    BY <1>8, Zenon DEF Received
  <2>2. step' = "done" \/ (step' = "store" /\ result' = result)
    BY <1>8, Zenon DEF Received
  <2> QED
    BY <1>2, <2>1, <2>2, AppendUrl DEF Chain
<1>9. CASE KvStore
  BY <1>2, <1>9 DEF KvStore, End, Chain
<1> QED
  BY <1>3, <1>4, <1>5, <1>6, <1>7, <1>8, <1>9 DEF EdgeNext

LEMMA OriginStep == Chain /\ Origin /\ [EdgeNext]_edgeVars => Origin'
<1> SUFFICES ASSUME Chain, Origin, [EdgeNext]_edgeVars PROVE Origin'
  OBVIOUS
<1>1. CASE UNCHANGED edgeVars
  BY <1>1, Zenon DEF edgeVars, Origin
<1>2. CASE KvHit
  <2>1. sent' = <<>> /\ kv
    BY <1>2, Zenon DEF KvHit, End, Chain
  <2>2. kv' = kv
    BY <1>2, Zenon DEF KvHit
  <2> QED
    BY <2>1, <2>2, Zenon DEF Origin
<1>3. CASE KvUnreadable \/ SendFails \/ KvMiss \/ CheckUrl \/ Redirected
  <2>1. result' # "content"
    BY <1>3 DEF KvUnreadable, SendFails, KvMiss, CheckUrl, Redirected, End, Chain
  <2> QED
    BY <2>1 DEF Origin
<1>4. CASE Received
  <2>1. sent' = Append(sent, at) /\ at' = at
    BY <1>4 DEF Received
  <2>2. sent' # <<>> /\ sent'[Len(sent')] = at'
    BY <1>4, <2>1, AppendUrl DEF Received, Chain
  <2> QED
    BY <2>2 DEF Origin
<1>5. CASE KvStore
  <2>1. sent' # <<>> /\ sent'[Len(sent')] = at'
    BY <1>5, Zenon DEF KvStore, End, Chain
  <2> QED
    BY <2>1 DEF Origin
<1> QED
  BY <1>1, <1>2, <1>3, <1>4, <1>5 DEF EdgeNext

\* However a chain of redirects runs, every request of the Worker and of the
\* command line goes to a URL that the settings allow, for any limit on redirects
\* (WorkerIo::fetch, CliIo::fetch).
THEOREM HopsChecked == EdgeSpec => []EveryHopChecked
<1>1. EdgeInit => Chain /\ Origin
  BY MaxHopsNat DEF EdgeInit, Chain, Origin
<1>2. Chain /\ Origin => EveryHopChecked
  <2> SUFFICES ASSUME Chain, Origin PROVE EveryHopChecked
    OBVIOUS
  <2>1. \A i \in DOMAIN sent : ~RuledOut(sent[i])
    BY DEF Chain, Permitted
  <2>3. Len(sent) <= MaxHops + 1
    BY MaxHopsNat DEF Chain
  <2>2. result = "content" => IF sent = <<>> THEN kv ELSE sent[Len(sent)] = at
    BY Zenon DEF Origin
  <2> QED
    BY <2>1, <2>2, <2>3, Zenon DEF EveryHopChecked
<1> QED
  BY <1>1, <1>2, ChainStep, OriginStep, PTL DEF EdgeSpec
-----------------------------------------------------------------------------
\* CommandLine.  Whatever is written or printed is a prefix of what was rendered,
\* or nothing.
TargetName == {"all"} \cup Range(GeneratorTargets)
Result == [target : TargetName, from : Nat]

Ordered(results) ==
    /\ results \in Seq(Result)
    /\ InTargetOrder(results)

RunOfCli ==
    /\ cli \in Invocation /\ offered \in Nat
    /\ stage \in {"pref", "convert", "settings", "defaults", "done", "failed"}
    /\ cli.program = "cli" =>
        /\ Ordered(rendered) /\ Len(rendered) <= Len(Wanted)
        /\ \A i \in DOMAIN rendered : rendered[i].from <= offered
        /\ files = IF cli.artifact THEN rendered ELSE <<>>
        /\ printed = IF cli.artifact \/ (cli.target = "all" /\ stage # "done") THEN <<>> ELSE rendered
        /\ stage = "done" => Len(rendered) = Len(Wanted)

LEMMA WantedSeq == ASSUME cli \in Invocation, cli.program = "cli" PROVE Wanted \in Seq(TargetName)
<1>1. cli.target \in TargetName
  BY DEF Invocation, TargetName
<1>2. <<cli.target>> \in Seq(TargetName)
  BY <1>1
<1>3. GeneratorTargets \in Seq(TargetName)
  BY GeneratorTargetsSeq DEF TargetName
<1> QED
  BY <1>2, <1>3 DEF Wanted

LEMMA AppendOrdered ==
    ASSUME NEW results, Ordered(results), NEW r \in Result, Wanted \in Seq(TargetName),
           Len(results) < Len(Wanted), r.target = Wanted[Len(results) + 1],
           \A i \in DOMAIN results : results[i].from <= r.from
    PROVE  /\ Ordered(Append(results, r)) /\ Len(Append(results, r)) = Len(results) + 1
           /\ \A i \in DOMAIN Append(results, r) : Append(results, r)[i].from <= r.from
<1> DEFINE t == Append(results, r)
<1> USE DEF Result
<1>1. results \in Seq(Result) /\ t \in Seq(Result) /\ Len(t) = Len(results) + 1
      /\ t[Len(results) + 1] = r /\ Len(results) \in Nat
  BY DEF Ordered
<1>2. \A i \in 1..Len(results) : t[i] = results[i]
  BY <1>1
<1>3. DOMAIN t = 1..(Len(results) + 1) /\ DOMAIN results = 1..Len(results)
  BY <1>1
<1>4. \A i \in 1..(Len(results) + 1) : i \in 1..Len(results) \/ i = Len(results) + 1
  BY <1>1
<1>5. \A i \in DOMAIN results : results[i].target = Wanted[i]
  BY DEF Ordered, InTargetOrder
<1>6. \A i, j \in DOMAIN results : i < j => results[i].from <= results[j].from
  BY DEF Ordered, InTargetOrder
<1> HIDE DEF t
<1>7. \A i \in DOMAIN t : t[i].target = Wanted[i]
  BY <1>1, <1>2, <1>3, <1>4, <1>5
<1>8. \A i \in DOMAIN t : t[i].from <= r.from
  BY <1>1, <1>2, <1>3, <1>4
<1>9. ASSUME NEW i \in DOMAIN t, NEW j \in DOMAIN t, i < j PROVE t[i].from <= t[j].from
  <2>1. CASE j \in 1..Len(results)
    <3>1. i \in 1..Len(results)
      BY <1>3, <1>9, <2>1, <1>1
    <3> QED
      BY <1>2, <1>3, <1>6, <1>9, <2>1, <3>1
  <2>2. CASE j = Len(results) + 1
    BY <1>1, <1>8, <2>2
  <2> QED
    BY <1>3, <1>4, <2>1, <2>2
<1> QED
  BY <1>1, <1>7, <1>8, <1>9 DEF Ordered, InTargetOrder, t

LEMMA RunOfCliStep == RunOfCli /\ [CliNext]_cliVars => RunOfCli'
<1> SUFFICES ASSUME RunOfCli, [CliNext]_cliVars PROVE RunOfCli'
  OBVIOUS
<1>1. cli' = cli /\ Wanted' = Wanted
  BY DEF CliNext, cliVars, CliPref, WorkerPref, ConvertNext, ConvertFails, Finish, Republish, Wanted
<1>2. CASE UNCHANGED cliVars
  BY <1>1, <1>2 DEF cliVars, RunOfCli, Ordered, InTargetOrder
<1>3. CASE CliPref \/ WorkerPref
  <2>1. UNCHANGED <<offered, rendered, files, printed>>
        /\ stage = "pref" /\ stage' \in {"pref", "convert", "settings", "defaults", "failed"}
    BY <1>3, Zenon DEF CliPref, WorkerPref
  <2> QED
    BY <1>1, <2>1 DEF RunOfCli, Ordered, InTargetOrder
<1>4. CASE ConvertNext
  <2> DEFINE r == [target |-> Wanted[Len(rendered) + 1], from |-> offered]
  <2>1. rendered' = Append(rendered, r) /\ Emit(r) /\ stage = "convert" /\ Len(rendered) < Len(Wanted)
        /\ UNCHANGED <<stage, offered>>
    BY <1>4, Zenon DEF ConvertNext
  <2>2. CASE cli.program = "cli"
    <3>1. Wanted \in Seq(TargetName)
      BY <2>2, WantedSeq DEF RunOfCli
    <3>2. r \in Result /\ r.target = Wanted[Len(rendered) + 1] /\ r.from = offered
      BY <2>1, <2>2, <3>1 DEF RunOfCli, Result, Ordered
    <3> HIDE DEF r
    <3>3. /\ Ordered(rendered') /\ Len(rendered') = Len(rendered) + 1
          /\ \A i \in DOMAIN rendered' : rendered'[i].from <= offered
      BY <2>1, <2>2, <3>1, <3>2, AppendOrdered DEF RunOfCli
    <3>4. Ordered(rendered)'
      BY <1>1, <3>3 DEF Ordered, InTargetOrder
    <3>5. files' = IF cli.artifact THEN rendered' ELSE <<>>
      BY <2>1, <2>2 DEF Emit, RunOfCli
    <3>6. printed' = IF cli.artifact \/ (cli.target = "all" /\ stage # "done") THEN <<>> ELSE rendered'
      BY <2>1, <2>2 DEF Emit, RunOfCli
    <3>7. Len(rendered') <= Len(Wanted)
      BY <2>1, <2>2, <3>1, <3>3 DEF RunOfCli, Ordered
    <3> QED
      BY <1>1, <2>1, <3>3, <3>4, <3>5, <3>6, <3>7 DEF RunOfCli
  <2>3. CASE cli.program # "cli"
    BY <1>1, <2>1, <2>3 DEF RunOfCli
  <2> QED
    BY <2>2, <2>3
<1>5. CASE ConvertFails
  <2>1. UNCHANGED <<offered, rendered, files, printed>> /\ stage = "convert" /\ stage' = "failed"
    BY <1>5 DEF ConvertFails
  <2> QED
    BY <1>1, <2>1 DEF RunOfCli, Ordered, InTargetOrder
<1>6. CASE Finish
  <2>1. /\ UNCHANGED <<offered, rendered, files>> /\ stage = "convert" /\ stage' = "done"
        /\ Len(rendered) = Len(Wanted)
        /\ printed' = IF cli.target = "all" /\ ~cli.artifact THEN rendered ELSE printed
    BY <1>6 DEF Finish
  <2> QED
    BY <1>1, <2>1 DEF RunOfCli, Ordered, InTargetOrder
<1>7. CASE Republish
  <2>1. UNCHANGED <<stage, rendered, files, printed>> /\ offered' = offered + 1
    BY <1>7 DEF Republish
  <2>2. ASSUME cli.program = "cli", NEW i \in DOMAIN rendered PROVE rendered[i].from <= offered'
    <3>1. rendered[i] \in Result /\ rendered[i].from <= offered
      BY <2>2 DEF RunOfCli, Ordered
    <3> QED
      BY <2>1, <3>1 DEF RunOfCli, Result
  <2> QED
    BY <1>1, <2>1, <2>2 DEF RunOfCli, Ordered, InTargetOrder
<1> QED
  BY <1>2, <1>3, <1>4, <1>5, <1>6, <1>7 DEF CliNext

LEMMA RunOfCliInit == CliInit => RunOfCli
<1> SUFFICES ASSUME CliInit PROVE RunOfCli
  OBVIOUS
<1>1. cli.program = "cli" => Len(Wanted) \in Nat
  BY WantedSeq DEF CliInit
<1> QED
  BY <1>1 DEF CliInit, RunOfCli, Ordered, InTargetOrder

\* Whatever fails and whenever the subscription changes, a run of the generator
\* leaves its targets, or the first of them, in order, for any list of targets
\* (run_conversion_mode, emit_artifact).
THEOREM GeneratorKeepsOrder == CliSpec => []ArtifactsInOrder
<1>1. CliInit => RunOfCli
  BY RunOfCliInit
<1>2. RunOfCli => ArtifactsInOrder
  <2> SUFFICES ASSUME RunOfCli, cli.program = "cli" PROVE ArtifactsInOrder
    BY DEF ArtifactsInOrder
  <2>1. InTargetOrder(<<>>)
    BY DEF InTargetOrder
  <2>2. rendered \in Seq(Result) /\ rendered \o <<>> = rendered /\ <<>> \o rendered = rendered
    BY DEF RunOfCli, Ordered
  <2>3. CASE cli.artifact
    BY <2>1, <2>2, <2>3 DEF RunOfCli, Ordered, ArtifactsInOrder
  <2>4. CASE ~cli.artifact
    BY <2>1, <2>2, <2>4 DEF RunOfCli, Ordered, ArtifactsInOrder
  <2> QED
    BY <2>3, <2>4
<1> QED
  BY <1>1, <1>2, RunOfCliStep, PTL DEF CliSpec

-----------------------------------------------------------------------------
\* SubRequest.  Nothing was done for a client who does not hold a token of the
\* operator, and the settings a configuration made for the request will take no
\* other token.
Holder == Trusted \/ Arg("token") \in OperatorTokens

Vouched(e) == e.what \in {"script", "upload"} \/ e.by = "request" => Holder

Late == {"scripts", "sources", "convert", "upload"}

Authority ==
    /\ "token" \in DOMAIN settings
    /\ pc = "dispatch" => effects = {}
    /\ pc \in Late /\ HasValidToken(eff) => Holder
    /\ pc = "upload" => ~Flag("upload", FALSE) \/ ScriptsAuthorized
    /\ \A e \in effects : Vouched(e)

LEMMA TokenHolder == ASSUME LocalAuthorized(settings) PROVE Holder
BY DEF LocalAuthorized, HasValidToken, Holder, OperatorTokens

LEMMA SameHolder == ASSUME UNCHANGED <<io, settings, req>> PROVE Holder' = Holder
BY DEF Holder, Trusted, Arg, OperatorTokens, DefaultToken, Has, NoConfig, ConfigText

\* The settings of the request have the token of the service, or that of the
\* operator's own configuration, or the client holds one of the two.
LEMMA OverlaidToken ==
    ASSUME "token" \in DOMAIN settings, HasValidToken(Overlaid) PROVE Holder
<1>1. CASE LocalAuthorized(settings)
  BY <1>1, TokenHolder
<1> DEFINE sets == IF ConfigTrusted THEN Sets ELSE Without(Sets, Protected)
<1>2. Overlaid = [k \in DOMAIN sets \cup DOMAIN settings |->
                    IF k \in DOMAIN sets THEN sets[k] ELSE settings[k]]
  BY DEF Overlaid, Over
<1> HIDE DEF sets
<1>3. Overlaid.token = IF "token" \in DOMAIN sets THEN sets["token"] ELSE settings.token
  BY <1>2
<1>4. CASE "token" \notin DOMAIN sets
  <2>1. HasValidToken(settings)
    BY <1>3, <1>4 DEF HasValidToken
  <2> QED
    BY <2>1, TokenHolder DEF LocalAuthorized
<1>5. CASE "token" \in DOMAIN sets /\ ~LocalAuthorized(settings)
  <2>1. ConfigTrusted
    <3>1. ASSUME ~ConfigTrusted PROVE FALSE
      <4>1. sets = [k \in DOMAIN Sets \ Protected |-> Sets[k]]
        BY <3>1 DEF sets, Without
      <4> QED
        BY <4>1, <1>5 DEF Protected
    <3> QED
      BY <3>1
  <2>2. sets = Sets
    BY <2>1 DEF sets
  <2>3. ~Has("config")
    BY <2>1, <1>5 DEF ConfigTrusted, LocalAuthorized
  <2>4. sets["token"] # "" /\ Arg("token") = sets["token"]
    BY <1>3, <1>5 DEF HasValidToken
  <2>5. Sets = <<>> \/ (~NoConfig /\ Sets = ConfigText.sets)
        \/ Sets = [k \in DOMAIN ConfigText.sets |-> Defaults[k]]
    BY DEF Sets
  <2>6. CASE Sets = <<>>
    BY <1>5, <2>2, <2>6
  <2>7. CASE ~NoConfig /\ Sets = ConfigText.sets
    <3>1. sets["token"] \in DefaultToken
      BY <1>5, <2>2, <2>3, <2>7 DEF DefaultToken
    <3> QED
      BY <2>4, <3>1 DEF Holder, OperatorTokens
  <2>8. CASE Sets = [k \in DOMAIN ConfigText.sets |-> Defaults[k]]
    <3>1. sets["token"] = Defaults["token"]
      BY <1>5, <2>2, <2>8
    <3> QED
      BY <2>4, <3>1 DEF Defaults
  <2> QED
    BY <2>5, <2>6, <2>7, <2>8
<1> QED
  BY <1>1, <1>4, <1>5

\* A step, other than one that makes a request of a profile, that keeps who asks
\* and what they are given to.
Adds ==
    /\ UNCHANGED <<io, settings, req>>
    /\ \A e \in effects' : e \in effects \/ Vouched(e)

LEMMA PlainAdds == UNCHANGED <<io, settings, req, effects>> => Adds
BY DEF Adds

LEMMA EffectAdds ==
    ASSUME NEW what, NEW by, Holder \/ (what = "read" /\ by # "request"),
           UNCHANGED <<io, settings, req>>,
           effects' = effects \/ effects' = effects \cup {Effect(what, by)}
    PROVE  Adds
<1>1. Effect(what, by).what = what /\ Effect(what, by).by = by
  BY DEF Effect
<1>2. Vouched(Effect(what, by))
  BY <1>1 DEF Vouched
<1> QED
  BY <1>2 DEF Adds

LEMMA RoutesAdd ==
    ASSUME "token" \in DOMAIN settings,
           NotFound \/ ParseTarget \/ GetRuleset \/ RenderTemplate \/ RawGet \/ GetLocal
    PROVE  Adds /\ pc' \in {"config", "done"}
<1> USE DEF Refuse, Reply, steady
<1>1. RequireLocalAccess => Holder
  BY TokenHolder DEF RequireLocalAccess, LocalAuthorized
<1>2. CASE NotFound \/ ParseTarget \/ RawGet
  <2>1. UNCHANGED <<io, settings, req, effects>> /\ pc' \in {"config", "done"}
    BY <1>2 DEF NotFound, ParseTarget, RawGet
  <2> QED
    BY <2>1, PlainAdds
<1>3. CASE GetRuleset \/ RenderTemplate \/ GetLocal
  <2>1. /\ UNCHANGED <<io, settings, req>> /\ pc' \in {"config", "done"}
        /\ effects' = effects \/ (RequireLocalAccess /\ effects' = effects \cup {Effect("read", "request")})
    BY <1>3 DEF GetRuleset, RenderTemplate, GetLocal
  <2> QED
    BY <1>1, <2>1, PlainAdds, EffectAdds
<1> QED
  BY <1>2, <1>3

LEMMA ConfigAdds ==
    ASSUME "token" \in DOMAIN settings, LoadConfig \/ ExpandRound \/ ResolveBases
    PROVE  Adds /\ pc' \in {"imports", "bases", "overlay", "done"}
<1> USE DEF Refuse, Reply, steady
<1>1. ConfigAuthorized => Holder \/ ConfigBy # "request"
  BY TokenHolder DEF ConfigAuthorized, ConfigBy
<1>2. CASE LoadConfig
  <2>1. /\ UNCHANGED <<io, settings, req>> /\ pc' \in {"imports", "bases", "overlay", "done"}
        /\ effects' = effects \/ (ConfigAuthorized /\ effects' = effects \cup {Effect("read", ConfigBy)})
    BY <1>2 DEF LoadConfig, LoadErrors
  <2> QED
    BY <1>1, <2>1, PlainAdds, EffectAdds
<1>3. CASE ExpandRound
  <2>1. /\ UNCHANGED <<io, settings, req>> /\ pc' \in {"imports", "bases", "overlay", "done"}
        /\ effects' = effects \/ (ConfigAuthorized /\ effects' = effects \cup {Effect("read", ConfigBy)})
    BY <1>3 DEF ExpandRound, Denied
  <2> QED
    BY <1>1, <2>1, PlainAdds, EffectAdds
<1>4. CASE ResolveBases
  <2>1. /\ UNCHANGED <<io, settings, req>> /\ pc' \in {"imports", "bases", "overlay", "done"}
        /\ effects' = effects \/ (ConfigAuthorized /\ effects' = effects \cup {Effect("read", ConfigBy)})
    BY <1>4 DEF ResolveBases
  <2> QED
    BY <1>1, <2>1, PlainAdds, EffectAdds
<1> QED
  BY <1>2, <1>3, <1>4

\* From the configuration on, the settings of the request stay as they are.
LEMMA LateAdds ==
    ASSUME Authority, ResolveScripts \/ ResolveSource \/ InsertSources \/ InsertDone
    PROVE  Adds /\ pc \in Late /\ pc' \in {"scripts", "sources", "convert", "done"} /\ eff' = eff
<1> USE DEF Refuse, Reply, steady, Late
<1>1. ScriptsAuthorized => Holder
  BY TokenHolder DEF ScriptsAuthorized, Authority
<1>2. CASE ResolveScripts
  <2>1. BeginSources => /\ UNCHANGED <<io, settings, req, eff>>
                        /\ pc' \in {"sources", "done"}
    BY DEF BeginSources, Gather
  <2>2. /\ UNCHANGED <<io, settings, req, eff>> /\ pc = "scripts" /\ pc' \in {"sources", "done"}
        /\ effects' = effects
           \/ (ScriptsAuthorized /\ effects' = effects \cup {Effect("script", "request")})
    BY <1>2, <2>1 DEF ResolveScripts
  <2> QED
    BY <1>1, <2>2, PlainAdds, EffectAdds
<1>3. CASE ResolveSource
  <2> DEFINE s == Head(todo)
             by == IF from = "insert" THEN "list" ELSE "request"
  <2>1. PICK status \in Outcomes(s) :
          effects' = effects \/ (status = 200 /\ effects' = effects \cup SourceEffect(s))
    BY <1>3 DEF ResolveSource
  <2>2. UNCHANGED <<io, settings, req, eff>> /\ pc = "sources" /\ pc' \in {"sources", "done"}
    BY <1>3 DEF ResolveSource
  <2>3. CASE effects' = effects
    BY <2>2, <2>3, PlainAdds
  <2>4. CASE status = 200 /\ effects' = effects \cup SourceEffect(s)
    <3>1. CASE s.kind = "file"
      <4>1. FileAuthorized
        BY <2>1, <2>4, <3>1 DEF Outcomes, Forbidden, Unsupported
      <4>2. from = "insert" \/ Holder
        BY <1>3, <4>1 DEF FileAuthorized, LocalAuthorized, Authority, Holder, ResolveSource
      <4>3. effects' = effects \cup {Effect("read", by)}
        BY <2>4, <3>1 DEF SourceEffect
      <4>4. Holder \/ by # "request"
        BY <4>2
      <4> HIDE DEF by
      <4> QED
        BY <2>2, <4>3, <4>4, EffectAdds
    <3>2. CASE s.kind = "script"
      <4>1. ScriptsAuthorized
        BY <2>1, <2>4, <3>2 DEF Outcomes, Forbidden, Unsupported
      <4>2. effects' = effects \cup {Effect("script", "request")}
        BY <2>4, <3>2 DEF SourceEffect
      <4> QED
        BY <1>1, <2>2, <4>1, <4>2, EffectAdds
    <3>3. CASE s.kind # "file" /\ s.kind # "script"
      BY <2>2, <2>4, <3>3, PlainAdds DEF SourceEffect
    <3> QED
      BY <3>1, <3>2, <3>3
  <2> QED
    BY <2>1, <2>3, <2>4
<1>4. CASE InsertSources \/ InsertDone
  <2>1. UNCHANGED <<io, settings, req, effects, eff>> /\ pc = "sources" /\ pc' \in {"sources", "convert"}
    BY <1>4 DEF InsertSources, InsertDone, Gather
  <2> QED
    BY <2>1, PlainAdds
<1> QED
  BY <1>2, <1>3, <1>4

LEMMA AuthorityStep == Authority /\ [Next]_vars => Authority'
<1> SUFFICES ASSUME Authority, [Next]_vars PROVE Authority'
  OBVIOUS
<1>1. ASSUME Adds PROVE /\ "token" \in DOMAIN settings' /\ (\A e \in effects' : Vouched(e)')
                        /\ Holder' = Holder
  BY <1>1, SameHolder DEF Adds, Vouched, Authority
<1>2. ASSUME Adds, pc' \notin Late, pc' # "dispatch" PROVE Authority'
  BY <1>1, <1>2 DEF Authority, Late
<1>3. CASE NotFound \/ ParseTarget \/ GetRuleset \/ RenderTemplate \/ RawGet \/ GetLocal
  BY <1>2, <1>3, RoutesAdd DEF Authority, Late
<1>4. CASE LoadConfig \/ ExpandRound \/ ResolveBases
  BY <1>2, <1>4, ConfigAdds DEF Authority, Late
<1>5. CASE GetProfile
  <2>1. CASE UNCHANGED <<effects, io, settings>> /\ pc = "dispatch" /\ pc' = "dispatch"
    BY <2>1 DEF Authority, Late
  <2>2. CASE UNCHANGED <<io, settings, req, effects>> /\ pc' = "done"
    BY <1>2, <2>2, PlainAdds DEF Late
  <2> QED
    BY <1>5, <2>1, <2>2 DEF GetProfile, AtDispatch, Refuse, Reply, steady
<1>6. CASE OverlayConfig
  <2>1. UNCHANGED <<io, settings, req, effects>> /\ pc' = "scripts"
        /\ (eff' = Overlaid \/ eff' = [Overlaid EXCEPT !.script = Arg("filter_script")])
    BY <1>6 DEF OverlayConfig, steady
  <2>2. eff'.token = Overlaid.token
    BY <2>1 DEF Authority, Overlaid, Over
  <2>3. HasValidToken(eff)' => HasValidToken(Overlaid)
    BY <2>1, <2>2 DEF HasValidToken, Arg
  <2>4. HasValidToken(eff)' => Holder
    BY <2>3, OverlaidToken DEF Authority
  <2> QED
    BY <1>1, <2>1, <2>4, PlainAdds DEF Authority, Late
<1>7. CASE ResolveScripts \/ ResolveSource \/ InsertSources \/ InsertDone
  <2>1. HasValidToken(eff)' => HasValidToken(eff)
    BY <1>7, LateAdds DEF HasValidToken, Arg, Adds
  <2> QED
    BY <1>1, <1>7, <2>1, LateAdds DEF Authority, Late
<1>8. CASE Convert
  <2>1. UNCHANGED <<io, settings, req, eff, effects>> /\ pc = "convert" /\ pc' \in {"upload", "done"}
    BY <1>8 DEF Convert, Refuse, Reply, steady
  <2>2. pc' = "upload" => ~Flag("upload", FALSE) \/ ScriptsAuthorized
    BY <1>8, Zenon DEF Convert, Refuse, Reply
  <2>3. Flag("upload", FALSE)' = Flag("upload", FALSE) /\ ScriptsAuthorized' = ScriptsAuthorized
    BY <2>1 DEF Flag, Has, Arg, ScriptsAuthorized, LocalAuthorized, HasValidToken, Trusted
  <2>4. HasValidToken(eff)' => HasValidToken(eff)
    BY <2>1 DEF HasValidToken, Arg
  <2>5. pc' = "upload" => (~Flag("upload", FALSE) \/ ScriptsAuthorized)'
    BY <2>2, <2>3, Zenon
  <2> QED
    BY <1>1, <2>1, <2>4, <2>5, PlainAdds DEF Authority, Late
<1>9. CASE Respond
  <2>1. UNCHANGED <<io, settings, req>> /\ pc = "upload" /\ pc' = "done"
    BY <1>9 DEF Respond, Reply, steady
  <2>2. effects' = effects
        \/ (ScriptsAuthorized /\ effects' = effects \cup {Effect("upload", "request")})
    BY <1>9, Zenon DEF Respond, Authority, Late
  <2>3. ScriptsAuthorized => Holder
    BY TokenHolder DEF ScriptsAuthorized
  <2> QED
    BY <1>2, <2>1, <2>2, <2>3, PlainAdds, EffectAdds DEF Late
<1>10. CASE UNCHANGED vars
  <2>1. UNCHANGED <<io, settings, req, eff, effects, pc>>
    BY <1>10 DEF vars
  <2> QED
    BY <1>1, <2>1, PlainAdds DEF Authority, HasValidToken, Arg, Flag, Has, ScriptsAuthorized,
       LocalAuthorized, Trusted
<1> QED
  BY <1>3, <1>4, <1>5, <1>6, <1>7, <1>8, <1>9, <1>10 DEF Next

\* For any adapter, settings, request, profiles and configuration files, what runs a
\* script, uploads a result or reads a file that the client named was asked for by
\* a client with a token of the operator (resolve_sources,
\* resolve_configured_scripts, resolve_config_content).
THEOREM NothingGranted == SubSpec => []ConfigGrantsNothing
<1>1. Init => Authority
  BY CasesAreRequests DEF IsSettings, Defaults, Init, Asked, Fresh, Authority, Late
<1>2. Authority => ConfigGrantsNothing
  BY DEF Authority, Vouched, Holder, ConfigGrantsNothing
<1> QED
  BY <1>1, <1>2, AuthorityStep, PTL DEF SubSpec

-----------------------------------------------------------------------------
\* GistUpload.  While the uploads follow one another, the one that runs has read
\* what is on record, and the file speaks of the only gist there is.
UploadStep == {"idle", "send", "record", "write", "done", "failed"}

GistShape ==
    /\ gconf \in GistConf
    /\ DOMAIN gists = GistIds
    /\ up \in [Uploads -> [step : UploadStep, name : Names \cup {"common"}, read : GistConf,
                           gist : {NoGist} \cup GistIds]]
    /\ \A u \in Uploads :
         /\ up[u].step # "idle" => up[u].name \in Names
         /\ up[u].step \in {"record", "write", "done"} => up[u].gist \in GistIds

Runs(u) == up[u].step \in {"send", "record", "write"}

OnRecord(conf) == Created = IF conf.gist = NoGist THEN {} ELSE {conf.gist}

OneGist ==
    /\ \A u, v \in Uploads : Runs(u) /\ Runs(v) => u = v
    /\ \A u \in Uploads : Runs(u) => up[u].name # "common"
    /\ \A u \in Uploads : up[u].step = "send" =>
         up[u].read = gconf /\ up[u].gist = gconf.gist /\ OnRecord(gconf)
    /\ \A u \in Uploads : up[u].step \in {"record", "write", "done"} =>
         Created = {up[u].gist} /\ up[u].name \in DOMAIN gists[up[u].gist]
    /\ (\A v \in Uploads : ~Runs(v)) => OnRecord(gconf)
    /\ \A u \in Uploads : up[u].step = "done" =>
         /\ (\A v \in Uploads : ~Runs(v)) => up[u].name \in gconf.sections
         /\ \A v \in Uploads : Runs(v) => up[u].name \in up[v].read.sections

Quiet == GistShape /\ (~disturbed => OneGist)

LEMMA HoldingCreates ==
    ASSUME DOMAIN gists = GistIds, NEW gist \in GistIds, NEW name, NEW u, gists' = Holding(gist, name, u)
    PROVE  /\ DOMAIN gists' = GistIds
           /\ Created' = Created \cup {gist}
           /\ name \in DOMAIN gists'[gist]
           /\ \A g \in GistIds : DOMAIN gists[g] \subseteq DOMAIN gists'[g]
<1> DEFINE held == [n \in DOMAIN gists[gist] \cup {name} |-> IF n = name THEN u ELSE gists[gist][n]]
<1>1. gists' = [gists EXCEPT ![gist] = held]
  BY DEF Holding
<1>2. DOMAIN held = DOMAIN gists[gist] \cup {name}
  OBVIOUS
<1>3. held # <<>>
  BY <1>2
<1> HIDE DEF held
<1>4. DOMAIN gists' = GistIds /\ gists'[gist] = held
      /\ \A g \in GistIds \ {gist} : gists'[g] = gists[g]
  BY <1>1
<1>5. Created' = Created \cup {gist}
  BY <1>3, <1>4 DEF Created, GistIds
<1> QED
  BY <1>2, <1>4, <1>5

LEMMA RecordedConf ==
    ASSUME NEW conf \in GistConf, NEW name \in Names, NEW gist \in GistIds
    PROVE  Recorded(conf, name, gist) \in GistConf
<1>1. [conf EXCEPT !.token = FALSE, !.gist = NoGist, !.sections = @ \cup {name}] \in GistConf
  BY DEF GistConf
<1>2. [conf EXCEPT !.gist = gist, !.sections = @ \cup {name}] \in GistConf
  BY DEF GistConf
<1> QED
  BY <1>1, <1>2 DEF Recorded

LEMMA ShapeStep == GistShape /\ [GistNext]_gistVars => GistShape'
<1> SUFFICES ASSUME GistShape, [GistNext]_gistVars PROVE GistShape'
  OBVIOUS
<1> USE DEF UploadStep, Step
<1>1. CASE UNCHANGED gistVars
  BY <1>1 DEF gistVars, GistShape, GistIds, GistConf
<1>2. ASSUME NEW u \in Uploads, NEW name \in Names, GistRead(u, name) PROVE GistShape'
  BY <1>2 DEF GistRead, GistShape, GistConf
<1>3. ASSUME NEW u \in Uploads, GistCreate(u) PROVE GistShape'
  <2>1. PICK g \in GistIds \ Created :
          gists' = Holding(g, up[u].name, u) /\ up' = [up EXCEPT ![u].step = "record", ![u].gist = g]
    BY <1>3 DEF GistCreate
  <2>2. gconf' = gconf /\ up[u].name \in Names
    BY <1>3 DEF GistCreate, GistShape
  <2>3. DOMAIN gists' = GistIds
    BY <2>1, HoldingCreates DEF GistShape
  <2> QED
    BY <2>1, <2>2, <2>3, ZenonT(60) DEF GistShape
<1>4. ASSUME NEW u \in Uploads, GistUpdate(u) PROVE GistShape'
  <2>1. up[u].gist \in GistIds /\ up[u].name \in Names
    BY <1>4 DEF GistUpdate, GistShape
  <2>2. DOMAIN gists' = GistIds
    BY <1>4, <2>1, HoldingCreates DEF GistUpdate, GistShape
  <2>3. up' = [up EXCEPT ![u].step = "record"] /\ gconf' = gconf
    BY <1>4 DEF GistUpdate
  <2> QED
    BY <2>1, <2>2, <2>3 DEF GistShape
<1>5. ASSUME NEW u \in Uploads, GistRefused(u) \/ GistAnswerLost(u) \/ GistWriteFails(u) PROVE GistShape'
  BY <1>5 DEF GistRefused, GistAnswerLost, GistWriteFails, GistShape
<1>6. ASSUME NEW u \in Uploads, GistTruncate(u) PROVE GistShape'
  BY <1>6 DEF GistTruncate, GistShape, EmptyConf, GistConf
<1>7. ASSUME NEW u \in Uploads, GistWrite(u) PROVE GistShape'
  <2>1. up[u].read \in GistConf /\ up[u].gist \in GistIds /\ up[u].name \in Names
    BY <1>7 DEF GistWrite, GistShape
  <2>2. gconf' \in GistConf
    BY <1>7, <2>1, RecordedConf DEF GistWrite
  <2>3. up' = [up EXCEPT ![u].step = "done"] /\ gists' = gists
    BY <1>7 DEF GistWrite
  <2> QED
    BY <2>1, <2>2, <2>3 DEF GistShape
<1> QED
  BY <1>1, <1>2, <1>3, <1>4, <1>5, <1>6, <1>7 DEF GistNext

\* A handler that stops running leaves the rest as it was, and the file is as the
\* next one may find it.
LEMMA OneGistStep == Quiet /\ [GistNext]_gistVars => Quiet'
<1> SUFFICES ASSUME Quiet, [GistNext]_gistVars PROVE Quiet'
  OBVIOUS
<1>1. GistShape /\ GistShape'
  BY ShapeStep DEF Quiet
<1>2. SUFFICES ASSUME ~disturbed' PROVE OneGist'
  BY <1>1 DEF Quiet
<1> USE DEF Runs, OnRecord, Step
<1>3. CASE UNCHANGED gistVars
  BY <1>2, <1>3 DEF gistVars, Quiet, OneGist, Created, GistIds
<1>4. ASSUME NEW u \in Uploads, NEW name \in Names, GistRead(u, name) PROVE OneGist'
  <2>1. OneGist /\ name # "common" /\ \A v \in Uploads : ~Runs(v)
    BY <1>2, <1>4, Zenon DEF GistRead, Quiet, Running
  <2>2. gists' = gists /\ gconf' = gconf /\ Created' = Created
    BY <1>4 DEF GistRead, Created, GistIds
  <2>3. PICK next \in {"send", "failed"} :
          up' = [up EXCEPT ![u] = [step |-> next, name |-> name, read |-> gconf, gist |-> gconf.gist]]
    BY <1>4 DEF GistRead
  <2>4. \A v \in Uploads \ {u} : up'[v] = up[v]
    BY <1>1, <2>3 DEF GistShape
  <2>5. up'[u] = [step |-> next, name |-> name, read |-> gconf, gist |-> gconf.gist]
    BY <1>1, <2>3 DEF GistShape
  <2> QED
    BY <2>1, <2>2, <2>4, <2>5 DEF OneGist
<1>5. ASSUME NEW u \in Uploads, GistCreate(u) PROVE OneGist'
  <2>1. OneGist /\ up[u].step = "send" /\ up[u].gist = NoGist /\ gconf' = gconf
    BY <1>2, <1>5 DEF GistCreate, Quiet
  <2>2. PICK g \in GistIds \ Created :
          gists' = Holding(g, up[u].name, u) /\ up' = [up EXCEPT ![u].step = "record", ![u].gist = g]
    BY <1>5 DEF GistCreate
  <2>3. Created = {} /\ up[u].read = gconf
    BY <2>1 DEF OneGist
  <2>4. Created' = {g} /\ up[u].name \in DOMAIN gists'[g]
    BY <1>1, <2>2, <2>3, HoldingCreates DEF GistShape
  <2>5. \A v \in Uploads \ {u} : up'[v] = up[v] /\ up[v].step \notin {"send", "record", "write", "done"}
    BY <1>1, <2>1, <2>2, <2>3 DEF GistShape, OneGist
  <2>6. up'[u] = [up[u] EXCEPT !.step = "record", !.gist = g]
    BY <1>1, <2>2 DEF GistShape
  <2>7. up'[u].step = "record" /\ up'[u].gist = g /\ up'[u].name = up[u].name
    BY <1>1, <2>6 DEF GistShape
  <2> QED
    BY <2>1, <2>4, <2>5, <2>7 DEF OneGist
<1>6. ASSUME NEW u \in Uploads, GistUpdate(u) PROVE OneGist'
  <2>1. OneGist /\ up[u].step = "send" /\ up[u].gist # NoGist /\ gconf' = gconf
    BY <1>2, <1>6 DEF GistUpdate, Quiet
  <2>2. gists' = Holding(up[u].gist, up[u].name, u) /\ up' = [up EXCEPT ![u].step = "record"]
    BY <1>6 DEF GistUpdate
  <2>3. Created = {up[u].gist} /\ up[u].gist \in GistIds /\ up[u].read = gconf
    BY <1>1, <2>1 DEF OneGist, GistShape
  <2>4. Created' = Created /\ up[u].name \in DOMAIN gists'[up[u].gist]
        /\ \A g \in GistIds : DOMAIN gists[g] \subseteq DOMAIN gists'[g]
    BY <1>1, <2>2, <2>3, HoldingCreates DEF GistShape
  <2>5. \A v \in Uploads \ {u} : up'[v] = up[v] /\ ~Runs(v)
    BY <1>1, <2>1, <2>2 DEF GistShape, OneGist
  <2>6. up'[u] = [up[u] EXCEPT !.step = "record"]
    BY <1>1, <2>2 DEF GistShape
  <2>7. up'[u].step = "record" /\ up'[u].gist = up[u].gist /\ up'[u].name = up[u].name
        /\ up'[u].read = up[u].read
    BY <1>1, <2>6 DEF GistShape
  <2>8. \A v \in Uploads : up[v].step = "done" =>
          up[v].gist \in GistIds /\ up[v].name \in DOMAIN gists'[up[v].gist] /\ up[v].name \in gconf.sections
    BY <1>1, <2>1, <2>3, <2>4 DEF OneGist, GistShape
  <2> QED
    BY <2>1, <2>3, <2>4, <2>5, <2>7, <2>8 DEF OneGist
<1>7. ASSUME NEW u \in Uploads, GistRefused(u) PROVE OneGist'
  <2>1. OneGist /\ up[u].step = "send" /\ up' = [up EXCEPT ![u].step = "failed"]
        /\ UNCHANGED <<gconf, gists>>
    BY <1>2, <1>7 DEF GistRefused, Quiet
  <2>2. Created' = Created
    BY <2>1 DEF Created, GistIds
  <2>3. \A v \in Uploads \ {u} : up'[v] = up[v] /\ ~Runs(v)
    BY <1>1, <2>1 DEF GistShape, OneGist
  <2>4. up'[u].step = "failed" /\ up[u].read = gconf /\ OnRecord(gconf)
    BY <1>1, <2>1 DEF GistShape, OneGist
  <2> QED
    BY <2>1, <2>2, <2>3, <2>4, ZenonT(60) DEF OneGist
<1>8. ASSUME NEW u \in Uploads, GistTruncate(u) PROVE OneGist'
  <2>1. OneGist /\ up[u].step = "record" /\ up' = [up EXCEPT ![u].step = "write"] /\ gists' = gists
    BY <1>2, <1>8 DEF GistTruncate, Quiet
  <2>2. Created' = Created
    BY <2>1 DEF Created, GistIds
  <2>3. \A v \in Uploads \ {u} : up'[v] = up[v] /\ ~Runs(v)
    BY <1>1, <2>1 DEF GistShape, OneGist
  <2>4. up'[u] = [up[u] EXCEPT !.step = "write"]
    BY <1>1, <2>1 DEF GistShape
  <2>5. up'[u].step = "write" /\ up'[u].gist = up[u].gist /\ up'[u].name = up[u].name
        /\ up'[u].read = up[u].read
    BY <1>1, <2>4 DEF GistShape
  <2> QED
    BY <2>1, <2>2, <2>3, <2>5 DEF OneGist
<1>9. ASSUME NEW u \in Uploads, GistWrite(u) PROVE OneGist'
  <2>1. OneGist /\ up[u].step = "write" /\ up' = [up EXCEPT ![u].step = "done"] /\ gists' = gists
        /\ gconf' = Recorded(up[u].read, up[u].name, up[u].gist)
    BY <1>2, <1>9 DEF GistWrite, Quiet
  <2>2. Created' = Created /\ Created = {up[u].gist} /\ up[u].gist # NoGist
    BY <1>1, <2>1 DEF Created, GistIds, OneGist, GistShape, NoGist
  <2>3. \A v \in Uploads \ {u} : up'[v] = up[v] /\ ~Runs(v)
    BY <1>1, <2>1 DEF GistShape, OneGist
  <2>4. up'[u] = [up[u] EXCEPT !.step = "done"]
    BY <1>1, <2>1 DEF GistShape
  <2>5. up'[u].step = "done" /\ up'[u].gist = up[u].gist /\ up'[u].name = up[u].name
    BY <1>1, <2>4 DEF GistShape
  <2>6. up[u].name # "common" /\ up[u].read \in GistConf
    BY <1>1, <2>1 DEF OneGist, GistShape
  <2>7. gconf'.gist = up[u].gist /\ gconf'.sections = up[u].read.sections \cup {up[u].name}
    BY <2>1, <2>6 DEF Recorded, GistConf
  <2> QED
    BY <2>1, <2>2, <2>3, <2>5, <2>7, SMTT(30) DEF OneGist
<1>10. ASSUME NEW u \in Uploads, GistAnswerLost(u) \/ GistWriteFails(u) PROVE OneGist'
  BY <1>2, <1>10 DEF GistAnswerLost, GistWriteFails
<1> QED
  BY <1>3, <1>4, <1>5, <1>6, <1>7, <1>8, <1>9, <1>10 DEF GistNext

LEMMA QuietInit == GistInit => Quiet
<1> SUFFICES ASSUME GistInit PROVE Quiet
  OBVIOUS
<1>1. Created = {}
  BY DEF GistInit, Created
<1>2. \A u \in Uploads : up[u] = NoUpload
  BY DEF GistInit
<1>3. GistShape
  BY DEF GistInit, GistShape, GistConf, EmptyConf, NoUpload, UploadStep
<1>4. OneGist
  BY <1>1, <1>2 DEF GistInit, OneGist, Runs, OnRecord, EmptyConf, NoUpload
<1> QED
  BY <1>3, <1>4 DEF Quiet

\* Whatever number of handlers upload, under any names: as long as they follow one
\* another and what they do is recorded, there is one gist, the file names it, and
\* it holds all that was uploaded (upload_gist).
THEOREM OneGistOnly == GistSpec => []QuietUploadsShareOneGist
<1>1. Quiet => QuietUploadsShareOneGist
  <2> SUFFICES ASSUME GistShape, OneGist PROVE QuietUploadsShareOneGist
    BY DEF Quiet, QuietUploadsShareOneGist
  <2>1. \E c : Created \subseteq {c}
    <3>1. CASE \A v \in Uploads : ~Runs(v)
      BY <3>1 DEF OneGist, OnRecord
    <3>2. CASE \E v \in Uploads : Runs(v)
      BY <3>2 DEF OneGist, OnRecord, Runs
    <3> QED
      BY <3>1, <3>2
  <2>2. Created = {} \/ \E c : Created = {c}
    BY <2>1
  <2>3. Cardinality(Created) <= 1
    <3>1. CASE Created = {}
      BY <3>1, FS_EmptySet
    <3>2. ASSUME NEW c, Created = {c} PROVE Cardinality(Created) = 1
      BY <3>2, FS_Singleton
    <3> QED
      BY <2>2, <3>1, <3>2
  <2>4. Running = {} => \A v \in Uploads : ~Runs(v)
    BY DEF Running, Runs
  <2>5. ASSUME NEW u \in Uploads, up[u].step = "done"
        PROVE  /\ up[u].name \in DOMAIN gists[up[u].gist]
               /\ Running = {} => gconf.gist = up[u].gist /\ up[u].name \in gconf.sections
    BY <2>4, <2>5 DEF OneGist, OnRecord
  <2> QED
    BY <2>3, <2>5 DEF QuietUploadsShareOneGist
<1> QED
  BY <1>1, QuietInit, OneGistStep, PTL DEF GistSpec

-----------------------------------------------------------------------------
\* Levels of imports.  A text imports something if and only if it includes something.
LEMMA NothingLeft ==
    ASSUME NEW t \in Seq(Line)
    PROVE  /\ ImportRefs(t) = {} <=> Includes(t) = {}
           /\ Includes(t) \subseteq Inclusion
           /\ \A inc \in Includes(t) : inc.ref \in ImportRefs(t)
<1>1. \A i \in DOMAIN t : t[i] \in Line
  OBVIOUS
<1>2. \A i \in LineImports(t) \cup TableImports(t) : i \in DOMAIN t /\ t[i].ref \in References
  BY <1>1, LineKinds, TablesAreFiles DEF LineImports, TableImports
<1>3. ASSUME NEW inc \in Includes(t) PROVE inc \in Inclusion /\ inc.ref \in ImportRefs(t)
  <2>1. PICK i \in DOMAIN t : Brings(t, i, inc)
    BY <1>3, IncludesIff
  <2>2. i \in LineImports(t) \cup TableImports(t) /\ inc.how \in {"ini", "yaml", "table"} /\ inc.ref = t[i].ref
        /\ inc = [how |-> inc.how, ref |-> inc.ref]
    BY <2>1 DEF Brings, LineImports, TableImports
  <2> QED
    BY <1>2, <2>2 DEF Inclusion, ImportRefs
<1>4. ASSUME ImportRefs(t) # {} PROVE Includes(t) # {}
  <2>1. PICK i : i \in LineImports(t) \cup TableImports(t)
    BY <1>4 DEF ImportRefs
  <2>2. CASE i \in LineImports(t)
    BY <2>2 DEF Includes
  <2>3. CASE i \in TableImports(t)
    <3> DEFINE B == BlockImports(t, i)
               k == Min(B)
    <3>1. i \in B /\ B \subseteq Nat
      BY <2>3 DEF BlockImports, TableImports
    <3>2. k \in B /\ \A j \in B : k <= j
      <4> HIDE DEF B
      <4> QED
        BY <3>1, Smallest
    <3> HIDE DEF k
    <3>3. k \in TableImports(t) /\ BlockStart(t, k) = BlockStart(t, i)
      BY <3>2 DEF BlockImports, TableImports
    <3>4. BlockImports(t, k) = B
      BY <3>3 DEF BlockImports
    <3>5. FirstOfTable(t, k)
      BY <3>2, <3>4 DEF FirstOfTable
    <3> QED
      BY <3>3, <3>5 DEF Includes
  <2> QED
    BY <2>1, <2>2, <2>3
<1> QED
  BY <1>3, <1>4

Pad(lib) == [r \in References |-> IF r \in DOMAIN lib THEN lib[r] ELSE <<>>]

LEMMA PadIncluded ==
    ASSUME NEW lib, ImportFiles(lib)
    PROVE  /\ \A inc \in Inclusion : IncludedBy(inc, Pad(lib)) \subseteq Inclusion
           /\ \A inc \in Inclusion : inc.ref \in DOMAIN lib => IncludedBy(inc, Pad(lib)) = IncludedBy(inc, lib)
<1>1. \A r \in References : Pad(lib)[r] \in Seq(Line) /\ (r \in DOMAIN lib => Pad(lib)[r] = lib[r])
  BY DEF Pad, ImportFiles
<1>2. ASSUME NEW inc \in Inclusion PROVE IncludedBy(inc, Pad(lib)) \subseteq Inclusion
  <2> DEFINE t == Pad(lib)[inc.ref]
  <2>1. t \in Seq(Line)
    BY <1>1 DEF Inclusion
  <2> HIDE DEF t
  <2>2. Includes(t) \subseteq Inclusion
    BY <2>1, NothingLeft
  <2>3. \A i \in DOMAIN t : t[i].kind = "bare" => [how |-> "ini", ref |-> t[i].ref] \in Inclusion
    BY <2>1, LineKinds DEF Inclusion
  <2> QED
    BY <2>2, <2>3 DEF IncludedBy, t
<1>3. ASSUME NEW inc \in Inclusion, inc.ref \in DOMAIN lib
      PROVE  IncludedBy(inc, Pad(lib)) = IncludedBy(inc, lib)
  <2>1. Pad(lib)[inc.ref] = lib[inc.ref]
    BY <1>1, <1>3 DEF Inclusion
  <2> QED
    BY <2>1 DEF IncludedBy
<1> QED
  BY <1>2, <1>3

IsLevels(f, t, lib, depth) ==
    f = [n \in 0..depth |-> IF n = 0 THEN Includes(t) ELSE UNION {IncludedBy(inc, lib) : inc \in f[n - 1]}]

Deeper(V, lib) == UNION {IncludedBy(inc, lib) : inc \in V}

LEMMA Levels ==
    ASSUME NEW t \in Seq(Line), NEW lib, ImportFiles(lib), NEW depth \in Nat
    PROVE  /\ Level(t, Pad(lib), depth)[0] = Includes(t)
           /\ \A n \in 1..depth : Level(t, Pad(lib), depth)[n] = Deeper(Level(t, Pad(lib), depth)[n - 1], Pad(lib))
<1> DEFINE V == SUBSET Inclusion
           acts == [n \in 1..depth |-> [I \in V |-> Deeper(I, Pad(lib))]]
<1>1. \A I \in V : Deeper(I, Pad(lib)) \in V
  BY PadIncluded DEF Deeper
<1>2. Includes(t) \in V
  BY NothingLeft
<1> HIDE DEF V
<1>3. IsStep(acts, depth, V) /\ \A n \in 1..depth : \A I \in V : acts[n][I] = Deeper(I, Pad(lib))
  BY <1>1 DEF IsStep
<1> HIDE DEF acts
<1>4. PICK f : IsCarried(f, depth, V, Includes(t), acts)
  BY <1>2, <1>3, Recursion
<1>5. f \in [0..depth -> V] /\ f[0] = Includes(t) /\ \A n \in 1..depth : f[n] = acts[n][f[n - 1]]
  BY <1>4 DEF IsCarried
<1>6. \A n \in 0..depth : f[n] = IF n = 0 THEN Includes(t) ELSE Deeper(f[n - 1], Pad(lib))
  <2> TAKE n \in 0..depth
  <2>1. CASE n = 0
    BY <1>5, <2>1
  <2>2. CASE n # 0
    <3>1. n \in 1..depth /\ n - 1 \in 0..depth
      BY <2>2
    <3> QED
      BY <1>3, <1>5, <2>2, <3>1
  <2> QED
    BY <2>1, <2>2
<1>7. f = [n \in 0..depth |-> IF n = 0 THEN Includes(t) ELSE Deeper(f[n - 1], Pad(lib))]
  BY <1>5, <1>6
<1>8. IsLevels(f, t, Pad(lib), depth)
  BY <1>7 DEF IsLevels, Deeper
<1> DEFINE level == CHOOSE g : IsLevels(g, t, Pad(lib), depth)
<1>9. IsLevels(level, t, Pad(lib), depth)
  BY <1>8
<1>10. Level(t, Pad(lib), depth) = level
  BY DEF Level, IsLevels
<1> HIDE DEF level
<1>11. \A n \in 0..depth : level[n] = IF n = 0 THEN Includes(t) ELSE Deeper(level[n - 1], Pad(lib))
  BY <1>9 DEF IsLevels, Deeper
<1>12. 0 \in 0..depth /\ \A n \in 1..depth : n \in 0..depth /\ n # 0
  OBVIOUS
<1> QED
  BY <1>10, <1>11, <1>12

\* Below a level without imports there are none.
LEMMA LevelsEnd ==
    ASSUME NEW t \in Seq(Line), NEW lib, ImportFiles(lib), NEW depth \in Nat,
           NEW n \in 0..depth, Level(t, Pad(lib), depth)[n] = {}
    PROVE  Level(t, Pad(lib), depth)[depth] = {}
<1> DEFINE L == Level(t, Pad(lib), depth)
           T == {m \in Nat : n + m <= depth => L[n + m] = {}}
<1>1. \A m \in 1..depth : L[m] = Deeper(L[m - 1], Pad(lib))
  BY Levels
<1> HIDE DEF L
<1>2. 0 \in T
  BY DEF L
<1>3. ASSUME NEW m \in Nat, m \in T PROVE m + 1 \in T
  <2> SUFFICES ASSUME n + (m + 1) <= depth PROVE L[n + (m + 1)] = {}
    OBVIOUS
  <2>1. n + (m + 1) \in 1..depth /\ (n + (m + 1)) - 1 = n + m /\ n + m <= depth
    OBVIOUS
  <2>2. L[n + (m + 1)] = Deeper(L[n + m], Pad(lib)) /\ L[n + m] = {}
    BY <1>1, <1>3, <2>1
  <2> QED
    BY <2>2 DEF Deeper
<1>4. Nat \subseteq T
  <2> HIDE DEF T
  <2> QED
    BY <1>2, <1>3, NatSet
<1> DEFINE rest == depth - n
<1>5. rest \in Nat /\ n + rest = depth /\ depth <= depth
  OBVIOUS
<1> HIDE DEF rest
<1>6. L[n + rest] = {}
  BY <1>4, <1>5
<1> QED
  BY <1>5, <1>6 DEF L

\* A text after n rounds: it includes what is n levels below the first one, and each
\* round had something to do.
Rounds(first, t, n, lib, limit) ==
    /\ t \in Seq(Line) /\ n \in 0..limit
    /\ n # limit => Includes(t) = Level(first, Pad(lib), limit - 1)[n]
    /\ n # 0 => Level(first, Pad(lib), limit - 1)[n - 1] # {}

LEMMA RoundsFacts ==
    ASSUME NEW first \in Seq(Line), NEW lib, ImportFiles(lib), NEW limit \in Nat \ {0}
    PROVE  /\ Rounds(first, first, 0, lib, limit)
           /\ \A t, n : Rounds(first, t, n, lib, limit) /\ n # limit /\ ImportRefs(t) # {}
                          /\ ImportRefs(t) \subseteq DOMAIN lib
                          => Rounds(first, ExpandImports(t, lib), n + 1, lib, limit)
           /\ \A t, n : Rounds(first, t, n, lib, limit) /\ n # limit /\ ImportRefs(t) = {}
                          => Level(first, Pad(lib), limit - 1)[limit - 1] = {}
           /\ \A t, n : Rounds(first, t, n, lib, limit) /\ n = limit
                          => Level(first, Pad(lib), limit - 1)[limit - 1] # {}
<1> DEFINE depth == limit - 1
           L == Level(first, Pad(lib), depth)
<1>1. depth \in Nat /\ limit = depth + 1
  OBVIOUS
<1>2. L[0] = Includes(first) /\ \A n \in 1..depth : L[n] = Deeper(L[n - 1], Pad(lib))
  BY <1>1, Levels
<1>3. \A n \in 0..depth : L[n] = {} => L[depth] = {}
  BY <1>1, LevelsEnd
<1> HIDE DEF L
<1>4. Rounds(first, first, 0, lib, limit)
  BY <1>1, <1>2 DEF Rounds, L
<1>5. ASSUME NEW t, NEW n, Rounds(first, t, n, lib, limit), n # limit, ImportRefs(t) # {},
             ImportRefs(t) \subseteq DOMAIN lib
      PROVE  Rounds(first, ExpandImports(t, lib), n + 1, lib, limit)
  <2>1. t \in Seq(Line) /\ n \in 0..depth /\ Includes(t) = L[n]
    BY <1>1, <1>5 DEF Rounds, L
  <2>2. Readable(t, lib)
    BY <1>5, <2>1 DEF Readable
  <2>3. /\ ExpandImports(t, lib) \in Seq(Line)
        /\ Includes(ExpandImports(t, lib)) = UNION {IncludedBy(inc, lib) : inc \in Includes(t)}
    BY <2>2, RoundOfImports
  <2>4. \A inc \in Includes(t) : IncludedBy(inc, Pad(lib)) = IncludedBy(inc, lib)
    BY <1>5, <2>1, NothingLeft, PadIncluded
  <2>5. Includes(ExpandImports(t, lib)) = Deeper(L[n], Pad(lib))
    BY <2>1, <2>3, <2>4 DEF Deeper
  <2>6. L[n] # {}
    BY <1>5, <2>1, NothingLeft
  <2>7. n + 1 \in 0..limit /\ (n + 1) - 1 = n /\ (n + 1 # limit => n + 1 \in 1..depth)
    BY <1>1, <2>1
  <2>8. n + 1 # limit => Includes(ExpandImports(t, lib)) = L[n + 1]
    BY <1>2, <2>5, <2>7
  <2> QED
    BY <2>3, <2>6, <2>7, <2>8 DEF Rounds, L
<1>6. ASSUME NEW t, NEW n, Rounds(first, t, n, lib, limit), n # limit, ImportRefs(t) = {}
      PROVE  L[depth] = {}
  <2>1. t \in Seq(Line) /\ n \in 0..depth /\ Includes(t) = L[n]
    BY <1>1, <1>6 DEF Rounds, L
  <2>2. L[n] = {}
    BY <1>6, <2>1, NothingLeft
  <2> QED
    BY <1>3, <2>1, <2>2
<1>7. ASSUME NEW t, NEW n, Rounds(first, t, n, lib, limit), n = limit PROVE L[depth] # {}
  BY <1>1, <1>7 DEF Rounds, L
<1> QED
  BY <1>4, <1>5, <1>6, <1>7 DEF L

\* CommandLine's two loops over the imports of the pref file.
LEMMA OneRound ==
    ASSUME NEW t, NEW lib, Readable(t, lib)
    PROVE  /\ ExpandImports(t, lib) \in Seq(Line)
           /\ Includes(ExpandImports(t, lib)) = Level(t, Pad(lib), 1)[1]
<1>1. t \in Seq(Line) /\ ImportFiles(lib) /\ ImportRefs(t) \subseteq DOMAIN lib
  BY DEF Readable
<1>2. Level(t, Pad(lib), 1)[1] = Deeper(Includes(t), Pad(lib))
  <2>1. 1 \in Nat /\ 1 \in 1..1 /\ 1 - 1 = 0
    OBVIOUS
  <2> QED
    BY <1>1, <2>1, Levels
<1>3. \A inc \in Includes(t) : IncludedBy(inc, Pad(lib)) = IncludedBy(inc, lib)
  BY <1>1, NothingLeft, PadIncluded
<1>4. Deeper(Includes(t), Pad(lib)) = Deeper(Includes(t), lib)
  BY <1>3 DEF Deeper
<1>5. ExpandImports(t, lib) \in Seq(Line) /\ Includes(ExpandImports(t, lib)) = Deeper(Includes(t), lib)
  BY RoundOfImports DEF Deeper
<1> QED
  BY <1>2, <1>4, <1>5

PrefLimit == Level(cli.text, Pad(PrefFiles), PrefRounds - 1)[PrefRounds - 1]

PrefRun ==
    /\ cli \in Invocation /\ pref \in Seq(Line) /\ rounds \in 0..PrefRounds /\ offered \in 1..Versions
    /\ cli.program = "cli" =>
        /\ stage \in {"pref", "convert", "done", "failed"}
        /\ stage = "pref" => pref = cli.text
        /\ stage \in {"convert", "done"} => Includes(pref) = Level(cli.text, Pad(PrefFiles), 1)[1]
    /\ cli.program = "worker" =>
        /\ stage \in {"pref", "settings", "defaults"}
        /\ rendered = <<>> /\ files = <<>> /\ printed = <<>>
        /\ stage = "pref" => Rounds(cli.text, pref, rounds, PrefFiles, PrefRounds)
        /\ stage = "settings" => PrefLimit = {}
        /\ stage = "defaults" => PrefLimit # {} \/ Absent # {}

LEMMA InvocationText == ASSUME cli \in Invocation PROVE cli.text \in Seq(Line) /\ cli.program \in {"cli", "worker"}
BY PrefsCanBeRead DEF Invocation

LEMMA PrefRunStep == PrefRun /\ [CliNext]_cliVars => PrefRun'
<1> SUFFICES ASSUME PrefRun, [CliNext]_cliVars PROVE PrefRun'
  OBVIOUS
<1>1. cli' = cli /\ PrefLimit' = PrefLimit
  BY DEF CliNext, cliVars, CliPref, WorkerPref, ConvertNext, ConvertFails, Finish, Republish, PrefLimit
<1>2. /\ cli.text \in Seq(Line) /\ cli.program \in {"cli", "worker"}
      /\ ImportFiles(PrefFiles) /\ PrefRounds \in Nat \ {0}
  BY InvocationText, PrefsCanBeRead, PrefRoundsNat DEF PrefRun
<1>3. CASE UNCHANGED cliVars
  BY <1>1, <1>3 DEF cliVars, PrefRun, Absent, Imported
<1>4. CASE CliPref
  <2>1. cli.program = "cli" /\ stage = "pref" /\ offered' = offered /\ pref = cli.text
    BY <1>4, Zenon DEF CliPref, PrefRun
  <2>2. CASE Absent # {}
    BY <1>1, <1>4, <2>1, <2>2 DEF CliPref, PrefRun
  <2>3. CASE Absent = {}
    <3>1. stage' = "convert" /\ pref' = ExpandImports(pref, PrefFiles) /\ rounds' = 1
      BY <1>4, <2>3 DEF CliPref
    <3>2. Readable(pref, PrefFiles)
      BY <1>2, <2>1, <2>3 DEF Readable, Absent, Imported
    <3>3. pref' \in Seq(Line) /\ Includes(pref') = Level(cli.text, Pad(PrefFiles), 1)[1]
      BY <2>1, <3>1, <3>2, OneRound
    <3>4. 1 \in 0..PrefRounds
      BY <1>2
    <3> QED
      BY <1>1, <2>1, <3>1, <3>3, <3>4 DEF PrefRun
  <2> QED
    BY <2>2, <2>3
<1>5. CASE WorkerPref
  <2>1. /\ cli.program = "worker" /\ stage = "pref" /\ UNCHANGED <<offered, rendered, files, printed>>
        /\ Rounds(cli.text, pref, rounds, PrefFiles, PrefRounds)
    BY <1>5, Zenon DEF WorkerPref, PrefRun
  <2>2. CASE LastRound \/ (Imported # {} /\ Absent # {})
    <3>1. stage' = "defaults" /\ UNCHANGED <<pref, rounds>>
      BY <1>5, <2>2 DEF WorkerPref
    <3>2. PrefLimit # {} \/ Absent # {}
      BY <1>2, <2>1, <2>2, RoundsFacts DEF LastRound, PrefLimit
    <3>3. Absent' = Absent
      BY <3>1 DEF Absent, Imported
    <3> QED
      BY <1>1, <2>1, <3>1, <3>2, <3>3 DEF PrefRun
  <2>3. CASE ~LastRound /\ Imported = {}
    <3>1. stage' = "settings" /\ UNCHANGED <<pref, rounds>>
      BY <1>5, <2>3 DEF WorkerPref
    <3>2. PrefLimit = {}
      BY <1>2, <2>1, <2>3, RoundsFacts DEF LastRound, PrefLimit, Imported
    <3> QED
      BY <1>1, <2>1, <3>1, <3>2 DEF PrefRun
  <2>4. CASE ~LastRound /\ Imported # {} /\ Absent = {}
    <3>1. pref' = ExpandImports(pref, PrefFiles) /\ rounds' = rounds + 1 /\ stage' = stage
      BY <1>5, <2>4, Zenon DEF WorkerPref
    <3>2. Rounds(cli.text, pref', rounds', PrefFiles, PrefRounds)
      BY <1>2, <2>1, <2>4, <3>1, RoundsFacts DEF LastRound, Imported, Absent
    <3>3. pref' \in Seq(Line) /\ rounds' \in 0..PrefRounds
      BY <3>2 DEF Rounds
    <3> QED
      BY <1>1, <2>1, <3>1, <3>2, <3>3 DEF PrefRun
  <2> QED
    BY <2>2, <2>3, <2>4
<1>6. CASE ConvertNext \/ ConvertFails \/ Finish \/ Republish
  <2>1. /\ stage = "convert" /\ stage' \in {"convert", "done", "failed"}
        /\ UNCHANGED <<pref, rounds>>
        /\ offered' = offered \/ (offered < Versions /\ offered' = offered + 1)
    BY <1>6, Zenon DEF ConvertNext, ConvertFails, Finish, Republish
  <2>2. cli.program = "cli"
    BY <1>2, <2>1 DEF PrefRun
  <2>3. offered' \in 1..Versions
    BY <2>1, PrefRoundsNat DEF PrefRun
  <2> QED
    BY <1>1, <2>1, <2>2, <2>3 DEF PrefRun
<1> QED
  BY <1>3, <1>4, <1>5, <1>6 DEF CliNext

LEMMA PrefRunInit == CliInit => PrefRun
<1> SUFFICES ASSUME CliInit PROVE PrefRun
  OBVIOUS
<1>1. cli.text \in Seq(Line) /\ cli.program \in {"cli", "worker"}
  BY InvocationText DEF CliInit
<1>2. Rounds(cli.text, cli.text, 0, PrefFiles, PrefRounds)
  BY <1>1, PrefsCanBeRead, PrefRoundsNat, RoundsFacts
<1> QED
  BY <1>1, <1>2, PrefRoundsNat DEF CliInit, PrefRun

LEMMA PrefRunDepth == ASSUME PrefRun PROVE PrefDepth
<1>1. PrefLevel(1) = Level(cli.text, Pad(PrefFiles), 1)[1] /\ PrefLevel(PrefRounds - 1) = PrefLimit
  BY DEF PrefLevel, PrefLimit, Pad
<1>2. cli.program \in {"cli", "worker"}
  BY InvocationText DEF PrefRun
<1>3. ImportRefs(pref) = {} <=> Includes(pref) = {}
  BY NothingLeft DEF PrefRun
<1>4. stage \in {"convert", "done"} => (ImportRefs(pref) = {} <=> PrefLevel(1) = {})
  BY <1>1, <1>2, <1>3 DEF PrefRun
<1>5. stage = "settings" => PrefLevel(PrefRounds - 1) = {}
  BY <1>1, <1>2 DEF PrefRun
<1>6. stage = "defaults" => PrefLevel(PrefRounds - 1) # {} \/ Absent # {}
  BY <1>1, <1>2 DEF PrefRun
<1> QED
  BY <1>4, <1>5, <1>6 DEF PrefDepth

LEMMA PrefRunType == ASSUME PrefRun, RunOfCli PROVE CliTypeOK
<1>1. cli.program \in {"cli", "worker"}
  BY InvocationText DEF PrefRun
<1>2. CASE cli.program = "worker"
  BY <1>2 DEF PrefRun, CliTypeOK
<1>3. CASE cli.program = "cli"
  <2>1. rendered \in Seq(Result)
    BY <1>3 DEF RunOfCli, Ordered
  <2>2. /\ files = rendered \/ files = <<>>
        /\ printed = rendered \/ printed = <<>>
    BY <1>3 DEF RunOfCli
  <2>3. Len(files) <= Len(rendered) /\ Len(printed) <= Len(rendered)
    BY <2>1, <2>2
  <2> QED
    BY <1>3, <2>3 DEF PrefRun, CliTypeOK
<1> QED
  BY <1>1, <1>2, <1>3

-----------------------------------------------------------------------------
\* What the edge's fetch and the uploads to a gist keep of their types.
EdgeOutcome == result \in {"none", "content", "failed", "forbidden", "too large"} /\ kv \in BOOLEAN

LEMMA EdgeOutcomeStep == EdgeOutcome /\ [EdgeNext]_edgeVars => EdgeOutcome'
<1> SUFFICES ASSUME EdgeOutcome, [EdgeNext]_edgeVars PROVE EdgeOutcome'
  OBVIOUS
<1>1. kv' = kv \/ kv' = TRUE
  BY Zenon DEF EdgeNext, KvHit, KvUnreadable, KvMiss, CheckUrl, SendFails, Redirected, Received, KvStore, edgeVars
<1>2. kv' \in BOOLEAN
  BY <1>1, Zenon DEF EdgeOutcome
<1>3. result' = result \/ result' \in {"content", "failed", "forbidden", "too large"}
  BY Zenon DEF EdgeNext, KvHit, KvUnreadable, KvMiss, CheckUrl, SendFails, Redirected, Received, KvStore, End, edgeVars
<1> QED
  BY <1>2, <1>3, Zenon DEF EdgeOutcome

LEMMA EdgeType == ASSUME Chain, EdgeOutcome PROVE EdgeTypeOK
BY Zenon DEF Chain, EdgeOutcome, EdgeTypeOK

GistFiles ==
    /\ disturbed \in BOOLEAN
    /\ \A g \in GistIds : \A n \in DOMAIN gists[g] : n \in Names /\ gists[g][n] \in Uploads

LEMMA HoldingFiles ==
    ASSUME GistFiles, DOMAIN gists = GistIds, NEW gist \in GistIds, NEW name \in Names, NEW u \in Uploads,
           gists' = Holding(gist, name, u)
    PROVE  \A g \in GistIds : \A n \in DOMAIN gists'[g] : n \in Names /\ gists'[g][n] \in Uploads
<1> DEFINE held == [n \in DOMAIN gists[gist] \cup {name} |-> IF n = name THEN u ELSE gists[gist][n]]
<1>1. gists' = [gists EXCEPT ![gist] = held]
  BY DEF Holding
<1>2. \A n \in DOMAIN held : n \in Names /\ held[n] \in Uploads
  BY DEF GistFiles
<1> HIDE DEF held
<1>3. gists'[gist] = held /\ \A g \in GistIds \ {gist} : gists'[g] = gists[g]
  BY <1>1
<1> QED
  BY <1>2, <1>3 DEF GistFiles

LEMMA GistFilesStep == GistShape /\ GistFiles /\ [GistNext]_gistVars => GistFiles'
<1> SUFFICES ASSUME GistShape, GistFiles, [GistNext]_gistVars PROVE GistFiles'
  OBVIOUS
<1>1. disturbed' \in BOOLEAN
  BY DEF GistNext, GistRead, GistCreate, GistUpdate, GistRefused, GistAnswerLost, GistTruncate, GistWrite,
     GistWriteFails, gistVars, GistFiles
<1>2. CASE gists' = gists
  BY <1>1, <1>2 DEF GistFiles, GistIds
<1>3. ASSUME NEW u \in Uploads, GistCreate(u) PROVE GistFiles'
  <2>1. PICK g \in GistIds \ Created : gists' = Holding(g, up[u].name, u)
    BY <1>3 DEF GistCreate
  <2>2. up[u].name \in Names /\ DOMAIN gists = GistIds
    BY <1>3 DEF GistCreate, GistShape
  <2> QED
    BY <1>1, <2>1, <2>2, HoldingFiles DEF GistFiles, GistIds
<1>4. ASSUME NEW u \in Uploads, GistUpdate(u) PROVE GistFiles'
  <2>1. up[u].gist \in GistIds /\ up[u].name \in Names /\ DOMAIN gists = GistIds
    BY <1>4 DEF GistUpdate, GistShape
  <2>2. gists' = Holding(up[u].gist, up[u].name, u)
    BY <1>4 DEF GistUpdate
  <2> QED
    BY <1>1, <2>1, <2>2, HoldingFiles DEF GistFiles, GistIds
<1>5. gists' = gists \/ \E u \in Uploads : GistCreate(u) \/ GistUpdate(u)
  BY DEF GistNext, GistRead, GistRefused, GistAnswerLost, GistTruncate, GistWrite, GistWriteFails, gistVars
<1> QED
  BY <1>2, <1>3, <1>4, <1>5

LEMMA GistInitFiles == GistInit => GistFiles
<1> SUFFICES ASSUME GistInit PROVE GistFiles
  OBVIOUS
<1>1. \A g \in GistIds : gists[g] = <<>>
  BY DEF GistInit
<1>2. DOMAIN <<>> = {}
  OBVIOUS
<1>3. disturbed \in BOOLEAN
  BY DEF GistInit
<1> QED
  BY <1>1, <1>2, <1>3 DEF GistFiles

LEMMA GistType == ASSUME GistShape, GistFiles PROVE GistTypeOK
BY DEF GistShape, GistFiles, GistTypeOK

-----------------------------------------------------------------------------
\* Settings and arguments keep their types when they are put over one another.
LEMMA SequenceOf ==
    ASSUME NEW S, NEW n \in Nat, NEW s, s = [i \in 1..n |-> s[i]], \A i \in 1..n : s[i] \in S
    PROVE  s \in Seq(S) /\ Len(s) = n
<1>1. s \in [1..n -> S]
  OBVIOUS
<1> QED
  BY <1>1

LEMMA NoneIsSet == IsSet(<<>>)
<1>1. DOMAIN <<>> = {}
  OBVIOUS
<1> QED
  BY <1>1 DEF IsSet

LEMMA OverArguments ==
    ASSUME NEW upper, NEW lower, IsArguments(upper), IsArguments(lower)
    PROVE  IsArguments(Over(upper, lower)) /\ \A names : IsArguments(Without(upper, names))
<1> DEFINE o == Over(upper, lower)
<1>1. DOMAIN o = DOMAIN upper \cup DOMAIN lower
      /\ \A a \in DOMAIN o : o[a] = IF a \in DOMAIN upper THEN upper[a] ELSE lower[a]
  BY DEF Over
<1>2. ASSUME NEW names PROVE IsArguments(Without(upper, names))
  <2> DEFINE w == Without(upper, names)
  <2>1. DOMAIN w \subseteq DOMAIN upper /\ \A a \in DOMAIN w : w[a] = upper[a]
    BY DEF Without
  <2> HIDE DEF w
  <2> QED
    BY <2>1 DEF IsArguments, w
<1> HIDE DEF o
<1>3. IsArguments(o)
  <2>1. "url" \in DOMAIN o => o["url"] \in Seq(SourceRef)
    BY <1>1 DEF IsArguments
  <2>2. "config" \in DOMAIN o => IsConfig(o["config"])
    BY <1>1 DEF IsArguments
  <2> QED
    BY <2>1, <2>2 DEF IsArguments
<1> QED
  BY <1>2, <1>3 DEF o

LEMMA MergedUrlsType ==
    ASSUME IsRequest(req) PROVE MergedUrls \in Seq(SourceRef)
<1> DEFINE ss == [i \in DOMAIN req.names |->
                    LET p == req.names[i] IN
                    IF p \in DOMAIN Profiles /\ "url" \in DOMAIN Profiles[p] THEN Profiles[p]["url"] ELSE <<>>]
           SS == Seq(SourceRef)
           n == Len(req.names)
<1>1. n \in Nat /\ DOMAIN req.names = 1..n
  BY DEF IsRequest
<1>2. <<>> \in SS
  OBVIOUS
<1>3. \A p \in DOMAIN Profiles : "url" \in DOMAIN Profiles[p] => Profiles[p]["url"] \in SS
  BY ProfilesAreArguments DEF IsArguments
<1> HIDE DEF SS, n
<1>4. \A i \in 1..n : ss[i] \in SS
  BY <1>1, <1>2, <1>3
<1>5. ss = [i \in 1..n |-> ss[i]]
  BY <1>1
<1>6. MergedUrls = FlattenSeq(ss)
  BY DEF MergedUrls
<1> HIDE DEF ss
<1>7. ss \in Seq(SS)
  BY <1>1, <1>4, <1>5, SequenceOf
<1> QED
  BY <1>6, <1>7, FlattenType DEF SS

LEMMA ProfileRequest ==
    ASSUME IsRequest(req), req.names[1] \in DOMAIN Profiles
    PROVE  IsArguments(Over(Without(req.args, {"token"}), Without(ProfileArgs, {"profile_token"})))
<1>1. IsArguments(req.args) /\ IsArguments(Profiles[req.names[1]])
  BY ProfilesAreArguments DEF IsRequest
<1>2. IsArguments([url |-> MergedUrls])
  BY MergedUrlsType DEF IsArguments
<1>3. IsArguments(Over([url |-> MergedUrls], Profiles[req.names[1]]))
  BY <1>1, <1>2, OverArguments
<1>4. IsArguments(ProfileArgs)
  BY <1>1, <1>3 DEF ProfileArgs
<1>5. IsArguments(Without(req.args, {"token"})) /\ IsArguments(Without(ProfileArgs, {"profile_token"}))
  BY <1>1, <1>4, OverArguments
<1> QED
  BY <1>5, OverArguments

LEMMA ConfigTextType ==
    ASSUME IsSettings(settings), IsRequest(req) PROVE IsConfig(ConfigText)
BY DEF ConfigText, IsSettings, IsRequest, IsArguments, Has, Arg

LEMMA SetsType ==
    ASSUME IsSettings(settings), IsRequest(req) PROVE IsSet(Sets)
<1> DEFINE c == ConfigText
           reset == [k \in DOMAIN c.sets |-> Defaults[k]]
<1>1. NoConfig \/ IsSet(c.sets)
  BY ConfigTextType DEF IsConfig, NoConfig
<1>2. IsSet(c.sets) => IsSet(reset)
  <2> SUFFICES ASSUME IsSet(c.sets) PROVE IsSet(reset)
    OBVIOUS
  <2>1. DOMAIN reset = DOMAIN c.sets /\ \A k \in DOMAIN c.sets : reset[k] = Defaults[k]
    OBVIOUS
  <2>2. Defaults["insertUrls"] = <<>> /\ Defaults["defaultUrls"] = <<>> /\ <<>> \in Seq(SourceRef)
    BY DEF Defaults
  <2> HIDE DEF reset
  <2> QED
    BY <2>1, <2>2 DEF IsSet
<1>3. Sets = <<>> \/ (~NoConfig /\ (Sets = c.sets \/ Sets = reset))
  BY DEF Sets
<1> HIDE DEF c, reset
<1> QED
  BY <1>1, <1>2, <1>3, NoneIsSet

LEMMA OverSet ==
    ASSUME NEW upper, NEW lower, IsSet(upper), IsSet(lower), DOMAIN lower = DOMAIN Defaults
    PROVE  /\ IsSet(Over(upper, lower)) /\ DOMAIN Over(upper, lower) = DOMAIN Defaults
           /\ \A names : IsSet(Without(upper, names))
<1> DEFINE o == Over(upper, lower)
           keys == DOMAIN Defaults
<1>1. DOMAIN o = DOMAIN upper \cup DOMAIN lower
      /\ \A a \in DOMAIN o : o[a] = IF a \in DOMAIN upper THEN upper[a] ELSE lower[a]
  BY DEF Over
<1>2. DOMAIN upper \subseteq keys /\ DOMAIN lower = keys
  BY DEF IsSet
<1>3. ASSUME NEW names PROVE IsSet(Without(upper, names))
  <2> DEFINE w == Without(upper, names)
  <2>1. DOMAIN w \subseteq DOMAIN upper /\ \A a \in DOMAIN w : w[a] = upper[a]
    BY DEF Without
  <2> HIDE DEF w
  <2> QED
    BY <2>1 DEF IsSet, w
<1> HIDE DEF o, keys
<1>4. DOMAIN o = keys
  BY <1>1, <1>2
<1>5. \A list \in DOMAIN o \cap {"insertUrls", "defaultUrls"} : o[list] \in Seq(SourceRef)
  BY <1>1, <1>2 DEF IsSet
<1> QED
  BY <1>3, <1>4, <1>5 DEF IsSet, o, keys

LEMMA OverlaidType ==
    ASSUME IsSettings(settings), IsRequest(req)
    PROVE  IsSet(Overlaid) /\ DOMAIN Overlaid = DOMAIN Defaults
<1> DEFINE sets == IF ConfigTrusted THEN Sets ELSE Without(Sets, Protected)
<1>1. IsSet(settings) /\ DOMAIN settings = DOMAIN Defaults
  BY DEF IsSettings
<1>2. IsSet(Sets) /\ IsSet(Without(Sets, Protected))
  BY <1>1, SetsType, OverSet
<1>3. IsSet(sets)
  BY <1>2
<1>4. Overlaid = Over(sets, settings)
  BY DEF Overlaid
<1> HIDE DEF sets
<1> QED
  BY <1>1, <1>3, <1>4, OverSet

-----------------------------------------------------------------------------
\* The steps of a request.  It is turned down, or answered by a route that converts
\* nothing, or goes on.
Statuses == {200, 400, 403, 404, 500, 501, 502}

Powers == {Effect(w, b) : w \in {"read", "script", "upload"}, b \in {"request", "operator", "list"}}

Answers(status, why) ==
    /\ pc' = "done" /\ answer'.status = status /\ answer'.why = why /\ status \in Statuses
    /\ UNCHANGED <<io, settings, req, text, round, eff, todo, from, got, lost>>
    /\ effects' \subseteq effects \cup Powers

Turned ==
    \E status, why : Answers(status, why) /\ why # "recursion limit" /\ (status = 200 => req.path \notin SubPaths)

GoesOn(next) ==
    /\ pc' = next /\ UNCHANGED <<io, settings, answer>>
    /\ effects' \subseteq effects \cup Powers

Turning(status, why) == status \in Statuses /\ why # "recursion limit"

LEMMA Turns ==
    ASSUME NEW status, NEW why, Turning(status, why), NEW made, Reply(status, why, made),
           status = 200 => req.path \notin SubPaths, effects' \subseteq effects \cup Powers
    PROVE  Turned
<1>1. answer'.status = status /\ answer'.why = why
  BY DEF Reply
<1>2. Answers(status, why)
  BY <1>1 DEF Answers, Reply, steady, sources, Turning
<1> QED
  BY <1>2, Zenon DEF Turned, Turning

LEMMA RefusalTurns ==
    ASSUME NEW status, NEW why, Turning(status, why), status # 200, Refuse(status, why)
    PROVE  Turned
<1>1. Reply(status, why, <<>>) /\ effects' = effects
  BY DEF Refuse
<1>2. effects' \subseteq effects \cup Powers
  BY <1>1
<1> QED
  BY <1>1, <1>2, Turns

LEMMA PowersAre ==
    /\ Effect("read", "request") \in Powers
    /\ Effect("script", "request") \in Powers
    /\ Effect("upload", "request") \in Powers
    /\ Effect("read", ConfigBy) \in Powers
    /\ \A s : SourceEffect(s) \subseteq Powers
BY DEF Powers, ConfigBy, SourceEffect

Replied(status, why) == \E made : Reply(status, why, made)

\* One of the answers of these routes.
RouteReply == \E status, why : Turning(status, why) /\ Replied(status, why)

LEMMA RepliedTurns ==
    ASSUME NEW status, NEW why, Turning(status, why), Replied(status, why),
           req.path \notin SubPaths, effects' \subseteq effects \cup Powers
    PROVE  Turned
BY Turns DEF Replied

\* With whichever content and status it replies.
LEMMA ReplyReplies ==
    ASSUME NEW status, NEW why, NEW made, Turning(status, why), Reply(status, why, made) \/ Refuse(status, why)
    PROVE  RouteReply
<1>1. \E m : Reply(status, why, m)
  BY Zenon DEF Refuse
<1> QED
  BY <1>1, Zenon DEF Replied, RouteReply

\* Each of them replies so.
LEMMA RouteReplies ==
    ASSUME GetRuleset \/ RenderTemplate \/ RawGet \/ GetLocal PROVE RouteReply
<1> DEFINE argument == Refuse(400, "argument")
           format == Refuse(400, "type")
           unfetched == Refuse(502, "fetch")
           denied == Refuse(403, "path")
           unauthorized == Refuse(403, "token")
           unrouted == Refuse(501, "route")
           hidden == Refuse(404, "api mode")
           fetched == Reply(200, "ok", <<Link>>)
           found == Reply(200, "ok", <<Arg("path")>>)
           unreadable == Reply(500, "read", <<>>)
           untyped == Reply(400, "type", <<>>)
<1>1. argument => RouteReply
  <2>1. Turning(400, "argument")
    BY DEF Turning, Statuses
  <2> QED
    BY <2>1, ReplyReplies, Zenon
<1>2. format => RouteReply
  <2>1. Turning(400, "type")
    BY DEF Turning, Statuses
  <2> QED
    BY <2>1, ReplyReplies, Zenon
<1>3. unfetched => RouteReply
  <2>1. Turning(502, "fetch")
    BY DEF Turning, Statuses
  <2> QED
    BY <2>1, ReplyReplies, Zenon
<1>4. denied => RouteReply
  <2>1. Turning(403, "path")
    BY DEF Turning, Statuses
  <2> QED
    BY <2>1, ReplyReplies, Zenon
<1>5. unauthorized => RouteReply
  <2>1. Turning(403, "token")
    BY DEF Turning, Statuses
  <2> QED
    BY <2>1, ReplyReplies, Zenon
<1>6. unrouted => RouteReply
  <2>1. Turning(501, "route")
    BY DEF Turning, Statuses
  <2> QED
    BY <2>1, ReplyReplies, Zenon
<1>7. hidden => RouteReply
  <2>1. Turning(404, "api mode")
    BY DEF Turning, Statuses
  <2> QED
    BY <2>1, ReplyReplies, Zenon
<1>8. fetched => RouteReply
  <2>1. Turning(200, "ok")
    BY DEF Turning, Statuses
  <2> QED
    BY <2>1, ReplyReplies, Zenon
<1>9. found => RouteReply
  <2>1. Turning(200, "ok")
    BY DEF Turning, Statuses
  <2> QED
    BY <2>1, ReplyReplies, Zenon
<1>10. unreadable => RouteReply
  <2>1. Turning(500, "read")
    BY DEF Turning, Statuses
  <2> QED
    BY <2>1, ReplyReplies, Zenon
<1>11. untyped => RouteReply
  <2>1. Turning(400, "type")
    BY DEF Turning, Statuses
  <2> QED
    BY <2>1, ReplyReplies, Zenon
<1> HIDE DEF argument, format, unfetched, denied, unauthorized, unrouted, hidden, fetched, found, unreadable, untyped
<1>12. CASE GetRuleset
  <2>1. argument \/ fetched \/ unfetched \/ format \/ denied \/ unreadable \/ untyped
    BY <1>12, Zenon DEF GetRuleset, BadRequest, Forbidden, Failed, Unsupported, BadGateway,
       argument, fetched, unfetched, format, denied, unreadable, untyped
  <2> QED
    BY <2>1, <1>1, <1>8, <1>3, <1>2, <1>4, <1>10, <1>11, Zenon
<1>13. CASE RenderTemplate
  <2>1. unauthorized \/ argument \/ denied \/ found \/ unreadable
    BY <1>13, Zenon DEF RenderTemplate, BadRequest, Forbidden, Failed, Unsupported, BadGateway,
       unauthorized, argument, denied, found, unreadable
  <2> QED
    BY <2>1, <1>5, <1>1, <1>4, <1>9, <1>10, Zenon
<1>14. CASE RawGet
  <2>1. unrouted \/ hidden \/ argument \/ fetched \/ unfetched
    BY <1>14, Zenon DEF RawGet, BadRequest, Forbidden, Failed, Unsupported, BadGateway,
       unrouted, hidden, argument, fetched, unfetched
  <2> QED
    BY <2>1, <1>6, <1>7, <1>1, <1>8, <1>3, Zenon
<1>15. CASE GetLocal
  <2>1. unrouted \/ hidden \/ unauthorized \/ argument \/ denied \/ found \/ unreadable
    BY <1>15, Zenon DEF GetLocal, BadRequest, Forbidden, Failed, Unsupported, BadGateway,
       unrouted, hidden, unauthorized, argument, denied, found, unreadable
  <2> QED
    BY <2>1, <1>6, <1>7, <1>5, <1>1, <1>4, <1>9, <1>10, Zenon
<1> QED
  BY <1>12, <1>13, <1>14, <1>15

LEMMA RouteSteps ==
    ASSUME NotFound \/ ParseTarget \/ GetRuleset \/ RenderTemplate \/ RawGet \/ GetLocal
    PROVE  /\ pc = "dispatch"
           /\ Turned \/ (GoesOn("config") /\ UNCHANGED <<req, text, round, eff, todo, from, got, lost>>)
<1>1. CASE NotFound
  <2>1. pc = "dispatch" /\ Refuse(404, "route") /\ Turning(404, "route") /\ 404 # 200
    BY <1>1 DEF NotFound, Turning, Statuses
  <2> QED
    BY <2>1, RefusalTurns
<1>2. CASE ParseTarget
  <2>1. CASE Target \in Targets
    BY <1>2, <2>1 DEF ParseTarget, GoesOn, steady, sources
  <2>2. CASE Target \notin Targets
    <3>1. pc = "dispatch" /\ Refuse(400, "target") /\ Turning(400, "target") /\ 400 # 200
      BY <1>2, <2>2 DEF ParseTarget, BadRequest, Turning, Statuses
    <3> QED
      BY <3>1, RefusalTurns
  <2> QED
    BY <2>1, <2>2
<1>3. CASE GetRuleset \/ RenderTemplate \/ RawGet \/ GetLocal
  <2>1. pc = "dispatch" /\ req.path \notin SubPaths
    BY <1>3 DEF GetRuleset, RenderTemplate, RawGet, GetLocal, AtDispatch, SubPaths
  <2>2. effects' = effects \/ effects' = effects \cup {Effect("read", "request")}
    BY <1>3, Zenon DEF GetRuleset, RenderTemplate, RawGet, GetLocal, Refuse
  <2>3. effects' \subseteq effects \cup Powers
    BY <2>2, PowersAre
  <2>4. PICK status, why : Turning(status, why) /\ Replied(status, why)
    BY <1>3, RouteReplies DEF RouteReply
  <2> QED
    BY <2>1, <2>3, <2>4, RepliedTurns
<1> QED
  BY <1>1, <1>2, <1>3

ProfileAsked ==
    /\ pc = "dispatch" /\ req.path = "/getprofile" /\ req.names[1] \in DOMAIN Profiles
    /\ req' = [req EXCEPT !.path = "/sub", !.method = "GET",
                          !.args = Over(Without(req.args, {"token"}), Without(ProfileArgs, {"profile_token"}))]
    /\ UNCHANGED <<io, settings, answer, pc, text, round, eff, todo, from, got, lost, effects>>

LEMMA ProfileSteps ==
    ASSUME GetProfile PROVE pc = "dispatch" /\ (Turned \/ ProfileAsked)
<1>1. pc = "dispatch" /\ req.path = "/getprofile"
  BY DEF GetProfile, AtDispatch
<1>2. CASE Refuse(Forbidden, "token") \/ Refuse(Failed, "profile")
  <2>1. Turning(403, "token") /\ Turning(500, "profile") /\ 403 # 200 /\ 500 # 200
    BY DEF Turning, Statuses
  <2> QED
    BY <1>1, <1>2, <2>1, RefusalTurns DEF Forbidden, Failed
<1>3. CASE ~(Refuse(Forbidden, "token") \/ Refuse(Failed, "profile"))
  BY <1>1, <1>3, Zenon DEF GetProfile, ProfileAsked, steady, sources
<1> QED
  BY <1>2, <1>3, <1>1

LEMMA LoadSteps ==
    ASSUME LoadConfig, NoConfig \/ ConfigText.place \in {"inline", "http", "local"}
    PROVE  /\ pc = "config"
           /\ \/ Turned
              \/ /\ UNCHANGED <<req, round, eff, todo, from, got, lost>>
                 /\ \/ NoConfig /\ GoesOn("overlay") /\ text' = text
                    \/ ~NoConfig /\ GoesOn("imports") /\ text' = ConfigText.lines
<1>1. CASE NoConfig
  BY <1>1 DEF LoadConfig, GoesOn, steady, sources
<1>2. CASE ~NoConfig /\ \E status \in LoadErrors(ConfigText.place, ConfigText.name) : Refuse(status, "config")
  <2>1. PICK status \in LoadErrors(ConfigText.place, ConfigText.name) : Refuse(status, "config")
    BY <1>2
  <2>2. status \in {400, 403, 500, 502} /\ pc = "config"
    <3>1. ConfigText.place \in {"inline", "http", "local"} /\ pc = "config"
      BY <1>2 DEF LoadConfig
    <3>2. LoadErrors(ConfigText.place, ConfigText.name) \subseteq {400, 403, 500, 502}
      BY <3>1 DEF LoadErrors, BadGateway, Failed, Forbidden
    <3> QED
      BY <2>1, <3>1, <3>2
  <2>3. Turning(status, "config") /\ status # 200
    BY <2>2 DEF Turning, Statuses
  <2> QED
    BY <2>1, <2>2, <2>3, RefusalTurns
<1>3. CASE ~NoConfig /\ ~(\E status \in LoadErrors(ConfigText.place, ConfigText.name) : Refuse(status, "config"))
  <2>1. /\ pc = "config" /\ pc' = "imports" /\ text' = ConfigText.lines
        /\ effects' = effects \/ effects' = effects \cup {Effect("read", ConfigBy)}
        /\ UNCHANGED <<io, settings, req, round, eff, todo, from, got, lost, answer>>
    BY <1>3 DEF LoadConfig, steady, sources
  <2> QED
    BY <1>3, <2>1, PowersAre DEF GoesOn
<1> QED
  BY <1>1, <1>2, <1>3

ImportTurns == LimitReached /\ Answers(500, "recursion limit")

ImportsDone ==
    /\ ~LimitReached /\ ImportRefs(text) = {} /\ GoesOn("bases")
    /\ UNCHANGED <<req, text, round, eff, todo, from, got, lost>>

ImportsRead ==
    /\ ~LimitReached /\ ImportRefs(text) # {} /\ ImportRefs(text) \subseteq DOMAIN Files
    /\ GoesOn("imports") /\ text' = ExpandImports(text, Files) /\ round' = round + 1
    /\ UNCHANGED <<req, eff, todo, from, got, lost>>

LEMMA ImportSteps ==
    ASSUME ExpandRound
    PROVE  pc = "imports" /\ (Turned \/ ImportTurns \/ ImportsDone \/ ImportsRead)
<1>1. pc = "imports"
  BY DEF ExpandRound
<1>2. CASE LimitReached
  <2>1. Refuse(500, "recursion limit")
    BY <1>2 DEF ExpandRound, Failed
  <2>2. Answers(500, "recursion limit")
    <3>1. /\ pc' = "done" /\ answer'.status = 500 /\ answer'.why = "recursion limit"
          /\ UNCHANGED <<io, settings, req, text, round, eff, todo, from, got, lost>>
      BY <2>1 DEF Refuse, Reply, steady, sources
    <3>2. effects' \subseteq effects \cup Powers
      BY <2>1 DEF Refuse
    <3>3. 500 \in Statuses
      BY DEF Statuses
    <3> QED
      BY <3>1, <3>2, <3>3, Zenon DEF Answers
  <2> QED
    BY <1>1, <1>2, <2>2 DEF ImportTurns
<1>3. CASE ~LimitReached /\ ImportRefs(text) = {}
  BY <1>1, <1>3 DEF ExpandRound, ImportsDone, GoesOn, steady, sources
<1>4. CASE ~LimitReached /\ ImportRefs(text) # {} /\ (Denied # {} \/ Unreadable # {})
  <2>1. Turning(403, "import") /\ Turning(500, "import") /\ 403 # 200 /\ 500 # 200
    BY DEF Turning, Statuses
  <2>2. Refuse(403, "import") \/ Refuse(500, "import")
    BY <1>4 DEF ExpandRound, Forbidden, Failed
  <2> QED
    BY <1>1, <2>1, <2>2, RefusalTurns
<1>5. CASE ~LimitReached /\ ImportRefs(text) # {} /\ Denied = {} /\ Unreadable = {}
  <2>1. /\ text' = ExpandImports(text, Files) /\ round' = round + 1
        /\ effects' = effects \/ effects' = effects \cup {Effect("read", ConfigBy)}
        /\ UNCHANGED <<io, settings, req, pc, eff, todo, from, got, lost, answer>>
    BY <1>5 DEF ExpandRound, steady, sources
  <2>2. ImportRefs(text) \subseteq DOMAIN Files
    BY <1>5 DEF Unreadable
  <2> QED
    BY <1>1, <1>5, <2>1, <2>2, PowersAre DEF ImportsRead, GoesOn
<1> QED
  BY <1>2, <1>3, <1>4, <1>5

LEMMA BaseSteps ==
    ASSUME ResolveBases
    PROVE  /\ pc = "bases" /\ GoesOn("overlay")
           /\ UNCHANGED <<req, text, round, eff, todo, from, got, lost>>
<1>1. effects' = effects \/ effects' = effects \cup {Effect("read", ConfigBy)}
  BY DEF ResolveBases
<1> QED
  BY <1>1, PowersAre DEF ResolveBases, GoesOn, steady, sources

LEMMA OverlaySteps ==
    ASSUME OverlayConfig, IsSettings(settings), IsRequest(req)
    PROVE  /\ pc = "overlay" /\ GoesOn("scripts")
           /\ IsSet(eff') /\ DOMAIN eff' = DOMAIN Defaults
           /\ UNCHANGED <<req, text, round, todo, from, got, lost>>
<1>1. pc = "overlay" /\ GoesOn("scripts") /\ UNCHANGED <<req, text, round, todo, from, got, lost>>
  BY DEF OverlayConfig, GoesOn, steady, sources
<1>2. eff' = [Overlaid EXCEPT !.script = Arg("filter_script")] \/ eff' = Overlaid
  BY DEF OverlayConfig
<1>3. IsSet(Overlaid) /\ DOMAIN Overlaid = DOMAIN Defaults
  BY OverlaidType
<1> DEFINE o == Overlaid
           w == [o EXCEPT !.script = Arg("filter_script")]
<1>4. DOMAIN w = DOMAIN o /\ \A a \in DOMAIN o : a # "script" => w[a] = o[a]
  OBVIOUS
<1> HIDE DEF o, w
<1>5. DOMAIN w = DOMAIN Defaults /\ IsSet(w)
  BY <1>3, <1>4 DEF IsSet, o
<1>6. eff' = w \/ eff' = o
  BY <1>2 DEF w, o
<1> QED
  BY <1>1, <1>3, <1>5, <1>6 DEF o

\* What a list holds, and how its gathering begins.
Gathers(list) ==
    /\ GoesOn("sources") /\ from' = list /\ todo' = Listed[list]
    /\ UNCHANGED <<req, text, round, eff, got, lost>>

LEMMA ListedAre ==
    /\ Listed["url"] = IF Has("url") THEN Arg("url") ELSE IF ApiAuthorized THEN eff.defaultUrls ELSE <<>>
    /\ Listed["insert"] = IF InsertEnabled THEN eff.insertUrls ELSE <<>>
BY DEF Listed

LEMMA ScriptSteps ==
    ASSUME ResolveScripts
    PROVE  /\ pc = "scripts"
           /\ Turned \/ Gathers("url") \/ (Listed["url"] = <<>> /\ Gathers("insert"))
<1>1. pc = "scripts"
  BY DEF ResolveScripts
<1>2. \/ Refuse(501, "script") \/ Refuse(403, "script") \/ Refuse(403, "path")
      \/ BeginSources /\ (effects' = effects \/ effects' = effects \cup {Effect("script", "request")})
  BY Zenon DEF ResolveScripts, Unsupported, Forbidden
<1>3. CASE Refuse(501, "script") \/ Refuse(403, "script") \/ Refuse(403, "path")
  <2>1. /\ Turning(501, "script") /\ Turning(403, "script") /\ Turning(403, "path")
        /\ 501 # 200 /\ 403 # 200
    BY DEF Turning, Statuses
  <2> QED
    BY <1>1, <1>3, <2>1, RefusalTurns
<1>4. CASE BeginSources /\ (effects' = effects \/ effects' = effects \cup {Effect("script", "request")})
  <2>1. effects' \subseteq effects \cup Powers
    BY <1>4, PowersAre
  <2>2. \A list, links : Gather(list, links) /\ pc = "scripts" /\ links = Listed[list] => Gathers(list)
    BY <2>1 DEF Gather, Gathers, GoesOn, steady
  <2>3. CASE Has("url")
    BY <1>1, <1>4, <2>2, <2>3, ListedAre DEF BeginSources
  <2>4. CASE ~Has("url") /\ ApiAuthorized /\ eff.defaultUrls # <<>>
    BY <1>1, <1>4, <2>2, <2>4, ListedAre DEF BeginSources
  <2>5. CASE ~Has("url") /\ ~(ApiAuthorized /\ eff.defaultUrls # <<>>)
    <3>1. Listed["url"] = <<>>
      BY <2>5, ListedAre
    <3>2. IF InsertEnabled THEN Gather("insert", eff.insertUrls) ELSE Reply(400, "url", <<>>)
      BY <1>4, <2>5 DEF BeginSources, BadRequest
    <3>3. CASE InsertEnabled
      BY <1>1, <2>2, <3>1, <3>2, <3>3, ListedAre
    <3>4. CASE ~InsertEnabled
      <4>1. Turning(400, "url") /\ 400 # 200 /\ Reply(400, "url", <<>>)
        BY <3>2, <3>4 DEF Turning, Statuses
      <4> QED
        BY <1>1, <2>1, <4>1, Turns
    <3> QED
      BY <3>3, <3>4
  <2> QED
    BY <2>3, <2>4, <2>5
<1> QED
  BY <1>2, <1>3, <1>4

\* The source at hand comes in, or is left out.
Taken(s) ==
    /\ got' = [got EXCEPT ![from] = Append(@, s)] /\ lost' = lost

LeftOut(s) ==
    /\ Skippable(s) /\ got' = got /\ lost' = lost \cup {<<from, Len(todo)>>}

Resolved ==
    /\ GoesOn("sources") /\ todo # <<>> /\ todo' = Tail(todo)
    /\ UNCHANGED <<req, text, round, eff, from>>
    /\ Taken(Head(todo)) \/ LeftOut(Head(todo))

LEMMA OutcomesAre ==
    ASSUME NEW s, s.kind \in Kinds, NEW status \in Outcomes(s) PROVE status \in {200, 403, 500, 501, 502}
BY DEF Outcomes, Kinds, BadGateway, Failed, Forbidden, Unsupported

LEMMA SourceSteps ==
    ASSUME ResolveSource, Head(todo).kind \in Kinds
    PROVE  pc = "sources" /\ (Turned \/ Resolved)
<1> DEFINE s == Head(todo)
<1>1. pc = "sources" /\ todo # <<>>
  BY DEF ResolveSource
<1>2. PICK status : /\ status \in Outcomes(s)
                    /\ IF status # 200 /\ ~Skippable(s) THEN Refuse(status, "source")
                       ELSE /\ todo' = Tail(todo)
                            /\ got' = IF status = 200 THEN [got EXCEPT ![from] = Append(@, s)] ELSE got
                            /\ lost' = IF status = 200 THEN lost ELSE lost \cup {<<from, Len(todo)>>}
                            /\ effects' = IF status = 200 THEN effects \cup SourceEffect(s) ELSE effects
                            /\ UNCHANGED <<steady, req, pc, text, round, eff, from, answer>>
  BY DEF ResolveSource
<1>3. status \in {200, 403, 500, 501, 502}
  BY <1>2, OutcomesAre
<1> HIDE DEF s
<1>4. CASE status # 200 /\ ~Skippable(s)
  <2>1. Turning(status, "source") /\ Refuse(status, "source")
    BY <1>2, <1>3, <1>4 DEF Turning, Statuses
  <2> QED
    BY <1>1, <1>4, <2>1, RefusalTurns
<1>5. CASE ~(status # 200 /\ ~Skippable(s))
  <2>1. /\ todo' = Tail(todo) /\ UNCHANGED <<steady, req, pc, text, round, eff, from, answer>>
        /\ effects' = effects \/ effects' = effects \cup SourceEffect(s)
        /\ Taken(s) \/ LeftOut(s)
    BY <1>2, <1>5 DEF Taken, LeftOut
  <2> QED
    BY <1>1, <2>1, PowersAre DEF Resolved, GoesOn, steady, s
<1> QED
  BY <1>4, <1>5

GoesToConvert ==
    GoesOn("convert") /\ UNCHANGED <<req, text, round, eff, todo, from, got, lost>>

LEMMA InsertSteps ==
    ASSUME InsertSources \/ InsertDone
    PROVE  /\ pc = "sources" /\ todo = <<>>
           /\ \/ from = "url" /\ Gathers("insert")
              \/ from = "url" /\ Listed["insert"] = <<>> /\ GoesToConvert
              \/ from = "insert" /\ GoesToConvert
<1>1. CASE InsertDone
  BY <1>1 DEF InsertDone, GoesToConvert, GoesOn, steady, sources
<1>2. CASE InsertSources
  <2>1. CASE InsertEnabled
    BY <1>2, <2>1, ListedAre DEF InsertSources, Gather, Gathers, GoesOn, steady
  <2>2. CASE ~InsertEnabled
    BY <1>2, <2>2, ListedAre DEF InsertSources, GoesToConvert, GoesOn, steady, sources
  <2> QED
    BY <2>1, <2>2
<1> QED
  BY <1>1, <1>2

LEMMA ConvertSteps ==
    ASSUME Convert
    PROVE  /\ pc = "convert"
           /\ \/ Turned
              \/ GoesOn("upload") /\ UNCHANGED <<req, text, round, eff, todo, from, got, lost>>
<1> DEFINE goes == /\ pc' = "upload"
                   /\ UNCHANGED <<steady, req, text, round, eff, sources, effects, answer>>
<1>1. pc = "convert"
  BY DEF Convert
<1>2. \/ Refuse(400, "nodes") \/ Refuse(400, "ver") \/ Refuse(501, "upload") \/ Refuse(403, "upload")
      \/ Refuse(400, "convert")
      \/ goes
  BY Zenon DEF Convert, BadRequest, Unsupported, Forbidden
<1>3. /\ Turning(400, "nodes") /\ Turning(400, "ver") /\ Turning(501, "upload") /\ Turning(403, "upload")
      /\ Turning(400, "convert") /\ 400 # 200 /\ 501 # 200 /\ 403 # 200
  BY DEF Turning, Statuses
<1> HIDE DEF goes
<1>4. Turned \/ goes
  BY <1>2, <1>3, RefusalTurns
<1> QED
  BY <1>1, <1>4 DEF GoesOn, steady, sources, goes

\* The answer that was made from the sources.
Served ==
    /\ \E why : Answers(200, why) /\ why # "recursion limit"
    /\ req.method = "GET" => answer'.from = Sources

LEMMA RespondSteps ==
    ASSUME Respond PROVE pc = "upload" /\ (Turned \/ Served)
<1>1. pc = "upload"
  BY DEF Respond
<1> DEFINE why == IF ManagedPrefix THEN "managed" ELSE "ok"
<1>2. \/ Reply(200, why, Sources) /\ (effects' = effects \/ effects' = effects \cup {Effect("upload", "request")})
      \/ Reply(500, "upload", <<>>) /\ (effects' = effects \/ effects' = effects \cup {Effect("upload", "request")})
  BY DEF Respond, Failed
<1>3. effects' \subseteq effects \cup Powers
  BY <1>2, PowersAre
<1>4. CASE Reply(500, "upload", <<>>)
  <2>1. Turning(500, "upload") /\ 500 # 200
    BY DEF Turning, Statuses
  <2> QED
    BY <1>1, <1>3, <1>4, <2>1, Turns
<1>5. CASE Reply(200, why, Sources)
  <2>1. why # "recursion limit"
    OBVIOUS
  <2> HIDE DEF why
  <2>2. Answers(200, why)
    BY <1>3, <1>5 DEF Reply, Answers, Statuses, steady, sources
  <2>3. req.method = "GET" => answer'.from = Sources
    BY <1>5 DEF Reply
  <2>4. Served
    BY <2>1, <2>2, <2>3, Zenon DEF Served
  <2> QED
    BY <1>1, <2>4
<1> QED
  BY <1>2, <1>4, <1>5

-----------------------------------------------------------------------------
\* Every variable of a request has its type.
Shape ==
    /\ io \in {Capabilities(a) : a \in Adapters} /\ IsSettings(settings) /\ IsRequest(req)
    /\ pc \in Steps /\ text \in Seq(Line) /\ round \in 0..MaxRounds
    /\ IsSet(eff) /\ DOMAIN eff = DOMAIN Defaults
    /\ todo \in Seq(SourceRef) /\ from \in {"url", "insert"} /\ DOMAIN got = {"url", "insert"}
    /\ effects \subseteq Powers
    /\ IF pc = "done" THEN answer.status \in Statuses ELSE answer = NoAnswer

LEMMA Unanswered == ASSUME Shape, pc # "done" PROVE answer.why = "" /\ answer.status = 0
<1>1. answer = NoAnswer
  BY DEF Shape
<1>2. NoAnswer.why = "" /\ NoAnswer.status = 0
  BY DEF NoAnswer
<1> QED
  BY <1>1, <1>2

LEMMA ShapeType == ASSUME Shape PROVE TypeOK
<1>1. \A i \in DOMAIN todo : todo[i].kind \in Kinds
  <2>1. todo \in Seq(SourceRef)
    BY DEF Shape
  <2>2. \A i \in DOMAIN todo : todo[i] \in SourceRef
    BY <2>1
  <2>3. \A s \in SourceRef : s.kind \in Kinds
    BY DEF SourceRef
  <2> QED
    BY <2>2, <2>3
<1>2. effects \subseteq {Effect(w, b) : w \in {"read", "script", "upload"}, b \in {"request", "operator", "list"}}
  BY DEF Shape, Powers
<1>3. answer.status \in {0, 200, 400, 403, 404, 500, 501, 502} /\ ((pc = "done") = (answer.status # 0))
  <2>1. pc = "done" => answer.status \in Statuses
    BY DEF Shape
  <2>2. pc # "done" => answer.status = 0
    BY Unanswered
  <2>3. pc = "done" => answer.status # 0
    BY <2>1 DEF Statuses
  <2> QED
    BY <2>1, <2>2, <2>3 DEF Statuses
<1> QED
  BY <1>1, <1>2, <1>3 DEF Shape, TypeOK

LEMMA FreshShape ==
    ASSUME Fresh, io \in {Capabilities(a) : a \in Adapters}, IsSettings(settings), IsRequest(req)
    PROVE  Shape
<1>1. <<>> \in Seq(Line) /\ <<>> \in Seq(SourceRef) /\ 0 \in 0..MaxRounds
  BY MaxRoundsNat
<1>2. IsSet(eff) /\ DOMAIN eff = DOMAIN Defaults
  BY DEF Fresh, IsSettings
<1>3. DOMAIN got = {"url", "insert"} /\ effects \subseteq Powers
  BY DEF Fresh
<1> QED
  BY <1>1, <1>2, <1>3 DEF Fresh, Shape, Steps

\* A request keeps its shape when it is turned down and when it goes on.
LEMMA TurnedShape ==
    ASSUME Shape, \E status, why : Answers(status, why) PROVE Shape'
<1>1. PICK status, why : Answers(status, why)
  OBVIOUS
<1>2. effects' \subseteq Powers
  BY <1>1 DEF Answers, Shape
<1> QED
  BY <1>1, <1>2 DEF Answers, Shape, Steps

LEMMA GoneOnShape ==
    ASSUME Shape, NEW next, GoesOn(next), next \in Steps \ {"done"}, pc # "done", UNCHANGED req,
           text' = text \/ text' \in Seq(Line), round' = round \/ round' \in 0..MaxRounds,
           eff' = eff \/ (IsSet(eff') /\ DOMAIN eff' = DOMAIN Defaults),
           todo' = todo \/ todo' \in Seq(SourceRef), from' \in {"url", "insert"}, DOMAIN got' = DOMAIN got
    PROVE  Shape'
<1>1. effects' \subseteq Powers
  BY DEF GoesOn, Shape
<1>2. answer' = NoAnswer /\ pc' # "done"
  BY DEF GoesOn, Shape
<1>3. pc' \in Steps /\ text' \in Seq(Line) /\ round' \in 0..MaxRounds /\ io' = io /\ settings' = settings
  BY DEF GoesOn, Shape
<1>4. IsSet(eff') /\ DOMAIN eff' = DOMAIN Defaults /\ todo' \in Seq(SourceRef)
  BY DEF Shape
<1> QED
  BY <1>1, <1>2, <1>3, <1>4 DEF Shape

LEMMA ListedType ==
    ASSUME Shape PROVE Listed["url"] \in Seq(SourceRef) /\ Listed["insert"] \in Seq(SourceRef)
<1>1. "insertUrls" \in DOMAIN eff /\ "defaultUrls" \in DOMAIN eff
  BY DEF Shape, Defaults
<1>2. eff.insertUrls \in Seq(SourceRef) /\ eff.defaultUrls \in Seq(SourceRef)
  BY <1>1 DEF Shape, IsSet
<1>3. Has("url") => Arg("url") \in Seq(SourceRef)
  BY DEF Shape, IsRequest, IsArguments, Has, Arg
<1>4. <<>> \in Seq(SourceRef)
  OBVIOUS
<1> QED
  BY <1>2, <1>3, <1>4, ListedAre

\* What a step comes to.
Keeps == UNCHANGED <<req, text, round, eff, todo, from, got, lost>>

Dispatched == pc = "dispatch" /\ GoesOn("config") /\ Keeps

Loaded ==
    /\ pc = "config" /\ UNCHANGED <<req, round, eff, todo, from, got, lost>>
    /\ \/ NoConfig /\ GoesOn("overlay") /\ text' = text
       \/ ~NoConfig /\ GoesOn("imports") /\ text' = ConfigText.lines

Based == pc = "bases" /\ GoesOn("overlay") /\ Keeps

Laid ==
    /\ pc = "overlay" /\ GoesOn("scripts") /\ IsSet(eff') /\ DOMAIN eff' = DOMAIN Defaults
    /\ UNCHANGED <<req, text, round, todo, from, got, lost>>

Begun == pc = "scripts" /\ (Gathers("url") \/ (Listed["url"] = <<>> /\ Gathers("insert")))

Inserted ==
    /\ pc = "sources" /\ todo = <<>>
    /\ \/ from = "url" /\ Gathers("insert")
       \/ from = "url" /\ Listed["insert"] = <<>> /\ GoesToConvert
       \/ from = "insert" /\ GoesToConvert

Converted == pc = "convert" /\ GoesOn("upload") /\ Keeps

ImportStep == pc = "imports" /\ (ImportTurns \/ ImportsDone \/ ImportsRead)

LEMMA NextSteps ==
    ASSUME Shape, Next
    PROVE  \/ Turned \/ Dispatched \/ ProfileAsked \/ Loaded \/ ImportStep \/ Based \/ Laid \/ Begun
           \/ (pc = "sources" /\ Resolved) \/ Inserted \/ Converted \/ (pc = "upload" /\ Served)
<1>1. CASE NotFound \/ ParseTarget \/ GetRuleset \/ RenderTemplate \/ RawGet \/ GetLocal
  BY <1>1, RouteSteps DEF Dispatched, Keeps
<1>2. CASE GetProfile
  BY <1>2, ProfileSteps
<1>3. CASE LoadConfig
  <2>1. NoConfig \/ ConfigText.place \in {"inline", "http", "local"}
    BY ConfigTextType DEF IsConfig, NoConfig, Shape
  <2> QED
    BY <1>3, <2>1, LoadSteps DEF Loaded
<1>4. CASE ExpandRound
  BY <1>4, ImportSteps DEF ImportStep
<1>5. CASE ResolveBases
  BY <1>5, BaseSteps DEF Based, Keeps
<1>6. CASE OverlayConfig
  <2>1. IsSettings(settings) /\ IsRequest(req)
    BY DEF Shape
  <2> QED
    BY <1>6, <2>1, OverlaySteps DEF Laid
<1>7. CASE ResolveScripts
  BY <1>7, ScriptSteps DEF Begun
<1>8. CASE ResolveSource
  <2>1. todo \in Seq(SourceRef) /\ todo # <<>>
    BY <1>8 DEF ResolveSource, Shape
  <2>2. Head(todo) \in SourceRef
    BY <2>1
  <2>3. Head(todo).kind \in Kinds
    BY <2>2 DEF SourceRef
  <2> QED
    BY <1>8, <2>3, SourceSteps
<1>9. CASE InsertSources \/ InsertDone
  BY <1>9, InsertSteps DEF Inserted
<1>10. CASE Convert
  BY <1>10, ConvertSteps DEF Converted, Keeps
<1>11. CASE Respond
  BY <1>11, RespondSteps
<1> QED
  BY <1>1, <1>2, <1>3, <1>4, <1>5, <1>6, <1>7, <1>8, <1>9, <1>10, <1>11 DEF Next

LEMMA ConfigLines == ASSUME Shape PROVE ~NoConfig => ConfigText.lines \in Seq(Line)
BY ConfigTextType DEF IsConfig, NoConfig, Shape

LEMMA RequestShapeStep == Shape /\ [Next]_vars => Shape'
<1> SUFFICES ASSUME Shape, [Next]_vars PROVE Shape'
  OBVIOUS
<1>1. CASE UNCHANGED vars
  BY <1>1 DEF vars, Shape
<1>2. CASE Turned
  BY <1>2, TurnedShape, Zenon DEF Turned
<1>3. CASE ProfileAsked
  <2>1. IsRequest(req) /\ req.names[1] \in DOMAIN Profiles
    BY <1>3 DEF ProfileAsked, Shape
  <2> DEFINE args == Over(Without(req.args, {"token"}), Without(ProfileArgs, {"profile_token"}))
  <2>2. IsArguments(args)
    BY <2>1, ProfileRequest
  <2>3. req' = [req EXCEPT !.path = "/sub", !.method = "GET", !.args = args]
    BY <1>3 DEF ProfileAsked
  <2> HIDE DEF args
  <2>4. IsRequest(req')
    BY <2>1, <2>2, <2>3 DEF IsRequest
  <2> QED
    BY <1>3, <2>4 DEF ProfileAsked, Shape
<1>4. CASE Dispatched \/ Based \/ Converted
  <2>1. PICK next : next \in {"config", "overlay", "upload"} /\ GoesOn(next)
    BY <1>4 DEF Dispatched, Based, Converted
  <2>2. next \in Steps \ {"done"} /\ pc # "done" /\ Keeps /\ from' \in {"url", "insert"}
    BY <1>4, <2>1 DEF Dispatched, Based, Converted, Steps, Keeps, Shape
  <2> QED
    BY <2>1, <2>2, GoneOnShape DEF Keeps
<1>5. CASE Loaded
  <2>1. PICK next : next \in {"overlay", "imports"} /\ GoesOn(next)
    BY <1>5 DEF Loaded
  <2>2. /\ next \in Steps \ {"done"} /\ pc # "done" /\ from' \in {"url", "insert"}
        /\ text' = text \/ text' \in Seq(Line)
    BY <1>5, <2>1, ConfigLines DEF Loaded, Steps, Shape
  <2> QED
    BY <1>5, <2>1, <2>2, GoneOnShape DEF Loaded
<1>6. CASE ImportStep
  <2>1. CASE ImportTurns
    BY <2>1, TurnedShape DEF ImportTurns
  <2>2. CASE ImportsDone
    <3>1. GoesOn("bases") /\ "bases" \in Steps \ {"done"} /\ pc # "done" /\ from' \in {"url", "insert"}
      BY <1>6, <2>2 DEF ImportStep, ImportsDone, Steps, Shape
    <3> QED
      BY <2>2, <3>1, GoneOnShape DEF ImportsDone
  <2>3. CASE ImportsRead
    <3>1. Readable(text, Files)
      BY <2>3, FilesCanBeRead DEF ImportsRead, Readable, Shape
    <3>2. text' \in Seq(Line)
      BY <2>3, <3>1, RoundOfImports DEF ImportsRead
    <3>3. round' \in 0..MaxRounds
      BY <2>3, MaxRoundsNat DEF ImportsRead, LimitReached, Shape
    <3>4. GoesOn("imports") /\ "imports" \in Steps \ {"done"} /\ pc # "done" /\ from' \in {"url", "insert"}
      BY <1>6, <2>3 DEF ImportStep, ImportsRead, Steps, Shape
    <3> QED
      BY <2>3, <3>2, <3>3, <3>4, GoneOnShape DEF ImportsRead
  <2> QED
    BY <1>6, <2>1, <2>2, <2>3 DEF ImportStep
<1>7. CASE Laid
  <2>1. GoesOn("scripts") /\ "scripts" \in Steps \ {"done"} /\ pc # "done" /\ from' \in {"url", "insert"}
    BY <1>7 DEF Laid, Steps, Shape
  <2> QED
    BY <1>7, <2>1, GoneOnShape DEF Laid
<1>8. ASSUME NEW list, list \in {"url", "insert"}, pc # "done", Gathers(list) PROVE Shape'
  <2>1. GoesOn("sources") /\ "sources" \in Steps \ {"done"} /\ from' \in {"url", "insert"}
    BY <1>8 DEF Gathers, Steps
  <2>2. todo' \in Seq(SourceRef)
    BY <1>8, ListedType DEF Gathers
  <2> QED
    BY <1>8, <2>1, <2>2, GoneOnShape DEF Gathers
<1>9. CASE pc = "sources" /\ Resolved
  <2>1. GoesOn("sources") /\ "sources" \in Steps \ {"done"} /\ pc # "done" /\ from' \in {"url", "insert"}
    BY <1>9 DEF Resolved, Steps, Shape
  <2>2. todo' \in Seq(SourceRef)
    BY <1>9 DEF Resolved, Shape
  <2>3. DOMAIN got' = DOMAIN got
    BY <1>9 DEF Resolved, Taken, LeftOut
  <2> QED
    BY <1>9, <2>1, <2>2, <2>3, GoneOnShape DEF Resolved
<1>10. CASE Begun \/ Inserted
  <2>1. CASE pc = "sources" /\ GoesToConvert
    <3>1. GoesOn("convert") /\ "convert" \in Steps \ {"done"} /\ pc # "done" /\ from' \in {"url", "insert"}
      BY <2>1 DEF GoesToConvert, Steps, Shape
    <3> QED
      BY <2>1, <3>1, GoneOnShape DEF GoesToConvert
  <2>2. CASE pc \in {"scripts", "sources"} /\ (Gathers("url") \/ Gathers("insert"))
    BY <1>8, <2>2
  <2> QED
    BY <1>10, <2>1, <2>2 DEF Begun, Inserted
<1>11. CASE Served
  BY <1>11, TurnedShape, Zenon DEF Served
<1> QED
  BY <1>1, <1>2, <1>3, <1>4, <1>5, <1>6, <1>7, <1>9, <1>10, <1>11, NextSteps

-----------------------------------------------------------------------------
\* How far the imports of a request's configuration have been replaced.
PastImports == {"bases", "overlay", "scripts", "sources", "convert", "upload"}

Depths ==
    /\ pc \in {"dispatch", "config"} => round = 0
    /\ pc = "imports" => ~NoConfig /\ Rounds(ConfigText.lines, text, round, Files, MaxRounds)
    /\ pc \in PastImports /\ ~NoConfig => Nested = {}
    /\ answer.why = "recursion limit" => Nested # {}

LEMMA DepthsImply == ASSUME Depths PROVE ImportDepth
BY DEF Depths, PastImports, ImportDepth

LEMMA FreshDepths == ASSUME Fresh PROVE Depths
BY DEF Fresh, Depths, PastImports, NoAnswer

LEMMA NestedIs == Nested = Level(ConfigText.lines, Pad(Files), MaxRounds - 1)[MaxRounds - 1]
BY DEF Nested, Padded, Pad

LEMMA SameConfig ==
    ASSUME UNCHANGED <<settings, req>>
    PROVE  NoConfig' = NoConfig /\ ConfigText' = ConfigText /\ Nested' = Nested
<1>1. NoConfig' = NoConfig /\ ConfigText' = ConfigText
  BY DEF NoConfig, ConfigText, Has, Arg
<1>2. Padded' = Padded
  BY DEF Padded
<1> QED
  BY <1>1, <1>2 DEF Nested

LEMMA DepthsStep == Shape /\ Depths /\ [Next]_vars => Depths'
<1> SUFFICES ASSUME Shape, Depths, [Next]_vars PROVE Depths'
  OBVIOUS
<1>1. CASE UNCHANGED vars
  <2>1. NoConfig' = NoConfig /\ ConfigText' = ConfigText /\ Nested' = Nested
    BY <1>1, SameConfig DEF vars
  <2> QED
    BY <1>1, <2>1 DEF vars, Depths
<1>2. ASSUME NEW status, NEW why, Answers(status, why), why # "recursion limit" PROVE Depths'
  BY <1>2 DEF Answers, Depths, PastImports
<1>3. CASE ProfileAsked
  <2>1. answer'.why # "recursion limit"
    BY <1>3, Unanswered DEF ProfileAsked
  <2> QED
    BY <1>3, <2>1 DEF ProfileAsked, Depths, PastImports
<1>4. ASSUME NEW next, GoesOn(next), pc # "done", UNCHANGED req,
             next = "config" => round' = 0,
             next = "imports" => ~NoConfig /\ Rounds(ConfigText.lines, text', round', Files, MaxRounds),
             next \in PastImports /\ ~NoConfig => Nested = {}, next # "dispatch"
      PROVE Depths'
  <2>1. answer'.why # "recursion limit"
    BY <1>4, Unanswered DEF GoesOn
  <2>2. NoConfig' = NoConfig /\ ConfigText' = ConfigText /\ Nested' = Nested
    BY <1>4, SameConfig DEF GoesOn
  <2>3. pc' = next
    BY <1>4 DEF GoesOn
  <2> QED
    BY <1>4, <2>1, <2>2, <2>3 DEF Depths, PastImports
<1>5. CASE Dispatched
  <2>1. GoesOn("config") /\ pc # "done" /\ UNCHANGED req /\ round' = 0
    BY <1>5 DEF Dispatched, Keeps, Depths
  <2> QED
    BY <1>4, <2>1 DEF PastImports
<1>6. CASE Loaded
  <2>1. CASE NoConfig /\ GoesOn("overlay")
    BY <1>4, <1>6, <2>1 DEF Loaded
  <2>2. CASE ~NoConfig /\ GoesOn("imports") /\ text' = ConfigText.lines
    <3>1. ConfigText.lines \in Seq(Line) /\ round' = 0
      BY <1>6, <2>2, ConfigLines DEF Loaded, Depths
    <3>2. Rounds(ConfigText.lines, text', round', Files, MaxRounds)
      BY <2>2, <3>1, RoundsFacts, FilesCanBeRead, MaxRoundsNat
    <3> QED
      BY <1>4, <1>6, <2>2, <3>2 DEF Loaded, PastImports
  <2> QED
    BY <1>6, <2>1, <2>2 DEF Loaded
<1>7. CASE ImportStep
  <2>1. /\ pc = "imports" /\ ~NoConfig /\ Rounds(ConfigText.lines, text, round, Files, MaxRounds)
        /\ ConfigText.lines \in Seq(Line)
    BY <1>7, ConfigLines DEF ImportStep, Depths
  <2>2. CASE ImportTurns
    <3>1. Nested # {}
      BY <2>1, <2>2, NestedIs, RoundsFacts, FilesCanBeRead, MaxRoundsNat DEF ImportTurns, LimitReached
    <3>2. Nested' = Nested
      BY <2>2, SameConfig DEF ImportTurns, Answers
    <3> QED
      BY <2>2, <3>1, <3>2 DEF ImportTurns, Answers, Depths, PastImports
  <2>3. CASE ImportsDone
    <3>1. Nested = {}
      BY <2>1, <2>3, NestedIs, RoundsFacts, FilesCanBeRead, MaxRoundsNat DEF ImportsDone, LimitReached
    <3> QED
      BY <1>4, <2>1, <2>3, <3>1 DEF ImportsDone
  <2>4. CASE ImportsRead
    <3>1. Rounds(ConfigText.lines, text', round', Files, MaxRounds)
      BY <2>1, <2>4, RoundsFacts, FilesCanBeRead, MaxRoundsNat DEF ImportsRead, LimitReached
    <3> QED
      BY <1>4, <2>1, <2>4, <3>1 DEF ImportsRead, PastImports
  <2> QED
    BY <1>7, <2>2, <2>3, <2>4 DEF ImportStep
<1>8. CASE Based \/ Laid \/ Begun \/ (pc = "sources" /\ Resolved) \/ Inserted \/ Converted
  <2>1. PICK next : next \in {"overlay", "scripts", "sources", "convert", "upload"} /\ GoesOn(next)
    BY <1>8 DEF Based, Laid, Begun, Gathers, Resolved, Inserted, GoesToConvert, Converted
  <2>2. pc \in PastImports /\ UNCHANGED req
    BY <1>8 DEF Based, Laid, Begun, Gathers, Resolved, Inserted, GoesToConvert, Converted, PastImports, Keeps
  <2>3. pc # "done" /\ (~NoConfig => Nested = {})
    BY <2>2 DEF PastImports, Depths
  <2> QED
    BY <1>4, <2>1, <2>2, <2>3
<1>9. CASE Turned \/ Served
  BY <1>2, <1>9 DEF Turned, Served
<1> QED
  BY <1>1, <1>3, <1>5, <1>6, <1>7, <1>8, <1>9, NextSteps

\* The variables of a request have their types, whatever its case (handle_request).
THEOREM RequestTyped == SubSpec => []TypeOK
<1>1. Init => Shape /\ Depths
  <2> SUFFICES ASSUME Init PROVE Shape /\ Depths
    OBVIOUS
  <2>1. io \in {Capabilities(a) : a \in Adapters} /\ IsSettings(settings) /\ IsRequest(req) /\ Fresh
    BY CasesAreRequests DEF Init, Asked
  <2> QED
    BY <2>1, FreshShape, FreshDepths
<1>2. Shape /\ [Next]_vars => Shape'
  BY RequestShapeStep
<1>3. Shape => TypeOK
  BY ShapeType
<1> QED
  BY <1>1, <1>2, <1>3, PTL DEF SubSpec

-----------------------------------------------------------------------------
\* The first sources of a list, without those left out.
Pieces(list, left, n) == [i \in 1..n |-> IF i \in left THEN <<>> ELSE <<list[i]>>]

LEMMA PiecesType ==
    ASSUME NEW list \in Seq(SourceRef), NEW left, NEW n \in 0..Len(list)
    PROVE  Pieces(list, left, n) \in Seq(Seq(SourceRef)) /\ Len(Pieces(list, left, n)) = n
<1> DEFINE SS == Seq(SourceRef)
           p == Pieces(list, left, n)
<1>1. <<>> \in SS /\ \A i \in 1..n : <<list[i]>> \in SS
  BY Len(list) \in Nat
<1>2. n \in Nat
  BY Len(list) \in Nat
<1> HIDE DEF SS
<1>3. p = [i \in 1..n |-> p[i]] /\ \A i \in 1..n : p[i] \in SS
  BY <1>1 DEF Pieces
<1> HIDE DEF p
<1>4. p \in Seq(SS) /\ Len(p) = n
  BY <1>2, <1>3, SequenceOf
<1> QED
  BY <1>4 DEF SS, p

LEMMA PiecesNone == ASSUME NEW list, NEW left PROVE FlattenSeq(Pieces(list, left, 0)) = <<>>
<1>1. Pieces(list, left, 0) = <<>>
  BY DEF Pieces
<1> QED
  BY <1>1, FlattenEmpty

LEMMA PiecesNext ==
    ASSUME NEW list \in Seq(SourceRef), NEW left, NEW n \in Nat, n + 1 \in 1..Len(list), n + 1 \notin left
    PROVE  /\ FlattenSeq(Pieces(list, left, n + 1)) = Append(FlattenSeq(Pieces(list, left, n)), list[n + 1])
           /\ FlattenSeq(Pieces(list, left \cup {n + 1}, n + 1)) = FlattenSeq(Pieces(list, left, n))
<1> DEFINE p == Pieces(list, left, n)
           q == Pieces(list, left, n + 1)
           r == Pieces(list, left \cup {n + 1}, n + 1)
           SS == Seq(SourceRef)
<1>1. p \in Seq(SS) /\ Len(p) = n
  BY PiecesType
<1>2. q \in Seq(SS) /\ Len(q) = n + 1 /\ r \in Seq(SS) /\ Len(r) = n + 1
  BY PiecesType
<1>3. <<list[n + 1]>> \in SS /\ <<>> \in SS
  OBVIOUS
<1>4. /\ \A i \in 1..n : q[i] = p[i] /\ r[i] = p[i]
      /\ q[n + 1] = <<list[n + 1]>> /\ r[n + 1] = <<>>
  BY DEF Pieces
<1> HIDE DEF p, q, r, SS
<1>5. q = Append(p, <<list[n + 1]>>)
  BY <1>1, <1>2, <1>3, <1>4
<1>6. r = Append(p, <<>>)
  BY <1>1, <1>2, <1>3, <1>4
<1>7. FlattenSeq(q) = FlattenSeq(p) \o <<list[n + 1]>> /\ FlattenSeq(r) = FlattenSeq(p) \o <<>>
  BY <1>1, <1>3, <1>5, <1>6, FlattenAppend DEF SS
<1>8. FlattenSeq(p) \in Seq(SourceRef)
  BY <1>1, FlattenType DEF SS
<1>9. FlattenSeq(p) \o <<list[n + 1]>> = Append(FlattenSeq(p), list[n + 1]) /\ FlattenSeq(p) \o <<>> = FlattenSeq(p)
  BY <1>8
<1> QED
  BY <1>7, <1>9 DEF p, q, r

\* How much of a list is read, and which of its places were left out.
Unread(list) ==
    CASE pc # "sources" -> 0
      [] pc = "sources" /\ list = from -> Len(todo)
      [] OTHER -> IF from = "url" THEN Len(Listed[list]) ELSE 0

LeftPlaces(list) == {PlaceOf(l) : l \in {k \in lost : k[1] = list}}

Follows(list) ==
    got[list] = FlattenSeq(Pieces(Listed[list], LeftPlaces(list), Len(Listed[list]) - Unread(list)))

LostOf(l) ==
    /\ l[1] \in {"url", "insert"} /\ PlaceOf(l) \in 1..(Len(Listed[l[1]]) - Unread(l[1]))
    /\ Listed[l[1]][PlaceOf(l)].kind \in {"http", "script"}

Remaining ==
    /\ Len(todo) <= Len(Listed[from])
    /\ \A i \in 1..Len(todo) : todo[i] = Listed[from][(Len(Listed[from]) - Len(todo)) + i]

BeforeSources == {"dispatch", "config", "imports", "bases", "overlay", "scripts"}

Order ==
    /\ pc \in BeforeSources => got = [url |-> <<>>, insert |-> <<>>] /\ lost = {}
    /\ pc \in {"sources", "convert", "upload"} =>
        /\ Follows("url") /\ Follows("insert")
        /\ \A l \in lost : LostOf(l)
        /\ lost # {} => eff.skipFailed
    /\ pc = "sources" => Remaining
    /\ pc = "done" => SourcesInOrder

LEMMA SameLists ==
    ASSUME UNCHANGED <<settings, req, eff>>
    PROVE  /\ Listed' = Listed /\ (\A l : PlaceOf(l)' = PlaceOf(l))
           /\ PrependInsert' = PrependInsert
<1>1. Listed' = Listed
  BY DEF Listed, Has, Arg, ApiAuthorized, HasValidToken, InsertEnabled, Flag
<1> QED
  BY <1>1 DEF PlaceOf, PrependInsert, Flag, Has, Arg

LEMMA SameLeft ==
    ASSUME UNCHANGED <<settings, req, eff, lost>>
    PROVE  \A list : LeftPlaces(list)' = LeftPlaces(list) /\ Kept(list)' = Kept(list)
BY SameLists DEF LeftPlaces, Kept

LEMMA KeptWhole ==
    ASSUME Shape, pc # "sources", NEW list, list \in {"url", "insert"}, Follows(list)
    PROVE  got[list] = Kept(list)
<1> DEFINE whole == Listed[list]
           left == LeftPlaces(list)
<1>1. whole \in Seq(SourceRef) /\ Unread(list) = 0
  BY ListedType DEF Unread
<1>2. DOMAIN whole = 1..Len(whole) /\ Len(whole) - 0 = Len(whole)
  BY <1>1
<1>3. got[list] = FlattenSeq(Pieces(whole, left, Len(whole) - 0))
  BY <1>1 DEF Follows
<1>4. Kept(list) = FlattenSeq([i \in DOMAIN whole |-> IF i \in left THEN <<>> ELSE <<whole[i]>>])
  BY DEF Kept, LeftPlaces
<1> HIDE DEF whole, left
<1> QED
  BY <1>2, <1>3, <1>4 DEF Pieces

\* Nothing that an order speaks of changes, and the step goes on behind the sources.
LEMMA OrderFrame ==
    ASSUME Order, Shape, NEW next, GoesOn(next), UNCHANGED <<req, eff, todo, from, got, lost>>,
           \/ pc \in {"sources", "convert"} /\ next \in {"convert", "upload"}
              /\ (\A list \in {"url", "insert"} : Unread(list) = 0)
    PROVE  Order'
<1>1. /\ Listed' = Listed /\ (\A l : PlaceOf(l)' = PlaceOf(l))
      /\ \A list : LeftPlaces(list)' = LeftPlaces(list)
  BY SameLists, SameLeft DEF GoesOn
<1>2. pc' = next
  BY DEF GoesOn
<1>3. \A list \in {"url", "insert"} : Unread(list)' = Unread(list)
  BY <1>2 DEF Unread
<1>4. \A list \in {"url", "insert"} : Follows(list) => Follows(list)'
  BY <1>1, <1>3 DEF Follows
<1>5. \A l : LostOf(l) => LostOf(l)'
  BY <1>1, <1>3 DEF LostOf
<1>6. Follows("url") /\ Follows("insert") /\ (\A l \in lost : LostOf(l)) /\ (lost # {} => eff.skipFailed)
  BY DEF Order
<1> QED
  BY <1>2, <1>4, <1>5, <1>6 DEF Order, BeforeSources

\* Gathering begins with nothing got, or with the first list complete.
LEMMA OrderGathers ==
    ASSUME Order, Shape, NEW list, list \in {"url", "insert"}, Gathers(list),
           \/ pc = "scripts" /\ (list = "insert" => Listed["url"] = <<>>)
           \/ pc = "sources" /\ todo = <<>> /\ from = "url" /\ list = "insert"
    PROVE  Order'
<1>1. /\ Listed' = Listed /\ (\A l : PlaceOf(l)' = PlaceOf(l))
      /\ \A some : LeftPlaces(some)' = LeftPlaces(some)
  BY SameLists, SameLeft DEF GoesOn, Gathers
<1>2. pc' = "sources" /\ from' = list /\ todo' = Listed[list] /\ UNCHANGED <<req, eff, got, lost>>
  BY DEF GoesOn, Gathers
<1>3. /\ Listed["url"] \in Seq(SourceRef) /\ Listed["insert"] \in Seq(SourceRef)
      /\ Len(Listed["url"]) \in Nat /\ Len(Listed["insert"]) \in Nat
  BY ListedType
<1>4. Remaining'
  <2>1. Listed[list] \in Seq(SourceRef) /\ Len(Listed[list]) \in Nat
    BY <1>3
  <2> QED
    BY <1>1, <1>2, <2>1 DEF Remaining
<1>5. Unread("insert")' = Len(Listed["insert"])
  BY <1>1, <1>2 DEF Unread
<1>6. CASE pc = "scripts"
  <2>1. got["url"] = <<>> /\ got["insert"] = <<>> /\ lost = {}
    BY <1>6 DEF Order, BeforeSources
  <2>2. Unread("url")' = Len(Listed["url"])
    <3>1. CASE list = "url"
      BY <1>1, <1>2, <3>1 DEF Unread
    <3>2. CASE list = "insert"
      <4>1. Listed["url"] = <<>>
        BY <1>6, <3>2
      <4>2. Len(Listed["url"]) = 0
        BY <4>1
      <4> QED
        BY <1>1, <1>2, <3>2, <4>2 DEF Unread
    <3> QED
      BY <3>1, <3>2
  <2>3. Len(Listed["url"]) - Unread("url")' = 0 /\ Len(Listed["insert"]) - Unread("insert")' = 0
    BY <1>3, <1>5, <2>2
  <2>4. Follows("url")' /\ Follows("insert")'
    BY <1>1, <1>2, <2>1, <2>3, PiecesNone DEF Follows
  <2> QED
    BY <1>2, <1>4, <2>1, <2>4 DEF Order, BeforeSources
<1>7. CASE pc = "sources" /\ todo = <<>> /\ from = "url" /\ list = "insert"
  <2>1. Unread("url") = 0 /\ Unread("insert") = Len(Listed["insert"])
    BY <1>7 DEF Unread
  <2>2. Unread("url")' = 0
    BY <1>2, <1>7 DEF Unread
  <2>3. /\ Follows("url") /\ Follows("insert") /\ (\A l \in lost : LostOf(l))
        /\ lost # {} => eff.skipFailed
    BY <1>7 DEF Order
  <2>4. Follows("url")' /\ Follows("insert")'
    BY <1>1, <1>2, <1>5, <2>1, <2>2, <2>3 DEF Follows
  <2>5. \A l \in lost : LostOf(l)'
    BY <1>1, <1>5, <2>1, <2>2, <2>3 DEF LostOf
  <2> QED
    BY <1>2, <1>4, <2>3, <2>4, <2>5 DEF Order, BeforeSources
<1> QED
  BY <1>6, <1>7

LEMMA OrderResolved ==
    ASSUME Order, Shape, pc = "sources", Resolved PROVE Order'
<1> DEFINE list == from
           whole == Listed[list]
           n == Len(whole) - Len(todo)
           s == Head(todo)
<1>1. /\ Listed' = Listed /\ (\A l : PlaceOf(l)' = PlaceOf(l))
  BY SameLists DEF GoesOn, Resolved
<1>2. pc' = "sources" /\ from' = list /\ todo' = Tail(todo) /\ UNCHANGED <<req, eff>>
  BY DEF GoesOn, Resolved
<1>3. list \in {"url", "insert"} /\ whole \in Seq(SourceRef) /\ Len(whole) \in Nat
      /\ todo \in Seq(SourceRef) /\ todo # <<>> /\ DOMAIN got = {"url", "insert"}
  BY ListedType DEF Shape, Resolved
<1>4. /\ Len(todo) \in Nat \ {0} /\ Len(Tail(todo)) = Len(todo) - 1 /\ s = todo[1]
      /\ \A i \in 1..Len(Tail(todo)) : Tail(todo)[i] = todo[i + 1] /\ i + 1 \in 1..Len(todo)
  BY <1>3
<1>5. /\ Len(todo) <= Len(whole) /\ \A i \in 1..Len(todo) : todo[i] = whole[n + i]
      /\ \A some \in {"url", "insert"} : Follows(some)
      /\ \A l \in lost : LostOf(l)
      /\ lost # {} => eff.skipFailed
  BY DEF Order, Remaining
<1>6. Unread(list) = Len(todo) /\ Unread(list)' = Len(Tail(todo))
  BY <1>1, <1>2 DEF Unread
<1>7. \A some \in {"url", "insert"} : some # list => Unread(some)' = Unread(some)
  BY <1>1, <1>2 DEF Unread
<1>8. n \in Nat /\ n + 1 \in 1..Len(whole) /\ s = whole[n + 1] /\ Len(whole) - Len(Tail(todo)) = n + 1
  BY <1>3, <1>4, <1>5
<1>9. \A l \in lost : l[1] = list => PlaceOf(l) \in 1..n
  BY <1>5, <1>6 DEF LostOf
<1>10. n + 1 \notin LeftPlaces(list)
  BY <1>8, <1>9 DEF LeftPlaces
<1>11. got[list] = FlattenSeq(Pieces(whole, LeftPlaces(list), n))
  BY <1>3, <1>5, <1>6 DEF Follows
<1>12. Remaining'
  <2>1. todo' = Tail(todo) /\ Listed'[from'] = whole
    BY <1>1, <1>2
  <2>2. \A i \in 1..Len(Tail(todo)) : Tail(todo)[i] = whole[(n + 1) + i]
    <3> SUFFICES ASSUME NEW i \in 1..Len(Tail(todo)) PROVE Tail(todo)[i] = whole[(n + 1) + i]
      OBVIOUS
    <3>1. Tail(todo)[i] = whole[n + (i + 1)]
      BY <1>4, <1>5
    <3>2. n + (i + 1) = (n + 1) + i
      <4> HIDE DEF n
      <4> QED
        BY <1>4, <1>8
    <3> QED
      BY <3>1, <3>2
  <2>3. Len(Tail(todo)) <= Len(whole)
    BY <1>3, <1>4, <1>5
  <2> QED
    BY <2>1, <2>2, <2>3, <1>8 DEF Remaining
<1> HIDE DEF n, whole, s
<1>13. CASE Taken(s)
  <2>1. lost' = lost /\ got' = [got EXCEPT ![list] = Append(@, s)]
    BY <1>13 DEF Taken
  <2>2. \A some : LeftPlaces(some)' = LeftPlaces(some)
    BY <1>1, <2>1 DEF LeftPlaces
  <2>3. got'[list] = Append(got[list], s) /\ \A some \in {"url", "insert"} : some # list => got'[some] = got[some]
    BY <1>3, <2>1
  <2>4. FlattenSeq(Pieces(whole, LeftPlaces(list), n + 1)) = Append(got[list], s)
    <3>1. FlattenSeq(Pieces(whole, LeftPlaces(list), n + 1)) =
            Append(FlattenSeq(Pieces(whole, LeftPlaces(list), n)), whole[n + 1])
      BY <1>3, <1>8, <1>10, PiecesNext
    <3> QED
      BY <1>8, <1>11, <3>1
  <2>5. Follows(list)'
    BY <1>1, <1>2, <1>6, <1>8, <2>2, <2>3, <2>4 DEF Follows, whole
  <2>6. \A some \in {"url", "insert"} : some # list => Follows(some)'
    BY <1>1, <1>5, <1>7, <2>2, <2>3 DEF Follows
  <2>7. ASSUME NEW l \in lost PROVE LostOf(l)'
    <3>1. CASE l[1] = list
      BY <1>1, <1>2, <1>3, <1>5, <1>6, <1>8, <1>9, <3>1 DEF LostOf, whole
    <3>2. CASE l[1] # list
      BY <1>1, <1>5, <1>7, <3>2 DEF LostOf
    <3> QED
      BY <3>1, <3>2
  <2> QED
    BY <1>2, <1>3, <1>5, <1>12, <2>1, <2>5, <2>6, <2>7 DEF Order, BeforeSources
<1>14. CASE LeftOut(s)
  <2>0. PICK now : now = <<list, Len(todo)>>
    OBVIOUS
  <2>1. /\ lost' = lost \cup {now} /\ got' = got /\ eff.skipFailed /\ s.kind \in {"http", "script"}
    BY <1>14, <2>0 DEF LeftOut, Skippable
  <2>2. now[1] = list /\ PlaceOf(now) = n + 1
    <3>1. now[1] = list /\ PlaceOf(now) = Len(whole) + 1 - Len(todo)
      BY <2>0 DEF PlaceOf, whole
    <3> QED
      BY <1>3, <1>4, <3>1 DEF n
  <2>3. LeftPlaces(list)' = LeftPlaces(list) \cup {n + 1}
    <3>1. LeftPlaces(list)' = {PlaceOf(l)' : l \in {k \in lost' : k[1] = list}}
      BY <1>2 DEF LeftPlaces
    <3>2. LeftPlaces(list)' = {PlaceOf(l) : l \in {k \in lost \cup {now} : k[1] = list}}
      BY <1>1, <2>1, <3>1
    <3> QED
      BY <2>2, <3>2 DEF LeftPlaces
  <2>4. \A some : some # list => LeftPlaces(some)' = LeftPlaces(some)
    BY <1>1, <2>1, <2>2 DEF LeftPlaces
  <2>5. FlattenSeq(Pieces(whole, LeftPlaces(list) \cup {n + 1}, n + 1)) = got[list]
    BY <1>3, <1>8, <1>10, <1>11, PiecesNext
  <2>6. Follows(list)'
    BY <1>1, <1>2, <1>6, <1>8, <2>1, <2>3, <2>5 DEF Follows, whole
  <2>7. \A some \in {"url", "insert"} : some # list => Follows(some)'
    BY <1>1, <1>5, <1>7, <2>1, <2>4 DEF Follows
  <2>8. ASSUME NEW l \in lost PROVE LostOf(l)'
    <3>1. CASE l[1] = list
      BY <1>1, <1>2, <1>3, <1>5, <1>6, <1>8, <1>9, <3>1 DEF LostOf, whole
    <3>2. CASE l[1] # list
      BY <1>1, <1>5, <1>7, <3>2 DEF LostOf
    <3> QED
      BY <3>1, <3>2
  <2>9. LostOf(now)'
    <3>1. PlaceOf(now)' = n + 1 /\ n + 1 \in 1..(n + 1)
      BY <1>1, <1>8, <2>2
    <3> QED
      BY <1>1, <1>2, <1>3, <1>6, <1>8, <2>1, <2>2, <3>1 DEF LostOf, whole
  <2> QED
    BY <1>2, <1>3, <1>5, <1>12, <2>1, <2>6, <2>7, <2>8, <2>9 DEF Order, BeforeSources
<1> QED
  BY <1>13, <1>14 DEF Resolved, s

LEMMA NotServed ==
    ASSUME Order, pc' = "done", answer'.status = 200 /\ req'.method = "GET" => req'.path \notin SubPaths
    PROVE  Order'
<1>1. SourcesInOrder'
  BY DEF SourcesInOrder
<1> QED
  BY <1>1 DEF Order, BeforeSources

LEMMA OrderServed ==
    ASSUME Order, Shape, pc = "upload", Served PROVE Order'
<1>1. PICK why : Answers(200, why)
  BY DEF Served
<1>2. /\ pc' = "done" /\ UNCHANGED <<settings, req, eff, got, lost>>
  BY <1>1 DEF Answers
<1>3. /\ Listed' = Listed /\ (\A l : PlaceOf(l)' = PlaceOf(l)) /\ PrependInsert' = PrependInsert
      /\ \A list : Kept(list)' = Kept(list)
  BY <1>2, SameLists, SameLeft
<1>4. /\ Follows("url") /\ Follows("insert") /\ (\A l \in lost : LostOf(l))
      /\ lost # {} => eff.skipFailed
  BY DEF Order
<1>5. got["url"] = Kept("url") /\ got["insert"] = Kept("insert")
  BY <1>4, KeptWhole
<1>6. req.method = "GET" => answer'.from = Sources
  BY DEF Served
<1>7. Sources = IF PrependInsert THEN Kept("insert") \o Kept("url") ELSE Kept("url") \o Kept("insert")
  BY <1>5 DEF Sources
<1>8. PrependInsert' = Flag("prepend", eff.prepend)'
  BY DEF PrependInsert
<1>9. \A l \in lost : Listed[l[1]][PlaceOf(l)].kind \in {"http", "script"}
  BY <1>4 DEF LostOf
<1>10. SourcesInOrder'
  <2> SUFFICES ASSUME req.method = "GET"
               PROVE  /\ answer'.from = IF Flag("prepend", eff.prepend)'
                                          THEN (Kept("insert") \o Kept("url"))'
                                          ELSE (Kept("url") \o Kept("insert"))'
                      /\ lost' # {} => eff'.skipFailed
                      /\ \A l \in lost' : Listed'[l[1]][PlaceOf(l)'].kind \in {"http", "script"}
    BY <1>2 DEF SourcesInOrder
  <2>1. answer'.from = Sources
    BY <1>6
  <2>2. \A l \in lost' : Listed'[l[1]][PlaceOf(l)'].kind \in {"http", "script"}
    BY <1>2, <1>3, <1>9
  <2>3. lost' # {} => eff'.skipFailed
    BY <1>2, <1>4
  <2>4. answer'.from = IF PrependInsert' THEN Kept("insert")' \o Kept("url")' ELSE Kept("url")' \o Kept("insert")'
    BY <1>3, <1>7, <2>1
  <2> QED
    BY <1>8, <2>2, <2>3, <2>4
<1> QED
  BY <1>2, <1>10 DEF Order, BeforeSources

LEMMA OrderStep == Shape /\ Order /\ [Next]_vars => Order'
<1> SUFFICES ASSUME Shape, Order, [Next]_vars PROVE Order'
  OBVIOUS
<1>1. CASE UNCHANGED vars
  <2>1. UNCHANGED <<settings, req, eff, lost, got, todo, from, pc, answer>>
    BY <1>1 DEF vars
  <2>2. /\ Listed' = Listed /\ (\A l : PlaceOf(l)' = PlaceOf(l)) /\ PrependInsert' = PrependInsert
        /\ \A list : LeftPlaces(list)' = LeftPlaces(list) /\ Kept(list)' = Kept(list)
    BY <2>1, SameLists, SameLeft
  <2>3. \A list : Unread(list)' = Unread(list)
    BY <2>1, <2>2 DEF Unread
  <2>4. Follows("url")' = Follows("url") /\ Follows("insert")' = Follows("insert") /\ Remaining' = Remaining
        /\ \A l : LostOf(l) => LostOf(l)'
    BY <2>1, <2>2, <2>3 DEF Follows, Remaining, LostOf
  <2>5. SourcesInOrder => SourcesInOrder'
    BY <2>1, <2>2 DEF SourcesInOrder, PrependInsert
  <2> QED
    BY <2>1, <2>4, <2>5 DEF Order
<1>2. CASE Turned
  <2>1. pc' = "done" /\ req' = req /\ (answer'.status = 200 => req.path \notin SubPaths)
    BY <1>2 DEF Turned, Answers
  <2> QED
    BY <2>1, NotServed
<1>3. ASSUME pc \in BeforeSources, pc' \in BeforeSources, UNCHANGED <<got, lost>> PROVE Order'
  BY <1>3 DEF Order, BeforeSources
<1>4. CASE Dispatched \/ ProfileAsked \/ Loaded \/ Based \/ Laid
  <2>1. pc \in BeforeSources /\ pc' \in BeforeSources /\ UNCHANGED <<got, lost>>
    BY <1>4 DEF Dispatched, ProfileAsked, Loaded, Based, Laid, GoesOn, Keeps, BeforeSources
  <2> QED
    BY <1>3, <2>1
<1>5. CASE ImportStep
  <2>1. CASE ImportTurns
    <3>1. pc' = "done" /\ answer'.status = 500
      BY <2>1 DEF ImportTurns, Answers
    <3>2. answer'.status # 200
      BY <3>1
    <3> QED
      BY <3>1, <3>2, NotServed
  <2>2. CASE ImportsDone \/ ImportsRead
    <3>1. pc \in BeforeSources /\ pc' \in BeforeSources /\ UNCHANGED <<got, lost>>
      BY <1>5, <2>2 DEF ImportStep, ImportsDone, ImportsRead, GoesOn, BeforeSources
    <3> QED
      BY <1>3, <3>1
  <2> QED
    BY <1>5, <2>1, <2>2 DEF ImportStep
<1>6. CASE Begun
  BY <1>6, OrderGathers DEF Begun
<1>7. CASE pc = "sources" /\ Resolved
  BY <1>7, OrderResolved
<1>8. CASE Inserted
  <2>1. CASE from = "url" /\ Gathers("insert")
    BY <1>8, <2>1, OrderGathers DEF Inserted
  <2>2. CASE GoesToConvert /\ (from = "insert" \/ (from = "url" /\ Listed["insert"] = <<>>))
    <3>1. Len(todo) = 0 /\ pc = "sources"
      BY <1>8 DEF Inserted
    <3>2. Unread("url") = 0
      BY <2>2, <3>1 DEF Unread
    <3>3. Unread("insert") = 0
      <4>1. Len(<<>>) = 0
        OBVIOUS
      <4> QED
        BY <2>2, <3>1, <4>1 DEF Unread
    <3> QED
      BY <2>2, <3>1, <3>2, <3>3, OrderFrame DEF GoesToConvert
  <2> QED
    BY <1>8, <2>1, <2>2 DEF Inserted
<1>9. CASE Converted
  <2>1. pc = "convert" /\ Unread("url") = 0 /\ Unread("insert") = 0
    BY <1>9 DEF Converted, Unread
  <2> QED
    BY <1>9, <2>1, OrderFrame DEF Converted, Keeps
<1>10. CASE pc = "upload" /\ Served
  BY <1>10, OrderServed
<1> QED
  BY <1>1, <1>2, <1>4, <1>5, <1>6, <1>7, <1>8, <1>9, <1>10, NextSteps

\* An answer is made from all the sources that were asked for, in their order, and
\* only failed links and scripts are left out (resolve_sources, sub_with_target).
THEOREM EverySourceInOrder == SubSpec => []SourcesInOrder
<1>1. Init => Shape /\ Order
  <2> SUFFICES ASSUME Init PROVE Shape /\ Order
    OBVIOUS
  <2>1. io \in {Capabilities(a) : a \in Adapters} /\ IsSettings(settings) /\ IsRequest(req) /\ Fresh
    BY CasesAreRequests DEF Init, Asked
  <2>2. Order
    BY <2>1 DEF Fresh, Order, BeforeSources
  <2> QED
    BY <2>1, <2>2, FreshShape
<1>2. Shape /\ [Next]_vars => Shape'
  BY RequestShapeStep
<1>3. Shape /\ Order /\ [Next]_vars => Order'
  BY OrderStep
<1>4. Shape /\ Order => SourcesInOrder
  <2> SUFFICES ASSUME Shape, Order PROVE SourcesInOrder
    OBVIOUS
  <2>1. CASE pc = "done"
    BY <2>1 DEF Order
  <2>2. CASE pc # "done"
    <3>1. answer.status = 0
      BY <2>2, Unanswered
    <3>2. answer.status # 200
      BY <3>1
    <3> QED
      BY <3>2 DEF SourcesInOrder
  <2> QED
    BY <2>1, <2>2
<1> QED
  BY <1>1, <1>2, <1>3, <1>4, PTL DEF SubSpec

-----------------------------------------------------------------------------
\* All programs side by side.  One of them runs, the others rest as they began.
Programs ==
    /\ Shape /\ Depths
    /\ GistShape /\ GistFiles
    /\ Chain /\ EdgeOutcome
    /\ IF world = "cli" THEN PrefRun /\ RunOfCli ELSE CliRests

LEMMA RequestResting == RequestRests => Shape /\ Depths
<1> SUFFICES ASSUME RequestRests PROVE Shape /\ Depths
  OBVIOUS
<1> DEFINE ask == Ask(<<>>)
<1>1. io = Capabilities("worker") /\ settings = PlainService /\ req = ask /\ Fresh
  BY DEF RequestRests, Asked
<1>2. DOMAIN PlainService = DOMAIN Defaults
  BY DEF PlainService, Service
<1>3. /\ PlainService["insertUrls"] = <<>> /\ PlainService["defaultUrls"] = <<>>
      /\ PlainService.defaultConfig = [name |-> ""] /\ <<>> \in Seq(SourceRef)
  BY DEF PlainService, Service, Defaults
<1>4. IsSet(PlainService)
  BY <1>2, <1>3 DEF IsSet
<1>5. IsConfig(PlainService.defaultConfig)
  <2>1. PlainService.defaultConfig.name = ""
    <3>1. [name |-> ""].name = ""
      OBVIOUS
    <3> QED
      BY <1>3, <3>1, Zenon
  <2> QED
    BY <2>1, Zenon DEF IsConfig
<1>6. IsSettings(settings)
  BY <1>1, <1>2, <1>4, <1>5 DEF IsSettings
<1>7. IsRequest(req)
  <2>1. DOMAIN ask = {"path", "method", "agent", "names", "args"} /\ ask.names = <<>> /\ ask.args = <<>>
    BY DEF Ask
  <2>2. DOMAIN <<>> = {} /\ <<>> \in Seq(STRING)
    OBVIOUS
  <2>3. IsArguments(<<>>)
    BY <2>2 DEF IsArguments
  <2> HIDE DEF ask
  <2> QED
    BY <1>1, <2>1, <2>2, <2>3 DEF IsRequest
<1>8. io \in {Capabilities(a) : a \in Adapters}
  BY <1>1 DEF Adapters
<1> QED
  BY <1>1, <1>6, <1>7, <1>8, FreshShape, FreshDepths

LEMMA RequestBegins == Init => Shape /\ Depths
<1> SUFFICES ASSUME Init PROVE Shape /\ Depths
  OBVIOUS
<1>1. io \in {Capabilities(a) : a \in Adapters} /\ IsSettings(settings) /\ IsRequest(req) /\ Fresh
  BY CasesAreRequests DEF Init, Asked
<1> QED
  BY <1>1, FreshShape, FreshDepths

LEMMA RestingType == CliRests => CliTypeOK
<1>1. 0 \in 0..PrefRounds /\ 1 \in 1..Versions /\ <<>> \in Seq(Line) /\ Len(<<>>) <= Len(<<>>)
  BY PrefRoundsNat
<1> QED
  BY <1>1 DEF CliRests, CliTypeOK

LEMMA EdgeBegins == EdgeRests \/ EdgeInit => Chain /\ EdgeOutcome
<1>1. EdgeRests => edge \in Edge /\ at \in Url
  <2>1. FALSE \in BOOLEAN
    OBVIOUS
  <2>2. \A no \in BOOLEAN : /\ [adapter |-> "cli", plainHttp |-> no, privateNetwork |-> no] \in Edge
                            /\ [scheme |-> "https", login |-> no, host |-> "public"] \in Url
    BY DEF Edge, Url
  <2> QED
    BY <2>1, <2>2, Zenon DEF EdgeRests
<1>2. EdgeRests \/ EdgeInit => kv \in BOOLEAN /\ result = "none"
  BY Zenon DEF EdgeRests, EdgeInit
<1>3. EdgeRests \/ EdgeInit => edge \in Edge /\ at \in Url /\ step = "cache" /\ hops = 0 /\ sent = <<>>
  BY <1>1, Zenon DEF EdgeRests, EdgeInit
<1>4. EdgeRests \/ EdgeInit => Chain
  <2> SUFFICES ASSUME EdgeRests \/ EdgeInit PROVE Chain
    OBVIOUS
  <2>1. result = "none" /\ edge \in Edge /\ at \in Url /\ step = "cache" /\ hops = 0 /\ sent = <<>>
    BY <1>2, <1>3
  <2>2. result # "content"
    BY <2>1
  <2> QED
    BY <2>1, <2>2, MaxHopsNat DEF Chain
<1> QED
  BY <1>2, <1>4, Zenon DEF EdgeOutcome

LEMMA ProgramsBegin == MCInit => Programs
<1> SUFFICES ASSUME MCInit PROVE Programs
  OBVIOUS
<1>1. GistShape /\ GistFiles
  BY QuietInit, GistInitFiles DEF MCInit, Quiet
<1>2. Chain /\ EdgeOutcome
  BY EdgeBegins DEF MCInit
<1>3. IF world = "cli" THEN PrefRun /\ RunOfCli ELSE CliRests
  BY PrefRunInit, RunOfCliInit DEF MCInit
<1>4. Shape /\ Depths
  BY RequestResting, RequestBegins DEF MCInit
<1> QED
  BY <1>1, <1>2, <1>3, <1>4 DEF Programs

LEMMA RestingSame == CliRests /\ UNCHANGED cliVars => CliRests'
BY DEF CliRests, cliVars

LEMMA ProgramsStep ==
    Programs /\ [MCNext]_<<world, vars, gistVars, edgeVars, cliVars>> => Programs'
<1> SUFFICES ASSUME Programs, [MCNext]_<<world, vars, gistVars, edgeVars, cliVars>> PROVE Programs'
  OBVIOUS
<1>1. world' = world
  BY DEF MCNext
<1>2. /\ [Next]_vars /\ [GistNext]_gistVars /\ [EdgeNext]_edgeVars
      /\ (world = "cli" /\ [CliNext]_cliVars) \/ UNCHANGED cliVars
  BY DEF MCNext
<1>3. Shape' /\ Depths'
  BY <1>2, RequestShapeStep, DepthsStep DEF Programs
<1>4. GistShape' /\ GistFiles'
  BY <1>2, ShapeStep, GistFilesStep DEF Programs
<1>5. Chain' /\ EdgeOutcome'
  BY <1>2, ChainStep, EdgeOutcomeStep DEF Programs
<1>6. IF world' = "cli" THEN PrefRun' /\ RunOfCli' ELSE CliRests'
  BY <1>1, <1>2, PrefRunStep, RunOfCliStep, RestingSame DEF Programs
<1> QED
  BY <1>3, <1>4, <1>5, <1>6 DEF Programs

\* Whichever program runs, its variables and those of the others have their types
\* (handle_request, upload_gist, send_following_redirects, main).
THEOREM ProgramsTyped == MCSpec => []MCTypeOK
<1>1. Programs => MCTypeOK
  <2> SUFFICES ASSUME Programs PROVE MCTypeOK
    OBVIOUS
  <2>1. TypeOK /\ GistTypeOK /\ EdgeTypeOK
    BY ShapeType, GistType, EdgeType DEF Programs
  <2>2. CASE world = "cli"
    BY <2>1, <2>2, PrefRunType DEF Programs, MCTypeOK
  <2>3. CASE world # "cli"
    BY <2>1, <2>3, RestingType DEF Programs, MCTypeOK
  <2> QED
    BY <2>2, <2>3
<1> QED
  BY <1>1, ProgramsBegin, ProgramsStep, PTL DEF MCSpec

\* Each loop over imports ends where its limit says (expand_config_imports,
\* load_settings, read_config_file).
THEOREM ImportsEnd == MCSpec => []ImportsBounded
<1>1. Programs => ImportsBounded
  <2> SUFFICES ASSUME Programs PROVE ImportsBounded
    OBVIOUS
  <2>1. ImportDepth
    BY DepthsImply DEF Programs
  <2>2. CASE world = "cli"
    BY <2>1, <2>2, PrefRunDepth DEF Programs, ImportsBounded
  <2>3. CASE world # "cli"
    <3>1. stage = "pref"
      BY <2>3 DEF Programs, CliRests
    <3> QED
      BY <2>1, <3>1 DEF PrefDepth, ImportsBounded
  <2> QED
    BY <2>2, <2>3
<1> QED
  BY <1>1, ProgramsBegin, ProgramsStep, PTL DEF MCSpec
=============================================================================
