----------------------------- MODULE NodeNames -----------------------------
(***************************************************************************)
(* What convert.rs does with the remarks of nodes: which of them a pattern *)
(* selects, how rules rename and decorate them, and how they are ordered.  *)
(* A remark, like every name of a document, is the sequence of its words,  *)
(* and a pattern one word that a remark has or has not.                    *)
(***************************************************************************)
EXTENDS Lists, FiniteSets

CONSTANTS
  WordOrder,  \* all words, in the order of their bytes
  Emojis,     \* those that are emojis
  DashFor     \* what becomes of those that have an equals sign

ASSUME WordsInOrder == WordOrder \in Seq(STRING)

Word == Range(WordOrder)
Remark == Seq(Word)
Has(remark, word) == word \in Range(remark)

-----------------------------------------------------------------------------
\* Matchers: a pattern, or a prefix such as !!TYPE= with an optional pattern.  The
\* groups, types or ports that the prefix allows are a set or a list of ranges.

\* A list of ports and ranges, each of which may be denied; a denied item that
\* does not match makes the list match.
RangeMatches(items, port) ==
    /\ \A i \in DOMAIN items : items[i].denied => port \notin items[i].ports
    /\ \E i \in DOMAIN items : items[i].denied \/ port \in items[i].ports

MatcherMatches(m, node) ==
    /\ m.word # "" => Has(node.remark, m.word)
    /\ CASE m.by = "remark" -> TRUE
         [] m.by = "group"  -> node.group \in m.value
         [] m.by = "type"   -> node.type \in m.value
         [] m.by = "port"   -> RangeMatches(m.value, node.port)

\* A bare pattern.
ByRemark(words) == [i \in DOMAIN words |-> [by |-> "remark", word |-> words[i]]]

\* An empty list of includes selects everything.
Selected(nodes, include, exclude) ==
    LET Kept(node) ==
            /\ include # <<>> => \E i \in DOMAIN include : MatcherMatches(include[i], node)
            /\ \A i \in DOMAIN exclude : ~MatcherMatches(exclude[i], node)
    IN  Filtered(nodes, {i \in DOMAIN nodes : Kept(nodes[i])})

-----------------------------------------------------------------------------
\* Renaming and decorating.  A rule replaces a word by another.

Renamed(remark, r) == [i \in DOMAIN remark |-> IF remark[i] = r.match THEN r.replace ELSE remark[i]]

\* Each rule is applied to what the one before it made.
RenamedByAll(remark, rules) ==
    LET after[n \in 0..Len(rules)] ==
            IF n = 0 THEN remark ELSE Renamed(after[n - 1], rules[n])
    IN  after[Len(rules)]

\* An emoji is not put before a remark that has it, but then the next rule may
\* put another one.
EmojiApplies(remark, r) == Has(remark, r.match) /\ ~Has(remark, r.replace)

\* What stands before the first space goes if it is an emoji.
WithoutEmoji(remark) == IF remark # <<>> /\ Head(remark) \in Emojis THEN Tail(remark) ELSE remark

\* The line formats use "=" to separate a name from what it is.
Dashed(remark) ==
    [i \in DOMAIN remark |-> IF remark[i] \in DOMAIN DashFor THEN DashFor[remark[i]] ELSE remark[i]]

Numeral(n) == ToString(n)

-----------------------------------------------------------------------------
\* Sorting is stable, by the bytes of the remark.

Rank(word) == CHOOSE i \in DOMAIN WordOrder : WordOrder[i] = word

Before(a, b) ==
    \E k \in 1..Len(b) :
       /\ k <= Len(a) + 1
       /\ \A i \in 1..(k - 1) : a[i] = b[i]
       /\ k <= Len(a) => Rank(a[k]) < Rank(b[k])

Sorted(nodes) ==
    LET Earlier(i, j) == \/ Before(nodes[i].remark, nodes[j].remark)
                         \/ nodes[i].remark = nodes[j].remark /\ i < j
        Place(j) == Cardinality({i \in DOMAIN nodes : Earlier(i, j)}) + 1
    IN  [p \in DOMAIN nodes |-> nodes[CHOOSE j \in DOMAIN nodes : Place(j) = p]]
=============================================================================
