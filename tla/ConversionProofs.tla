-------------------------- MODULE ConversionProofs --------------------------
(***************************************************************************)
(* What holds of Conversion for any sources, settings, options, scripts    *)
(* and time limits.                                                        *)
(***************************************************************************)
EXTENDS Conversion, SequenceLemmas

\* A step of the conversion keeps the types, whichever of the scripts is called.
LEMMA TypeStep == TypeOK /\ [Next]_vars => TypeOK'
<1> SUFFICES ASSUME TypeOK, [Next]_vars PROVE TypeOK'
  OBVIOUS
<1> USE ScriptTimePositive DEF TypeOK, Stages
<1>1. CASE UNCHANGED vars
  BY <1>1 DEF vars
<1>2. CASE ParseText
  BY <1>2 DEF ParseText, Read
<1>3. CASE ParseLink
  BY <1>3 DEF ParseLink, Read, Fail
<1>4. CASE ParseOther
  BY <1>4 DEF ParseOther, Read
<1>5. CASE EndParse
  BY <1>5 DEF EndParse, Fail
<1>6. CASE ScriptFails
  BY <1>6 DEF ScriptFails, Fail, Deadline
<1>7. CASE FilterNode
  BY <1>7 DEF FilterNode, ScriptAnswers, Deadline
<1>8. CASE EndFilter \/ EndRename
  BY <1>8 DEF EndFilter, EndRename, Advance
<1>9. CASE Prefer \/ Select \/ StartExport
  BY <1>9 DEF Prefer, Select, StartExport
<1>10. CASE RenameByRule
  <2>1. stage' = stage /\ doc' = doc /\ suffix' = suffix /\ rule' = rule + 1
    BY <1>10, Zenon DEF RenameByRule, Rewrite
  <2>2. (now' \in {now, now + 1} /\ now < ScriptTime) \/ now' = now
    BY <1>10, Zenon DEF RenameByRule, ScriptAnswers, Deadline
  <2> QED
    BY <2>1, <2>2
<1>11. CASE RenamedNode \/ Unadorned
  BY <1>11 DEF RenamedNode, Unadorned, Through
<1>12. CASE Prepare
  BY <1>12 DEF Prepare, Rewrite
<1>13. CASE AdornByRule
  BY <1>13 DEF AdornByRule, ScriptAnswers, Deadline, Rewrite, Through
<1>14. CASE EndAdorn
  BY <1>14 DEF EndAdorn
<1>15. CASE SortByScript
  BY <1>15 DEF SortByScript, ScriptAnswers, Deadline
<1>16. CASE NameTaken \/ NameFree
  BY <1>16 DEF NameTaken, NameFree
<1>17. CASE WriteDocument
  BY <1>17 DEF WriteDocument, Fail
<1> QED
  BY <1>1, <1>2, <1>3, <1>4, <1>5, <1>6, <1>7, <1>8, <1>9, <1>10, <1>11, <1>12, <1>13,
     <1>14, <1>15, <1>16, <1>17 DEF Next

\* The variables have their types, and all scripts of a conversion share one
\* time limit, for any limit (ScriptLimits, quickjs_call).
THEOREM TypeCorrect == Spec => []TypeOK
<1>1. Init => TypeOK
  BY ScriptTimePositive DEF Init, TypeOK, Stages
<1> QED
  BY <1>1, TypeStep, PTL DEF Spec

-----------------------------------------------------------------------------
\* Scripts.  The check is made once, at the end of the parsing; each stage that
\* calls scripts is entered only if the settings hold one for it.
Checked ==
    /\ job \in Jobs
    /\ stage \notin {"parse", "failed"} => (ScriptsRequested => job.authorized)
    /\ stage = "filter" => Settings.filterScript
    /\ stage = "sort" => Settings.sortScript
    /\ now # 0 => job.authorized
    /\ stage = "parse" => now = 0

LEMMA CheckedCalling == Checked /\ Calling => job.authorized
<1> SUFFICES ASSUME Checked, Calling PROVE job.authorized
  OBVIOUS
<1>1. stage \in {"filter", "rename", "adorn", "sort"}
  BY DEF Calling
<1>2. SUFFICES ScriptsRequested
  BY <1>1 DEF Checked
<1>3. CASE stage \in {"filter", "sort"}
  BY <1>3 DEF Checked, ScriptsRequested
<1>4. CASE stage = "rename"
  BY <1>4 DEF Calling, ScriptsRequested
<1>5. CASE stage = "adorn"
  <2>1. rule \in DOMAIN EmojiRules /\ EmojiRules[rule].script
    BY <1>5 DEF Calling
  <2>2. EmojiRules \in {<<>>, Options.emoji, Settings.emoji}
    BY DEF EmojiRules
  <2>3. \A i \in DOMAIN Options.emoji : ~Options.emoji[i].script
    BY RequestRulesPlain DEF Checked, Options
  <2>4. EmojiRules = Settings.emoji
    BY <2>1, <2>2, <2>3
  <2> QED
    BY <2>1, <2>4 DEF ScriptsRequested
<1> QED
  BY <1>1, <1>3, <1>4, <1>5

\* Steps that neither call a script nor enter a stage for one.
LEMMA CheckedQuiet ==
    ASSUME Checked, job' = job, now' = now, stage # "parse",
           stage' = stage \/ stage' \notin {"parse", "filter", "sort"}, stage # "failed"
    PROVE  Checked'
BY DEF Checked, ScriptsRequested, Settings, Options

\* Steps at which a script answers.
LEMMA CheckedCall ==
    ASSUME Checked, Calling, job' = job, stage # "parse",
           stage' = stage \/ stage' \notin {"parse", "filter", "sort"}, stage # "failed"
    PROVE  Checked'
BY CheckedCalling DEF Checked, ScriptsRequested, Settings, Options

LEMMA CheckedStep == Checked /\ [Next]_vars => Checked'
<1> SUFFICES ASSUME Checked, [Next]_vars PROVE Checked'
  OBVIOUS
<1>1. CASE UNCHANGED vars
  BY <1>1 DEF vars, Checked, ScriptsRequested, Settings, Options
<1>2. CASE ParseText \/ ParseLink \/ ParseOther
  BY <1>2 DEF ParseText, ParseLink, ParseOther, Read, Fail, Checked
<1>3. CASE EndParse
  BY <1>3 DEF EndParse, Fail, Checked, ScriptsRequested, Settings
<1>4. CASE ScriptFails
  BY <1>4, CheckedCalling DEF ScriptFails, Fail, Checked
<1>5. CASE FilterNode
  BY <1>5, CheckedCall DEF FilterNode, Calling
<1>6. CASE EndFilter \/ EndRename
  BY <1>6, CheckedQuiet DEF EndFilter, EndRename, Advance
<1>7. CASE Prefer \/ Select \/ StartExport
  BY <1>7, CheckedQuiet DEF Prefer, Select, StartExport
<1>8. CASE RenameByRule
  <2>1. job' = job /\ stage' = stage /\ stage = "rename"
    BY <1>8, Zenon DEF RenameByRule, Rewrite
  <2>2. Calling \/ now' = now
    BY <1>8, Zenon DEF RenameByRule, Calling
  <2> QED
    BY <2>1, <2>2, CheckedCall, CheckedQuiet
<1>9. CASE RenamedNode \/ Unadorned \/ Prepare
  BY <1>9, CheckedQuiet DEF RenamedNode, Unadorned, Prepare, Through, Rewrite
<1>10. CASE AdornByRule
  <2>1. job' = job /\ stage' = stage /\ stage = "adorn"
    BY <1>10, Zenon DEF AdornByRule, Rewrite, Through
  <2>2. Calling \/ now' = now
    BY <1>10, Zenon DEF AdornByRule, Calling
  <2> QED
    BY <2>1, <2>2, CheckedCall, CheckedQuiet
<1>11. CASE EndAdorn
  BY <1>11 DEF EndAdorn, Checked, ScriptsRequested, Settings, Options
<1>12. CASE SortByScript
  <2>1. job' = job /\ stage = "sort" /\ stage' = "export"
    BY <1>12, Zenon DEF SortByScript
  <2>2. Calling \/ now' = now
    BY <1>12 DEF SortByScript, Calling
  <2> QED
    BY <2>1, <2>2, CheckedCall, CheckedQuiet
<1>13. CASE NameTaken \/ NameFree
  BY <1>13, CheckedQuiet DEF NameTaken, NameFree
<1>14. CASE WriteDocument
  BY <1>14, CheckedQuiet DEF WriteDocument, Fail
<1> QED
  BY <1>1, <1>2, <1>3, <1>4, <1>5, <1>6, <1>7, <1>8, <1>9, <1>10, <1>11, <1>12, <1>13,
     <1>14 DEF Next

\* Scripts are called for authorized requests only, wherever in the settings they
\* stand and in whichever stage (ensure_scripts_allowed).
THEOREM OnlyAuthorizedScripts == Spec => []ScriptsAuthorized
<1>1. Init => Checked
  BY DEF Init, Checked
<1>2. Checked => ScriptsAuthorized
  BY CheckedCalling DEF ScriptsAuthorized, Checked
<1> QED
  BY <1>1, <1>2, CheckedStep, PTL DEF Spec

-----------------------------------------------------------------------------
\* Names.  The nodes that have their names are a sequence, of whatever nodes.
Distinct(ns) == \A i, j \in DOMAIN ns : ns[i].remark = ns[j].remark => i = j

Named ==
    /\ stage \in {"sort", "export"} => done = <<>>
    /\ stage \in {"name", "done"} => Distinct(done) /\ \E S : done \in Seq(S)

LEMMA AppendDistinct ==
    ASSUME NEW S, NEW ns \in Seq(S), NEW n, Distinct(ns),
           \A i \in DOMAIN ns : ns[i].remark # n.remark
    PROVE  Distinct(Append(ns, n)) /\ Append(ns, n) \in Seq(S \cup {n})
<1>1. ns \in Seq(S \cup {n})
  OBVIOUS
<1>2. Append(ns, n) \in Seq(S \cup {n}) /\ Len(Append(ns, n)) = Len(ns) + 1
  BY <1>1
<1>3. \A i \in 1..Len(ns) : Append(ns, n)[i] = ns[i]
  BY <1>1
<1>4. Append(ns, n)[Len(ns) + 1] = n
  BY <1>1
<1>5. DOMAIN ns = 1..Len(ns) /\ DOMAIN Append(ns, n) = 1..(Len(ns) + 1) /\ Len(ns) \in Nat
  BY <1>1, <1>2
<1> QED
  BY <1>2, <1>3, <1>4, <1>5 DEF Distinct

LEMMA NamedStep == Named /\ [Next]_vars => Named'
<1> SUFFICES ASSUME Named, [Next]_vars PROVE Named'
  OBVIOUS
<1>1. CASE UNCHANGED vars
  BY <1>1 DEF vars, Named
<1>2. CASE stage' \notin {"sort", "export", "name", "done"}
  BY <1>2 DEF Named
<1>3. CASE EndAdorn
  BY <1>3 DEF EndAdorn, Named
<1>4. CASE SortByScript
  BY <1>4 DEF SortByScript, Named
<1>5. CASE StartExport
  <2>1. stage' = "name" /\ done' = <<>>
    BY <1>5 DEF StartExport, Named
  <2>2. <<>> \in Seq({}) /\ DOMAIN <<>> = {}
    OBVIOUS
  <2> QED
    BY <2>1, <2>2 DEF Named, Distinct
<1>6. CASE NameTaken
  BY <1>6 DEF NameTaken, Named
<1>7. CASE NameFree
  <2> DEFINE n == WithRemark(Node, Candidate)
  <2>1. stage = "name" /\ stage' = "name" /\ done' = Append(done, n)
    BY <1>7 DEF NameFree
  <2>2. n.remark = Candidate
    BY DEF WithRemark
  <2>3. \A i \in DOMAIN done : done[i].remark # n.remark
    BY <1>7, <2>2 DEF NameFree, NameIsTaken, UsedNames
  <2>4. PICK S : done \in Seq(S)
    BY <2>1 DEF Named
  <2> HIDE DEF n
  <2>5. Distinct(done') /\ done' \in Seq(S \cup {n})
    BY <2>1, <2>3, <2>4, AppendDistinct DEF Named
  <2> QED
    BY <2>1, <2>5 DEF Named
<1>8. CASE WriteDocument
  BY <1>8 DEF WriteDocument, Fail, Named
<1>9. CASE \/ ParseText \/ ParseLink \/ ParseOther \/ EndParse \/ ScriptFails
           \/ FilterNode \/ EndFilter \/ Prefer \/ EndRename \/ Select
  <2>1. stage' \notin {"sort", "export", "name", "done"}
    <3>1. CASE ParseText \/ ParseLink \/ ParseOther \/ EndParse
      BY <1>9, <3>1 DEF ParseText, ParseLink, ParseOther, EndParse, Read, Fail
    <3>2. CASE ScriptFails \/ FilterNode \/ EndFilter \/ Prefer \/ EndRename \/ Select
      BY <1>9, <3>2 DEF ScriptFails, Fail, FilterNode, EndFilter, Prefer, EndRename, Select, Advance
    <3> QED
      BY <1>9, <3>1, <3>2
  <2> QED
    BY <1>2, <2>1
<1>10. CASE RenameByRule \/ RenamedNode \/ Prepare \/ AdornByRule \/ Unadorned
  <2>1. stage' = stage /\ stage \in {"rename", "adorn"}
    BY <1>10, Zenon DEF RenameByRule, RenamedNode, Prepare, AdornByRule, Unadorned, Through, Rewrite
  <2> QED
    BY <1>2, <2>1
<1> QED
  BY <1>1, <1>3, <1>4, <1>5, <1>6, <1>7, <1>8, <1>9, <1>10 DEF Next

\* No two nodes of a document have the same name, however their remarks were
\* renamed and suffixed before (make_unique_remarks).
THEOREM NamesUnique == Spec => []UniqueNames
<1>1. Init => Named
  BY DEF Init, Named
<1>2. Named => UniqueNames
  BY DEF Named, UniqueNames, Distinct
<1> QED
  BY <1>1, <1>2, NamedStep, PTL DEF Spec

-----------------------------------------------------------------------------
\* What a reader finds under a title of a text file.

\* The last header up to a place of a part of a file; h stands for the one above it.
HeadersTo(config, i) == {j \in Headers(config) : j <= i}
HeadAt(config, i, h) == IF HeadersTo(config, i) = {} THEN h ELSE config[Max(HeadersTo(config, i))]
HeadAfter(config, h) == HeadAt(config, Len(config), h)

\* What a reader finds under a title in such a part.
Falls(config, title, h) ==
    {i \in DOMAIN config : /\ ~IsHeader(config[i]) /\ NotBlank(config[i])
                           /\ HeadAt(config, i, h) = Heading(title)}
UnderFrom(config, title, h) == Filtered(config, Falls(config, title, h))

\* A file is a part with no header above it.
LEMMA UnderWhole == ASSUME NEW config, NEW title PROVE Under(config, title) = UnderFrom(config, title, Blank)
<1>1. Blank # Heading(title)
  BY DEF Blank, Heading
<1>2. \A i \in DOMAIN config :
         HeadAt(config, i, Blank) = Heading(title) <=>
            /\ {j \in Headers(config) : j <= i} # {}
            /\ config[Max({j \in Headers(config) : j <= i})] = Heading(title)
  BY <1>1 DEF HeadAt, HeadersTo
<1> DEFINE Q == {i \in DOMAIN config :
                    /\ ~IsHeader(config[i]) /\ NotBlank(config[i])
                    /\ {j \in Headers(config) : j <= i} # {}
                    /\ config[Max({j \in Headers(config) : j <= i})] = Heading(title)}
<1>3. Falls(config, title, Blank) = Q
  BY <1>2, Zenon DEF Falls
<1>4. Under(config, title) = Filtered(config, Q)
  BY Zenon DEF Under
<1> QED
  BY <1>3, <1>4 DEF UnderFrom

\* The headers up to a place, and the last of them.
LEMMA HeadersAre ==
    ASSUME NEW S, NEW config \in Seq(S), NEW i \in Nat
    PROVE  /\ HeadersTo(config, i) \subseteq 1..Len(config) /\ Len(config) \in Nat
           /\ \A j : j \in HeadersTo(config, i) <=> j \in 1..Len(config) /\ j <= i /\ IsHeader(config[j])
           /\ HeadersTo(config, i) # {} =>
                 /\ Max(HeadersTo(config, i)) \in HeadersTo(config, i)
                 /\ \A j \in HeadersTo(config, i) : j <= Max(HeadersTo(config, i))
<1>1. /\ HeadersTo(config, i) \subseteq 1..Len(config) /\ Len(config) \in Nat
      /\ \A j : j \in HeadersTo(config, i) <=> j \in 1..Len(config) /\ j <= i /\ IsHeader(config[j])
  BY DEF HeadersTo, Headers
<1> QED
  BY <1>1, Greatest

\* The last header in two parts, one behind the other.
LEMMA HeadAtConcat ==
    ASSUME NEW S, NEW a \in Seq(S), NEW b \in Seq(S), NEW h
    PROVE  /\ \A i \in 0..Len(a) : HeadAt(a \o b, i, h) = HeadAt(a, i, h)
           /\ \A i \in 0..Len(b) : HeadAt(a \o b, Len(a) + i, h) = HeadAt(b, i, HeadAfter(a, h))
<1> DEFINE c == a \o b
<1>1. /\ c \in Seq(S) /\ Len(c) = Len(a) + Len(b) /\ Len(a) \in Nat /\ Len(b) \in Nat
      /\ \A i \in 1..Len(a) : c[i] = a[i]
      /\ \A i \in 1..Len(b) : c[Len(a) + i] = b[i]
  BY ConcatAt
<1>2. \A i \in 1..(Len(a) + Len(b)) :
         i \in 1..Len(a) \/ (i - Len(a) \in 1..Len(b) /\ i = Len(a) + (i - Len(a)))
  BY ConcatAt
<1> HIDE DEF c
<1>3. ASSUME NEW i \in 0..Len(a) PROVE HeadAt(c, i, h) = HeadAt(a, i, h)
  <2>1. i \in Nat
    BY <1>1
  <2>2. HeadersTo(c, i) = HeadersTo(a, i)
    <3>1. \A j : j \in HeadersTo(c, i) <=> j \in 1..Len(c) /\ j <= i /\ IsHeader(c[j])
      BY <1>1, <2>1, HeadersAre
    <3>2. \A j : j \in HeadersTo(a, i) <=> j \in 1..Len(a) /\ j <= i /\ IsHeader(a[j])
      BY <2>1, HeadersAre
    <3>3. \A j : j \in 1..Len(c) /\ j <= i <=> j \in 1..Len(a) /\ j <= i
      BY <1>1
    <3>4. \A j \in 1..Len(a) : c[j] = a[j]
      BY <1>1
    <3>5. \A j : j \in HeadersTo(c, i) <=> j \in HeadersTo(a, i)
      BY <3>1, <3>2, <3>3, <3>4, Zenon
    <3> QED
      BY <3>5
  <2>3. HeadersTo(a, i) # {} => Max(HeadersTo(a, i)) \in 1..Len(a)
    BY <2>1, HeadersAre
  <2> QED
    BY <1>1, <2>2, <2>3 DEF HeadAt
<1>4. ASSUME NEW i \in 0..Len(b) PROVE HeadAt(c, Len(a) + i, h) = HeadAt(b, i, HeadAfter(a, h))
  <2> DEFINE H == HeadersTo(c, Len(a) + i)
             A == HeadersTo(a, Len(a))
             B == HeadersTo(b, i)
  <2>1. i \in Nat /\ Len(a) + i \in Nat /\ i <= Len(b)
    BY <1>1
  <2>2. \A j : j \in H <=> j \in 1..Len(c) /\ j <= Len(a) + i /\ IsHeader(c[j])
    BY <1>1, <2>1, HeadersAre
  <2>3. A \subseteq 1..Len(a) /\ \A j : j \in A <=> j \in 1..Len(a) /\ j <= Len(a) /\ IsHeader(a[j])
    BY <1>1, HeadersAre
  <2>4. B \subseteq 1..Len(b) /\ \A j : j \in B <=> j \in 1..Len(b) /\ j <= i /\ IsHeader(b[j])
    BY <1>1, <2>1, HeadersAre
  <2>5. \A j \in 1..Len(a) : j \in H <=> j \in A
    BY <1>1, <2>1, <2>2, <2>3
  <2>6. ASSUME NEW j \in 1..Len(b) PROVE Len(a) + j \in H <=> j \in B
    <3>1. /\ Len(a) + j \in 1..Len(c) /\ (Len(a) + j <= Len(a) + i <=> j <= i)
          /\ c[Len(a) + j] = b[j]
      BY <1>1, <2>1
    <3> HIDE DEF H, B
    <3> QED
      BY <2>2, <2>4, <3>1
  <2>7. H \subseteq 1..(Len(a) + Len(b))
    BY <1>1, <2>2
  <2>8. HeadAt(c, Len(a) + i, h) = IF H = {} THEN h ELSE c[Max(H)]
    BY DEF HeadAt
  <2>9. HeadAt(b, i, HeadAfter(a, h)) =
           IF B # {} THEN b[Max(B)] ELSE IF A # {} THEN a[Max(A)] ELSE h
    BY DEF HeadAt, HeadAfter
  <2>10. A # {} => Max(A) \in A
    BY <1>1, HeadersAre
  <2>11. B # {} => Max(B) \in B /\ \A j \in B : j <= Max(B)
    BY <1>1, <2>1, HeadersAre
  <2> HIDE DEF H, A, B
  <2>12. CASE B = {}
    <3>1. H = A
      BY <1>2, <2>3, <2>5, <2>6, <2>7, <2>12
    <3>2. A # {} => c[Max(A)] = a[Max(A)]
      BY <1>1, <2>3, <2>10
    <3> QED
      BY <2>8, <2>9, <2>12, <3>1, <3>2
  <2>13. CASE B # {}
    <3> DEFINE m == Len(a) + Max(B)
    <3>1. Max(B) \in 1..Len(b) /\ \A j \in B : j <= Max(B)
      BY <2>4, <2>11, <2>13
    <3>2. m \in H /\ c[m] = b[Max(B)]
      BY <1>1, <2>6, <2>11, <2>13, <3>1
    <3>3. ASSUME NEW j \in H PROVE j <= m
      <4>1. CASE j \in 1..Len(a)
        BY <1>1, <3>1, <4>1
      <4>2. CASE j - Len(a) \in 1..Len(b) /\ j = Len(a) + (j - Len(a))
        <5>1. j - Len(a) \in B
          BY <2>6, <4>2
        <5>2. j - Len(a) <= Max(B)
          BY <3>1, <5>1
        <5> QED
          BY <1>1, <2>7, <3>1, <5>2
      <4> QED
        BY <1>2, <2>7, <4>1, <4>2
    <3>4. H \subseteq Nat
      BY <1>1, <2>7
    <3> HIDE DEF m
    <3>5. Max(H) = m
      BY <3>2, <3>3, <3>4, GreatestIs
    <3> QED
      BY <2>8, <2>9, <2>13, <3>2, <3>5
  <2> QED
    BY <2>12, <2>13
<1> QED
  BY <1>3, <1>4 DEF c

\* Reading a part below the header h finds these lines under the title, and g is
\* the last header then.
Finds(part, title, h, lines, g) == UnderFrom(part, title, h) = lines /\ HeadAfter(part, h) = g

\* A reader finds in two parts, one behind the other, what it finds in each.
LEMMA FindsConcat ==
    ASSUME NEW S, NEW a \in Seq(S), NEW b \in Seq(S), NEW title, NEW h, NEW f, NEW g, NEW v, NEW w,
           Finds(a, title, h, v, f), Finds(b, title, f, w, g)
    PROVE  Finds(a \o b, title, h, v \o w, g)
<1> DEFINE c == a \o b
           P == Falls(c, title, h)
           Q == Falls(a, title, h)
           R == Falls(b, title, HeadAfter(a, h))
<1>1. /\ Len(c) = Len(a) + Len(b) /\ DOMAIN c = 1..(Len(a) + Len(b))
      /\ DOMAIN a = 1..Len(a) /\ DOMAIN b = 1..Len(b) /\ Len(a) \in Nat /\ Len(b) \in Nat
      /\ \A i \in 1..Len(a) : c[i] = a[i]
      /\ \A i \in 1..Len(b) : c[Len(a) + i] = b[i]
  BY ConcatAt
<1>2. /\ \A i \in 0..Len(a) : HeadAt(c, i, h) = HeadAt(a, i, h)
      /\ \A i \in 0..Len(b) : HeadAt(c, Len(a) + i, h) = HeadAt(b, i, HeadAfter(a, h))
  BY HeadAtConcat
<1>3. Filtered(c, P) = Filtered(a, P) \o Filtered(b, Beyond(P, Len(a)))
  BY FilteredConcat
<1> HIDE DEF c
<1>4. Alike(a, P, Q)
  <2> SUFFICES ASSUME NEW i \in 1..Len(a) PROVE i \in P <=> i \in Q
    BY <1>1 DEF Alike
  <2>1. i \in DOMAIN c /\ i \in DOMAIN a /\ c[i] = a[i] /\ HeadAt(c, i, h) = HeadAt(a, i, h)
    BY <1>1, <1>2
  <2> QED
    BY <2>1, Zenon DEF Falls
<1>5. Alike(b, Beyond(P, Len(a)), R)
  <2> SUFFICES ASSUME NEW i \in 1..Len(b) PROVE i \in Beyond(P, Len(a)) <=> i \in R
    BY <1>1 DEF Alike
  <2>1. /\ Len(a) + i \in DOMAIN c /\ i \in DOMAIN b /\ c[Len(a) + i] = b[i] /\ i \in Nat
        /\ HeadAt(c, Len(a) + i, h) = HeadAt(b, i, HeadAfter(a, h))
    BY <1>1, <1>2
  <2> QED
    BY <2>1, Zenon DEF Falls, Beyond
<1> HIDE DEF P, Q, R
<1>6. Filtered(a, P) = Filtered(a, Q) /\ Filtered(b, Beyond(P, Len(a))) = Filtered(b, R)
  BY <1>4, <1>5, FilteredSame
<1>7. HeadAfter(c, h) = HeadAfter(b, HeadAfter(a, h))
  BY <1>1, <1>2 DEF HeadAfter
<1>8. HeadAfter(a, h) = f /\ HeadAfter(b, f) = g /\ Filtered(a, Q) = v
  BY DEF Finds, UnderFrom, Q
<1>9. Filtered(b, R) = w
  BY <1>8 DEF Finds, UnderFrom, R
<1>10. Filtered(c, P) = v \o w /\ HeadAfter(c, h) = g
  BY <1>3, <1>6, <1>7, <1>8, <1>9, Zenon
<1> QED
  BY <1>10 DEF Finds, UnderFrom, P, c

\* A part without headers.
Plain(config) == \A i \in DOMAIN config : ~IsHeader(config[i])
Text(config) == Filtered(config, {i \in DOMAIN config : NotBlank(config[i])})

\* Without headers, all lines are under the one above.
LEMMA UnderPlain ==
    ASSUME NEW S, NEW config \in Seq(S), Plain(config), NEW title, NEW h
    PROVE  /\ UnderFrom(config, title, h) = IF h = Heading(title) THEN Text(config) ELSE <<>>
           /\ HeadAfter(config, h) = h
<1>1. \A i : HeadersTo(config, i) = {}
  BY DEF HeadersTo, Headers, Plain
<1>2. \A i : HeadAt(config, i, h) = h
  BY <1>1 DEF HeadAt
<1>3. CASE h = Heading(title)
  <2>1. Falls(config, title, h) = {i \in DOMAIN config : NotBlank(config[i])}
    BY <1>2, <1>3, Zenon DEF Falls, Plain
  <2> QED
    BY <1>2, <1>3, <2>1, Zenon DEF UnderFrom, Text, HeadAfter
<1>4. CASE h # Heading(title)
  <2> DEFINE P == Falls(config, title, h)
  <2>1. \A i \in DOMAIN config : i \notin P
    BY <1>2, <1>4, Zenon DEF Falls
  <2> HIDE DEF P
  <2>2. Filtered(config, P) = <<>>
    BY <2>1, FilteredNone
  <2> QED
    BY <1>2, <1>4, <2>2 DEF UnderFrom, HeadAfter, P
<1> QED
  BY <1>3, <1>4

\* Of nothing, nothing.
LEMMA UnderEmpty ==
    ASSUME NEW title, NEW h
    PROVE  UnderFrom(<<>>, title, h) = <<>> /\ HeadAfter(<<>>, h) = h
<1>1. <<>> \in Seq({}) /\ Plain(<<>>)
  BY DEF Plain
<1>2. HeadAfter(<<>>, h) = h
  BY <1>1, UnderPlain
<1> QED
  BY <1>2, FilteredEmpty DEF UnderFrom

\* A header has no lines of its own, and is the last header then.
LEMMA UnderHeading ==
    ASSUME NEW u, NEW title, NEW h
    PROVE  UnderFrom(<<Heading(u)>>, title, h) = <<>> /\ HeadAfter(<<Heading(u)>>, h) = Heading(u)
<1> DEFINE x == Heading(u)
<1>1. IsHeader(x)
  BY DEF IsHeader, Heading
<1> HIDE DEF x
<1>2. 1 \notin Falls(<<x>>, title, h)
  BY <1>1 DEF Falls
<1>3. UnderFrom(<<x>>, title, h) = <<>>
  BY <1>2, FilteredOne DEF UnderFrom
<1>4. HeadersTo(<<x>>, 1) = {1}
  BY <1>1 DEF HeadersTo, Headers
<1>5. Max({1}) = 1
  BY GreatestIs
<1>6. HeadAfter(<<x>>, h) = x
  BY <1>4, <1>5 DEF HeadAfter, HeadAt
<1> QED
  BY <1>3, <1>6 DEF x

\* Under a title that is neither above nor inside there is nothing.
LEMMA UnderUnopened ==
    ASSUME NEW S, NEW config \in Seq(S), NEW title, Openings(config, title) = {}, NEW h,
           h # Heading(title)
    PROVE  UnderFrom(config, title, h) = <<>> /\ HeadAfter(config, h) # Heading(title)
<1>1. ASSUME NEW i \in Nat PROVE HeadAt(config, i, h) # Heading(title)
  <2>1. HeadersTo(config, i) # {} => Max(HeadersTo(config, i)) \in DOMAIN config
    BY HeadersAre
  <2> QED
    BY <2>1 DEF HeadAt, Openings
<1>2. \A i \in DOMAIN config : i \notin Falls(config, title, h)
  BY <1>1 DEF Falls
<1> DEFINE P == Falls(config, title, h)
<1>3. \A i \in DOMAIN config : i \notin P
  BY <1>2
<1> HIDE DEF P
<1>4. Filtered(config, P) = <<>>
  BY <1>3, FilteredNone
<1>5. Len(config) \in Nat
  OBVIOUS
<1> QED
  BY <1>1, <1>4, <1>5 DEF UnderFrom, HeadAfter, P

\* A part that starts with a header, if with anything.
Starts(config) == config # <<>> => IsHeader(config[1])

\* What is above a header does not matter to what follows it.
LEMMA UnderStarts ==
    ASSUME NEW S, NEW config \in Seq(S), Starts(config), NEW title, NEW g, NEW h
    PROVE  UnderFrom(config, title, g) = UnderFrom(config, title, h)
<1>1. ASSUME NEW i \in DOMAIN config PROVE HeadAt(config, i, g) = HeadAt(config, i, h)
  <2>1. i \in Nat /\ 1 \in 1..Len(config) /\ 1 <= i
    OBVIOUS
  <2>2. 1 \in HeadersTo(config, i)
    BY <2>1, HeadersAre DEF Starts
  <2> QED
    BY <2>2 DEF HeadAt
<1>2. Falls(config, title, g) = Falls(config, title, h)
  BY <1>1, Zenon DEF Falls
<1> QED
  BY <1>2 DEF UnderFrom

-----------------------------------------------------------------------------
\* Where titles open sections.

\* Where a title opens a section in one part of a file or another.
LEMMA OpeningsConcat ==
    ASSUME NEW S, NEW a \in Seq(S), NEW b \in Seq(S), NEW title
    PROVE  /\ \A i \in 1..Len(a) : i \in Openings(a \o b, title) <=> i \in Openings(a, title)
           /\ \A i \in 1..Len(b) : Len(a) + i \in Openings(a \o b, title) <=> i \in Openings(b, title)
           /\ Openings(a \o b, title) \subseteq 1..(Len(a) + Len(b))
           /\ Openings(a, title) \subseteq 1..Len(a) /\ Openings(b, title) \subseteq 1..Len(b)
<1>1. /\ Len(a) \in Nat /\ Len(b) \in Nat
      /\ DOMAIN (a \o b) = 1..(Len(a) + Len(b)) /\ DOMAIN a = 1..Len(a) /\ DOMAIN b = 1..Len(b)
      /\ \A i \in 1..Len(a) : (a \o b)[i] = a[i]
      /\ \A i \in 1..Len(b) : (a \o b)[Len(a) + i] = b[i]
  BY ConcatAt
<1> DEFINE c == a \o b
<1>2. /\ DOMAIN c = 1..(Len(a) + Len(b))
      /\ \A i \in 1..Len(a) : c[i] = a[i] /\ i \in 1..(Len(a) + Len(b))
      /\ \A i \in 1..Len(b) : c[Len(a) + i] = b[i] /\ Len(a) + i \in 1..(Len(a) + Len(b))
  BY <1>1
<1> HIDE DEF c
<1>3. /\ \A i \in 1..Len(a) : i \in Openings(c, title) <=> i \in Openings(a, title)
      /\ \A i \in 1..Len(b) : Len(a) + i \in Openings(c, title) <=> i \in Openings(b, title)
      /\ Openings(c, title) \subseteq 1..(Len(a) + Len(b))
      /\ Openings(a, title) \subseteq 1..Len(a) /\ Openings(b, title) \subseteq 1..Len(b)
  BY <1>1, <1>2, Zenon DEF Openings
<1> QED
  BY <1>3 DEF c

\* A title is there once if it is there once in one part and not in the other.
LEMMA OnceConcat ==
    ASSUME NEW S, NEW a \in Seq(S), NEW b \in Seq(S), NEW title
    PROVE  /\ Openings(a \o b, title) = {} <=> Openings(a, title) = {} /\ Openings(b, title) = {}
           /\ Once(a \o b, title) <=>
                 /\ Once(a, title) /\ Once(b, title)
                 /\ Openings(a, title) = {} \/ Openings(b, title) = {}
<1> DEFINE C == Openings(a \o b, title)
           A == Openings(a, title)
           B == Openings(b, title)
           m == Len(a)
           n == Len(b)
<1>1. /\ \A i \in 1..m : i \in C <=> i \in A
      /\ \A i \in 1..n : m + i \in C <=> i \in B
      /\ C \subseteq 1..(m + n) /\ A \subseteq 1..m /\ B \subseteq 1..n
  BY OpeningsConcat
<1>2. m \in Nat /\ n \in Nat
  OBVIOUS
<1> HIDE DEF A, B, C, m, n
<1>3. \A i \in C : i \in A \/ (i - m \in B /\ i = m + (i - m))
  BY <1>1, <1>2
<1>4. C = {} <=> A = {} /\ B = {}
  BY <1>1, <1>2, <1>3
<1>5. ASSUME \A i, j \in C : i = j
      PROVE  (\A i, j \in A : i = j) /\ (\A i, j \in B : i = j) /\ (A = {} \/ B = {})
  <2>1. \A i, j \in A : i = j
    BY <1>1, <1>5
  <2>2. \A i, j \in B : m + i = m + j
    BY <1>1, <1>5
  <2>3. \A i, j \in B : i = j
    BY <1>1, <1>2, <2>2
  <2>4. A = {} \/ B = {}
    <3> SUFFICES ASSUME NEW i \in A, NEW j \in B PROVE FALSE
      OBVIOUS
    <3>1. i = m + j
      BY <1>1, <1>5
    <3> QED
      BY <1>1, <1>2, <3>1
  <2> QED
    BY <2>1, <2>3, <2>4
<1>6. ASSUME \A i, j \in A : i = j, \A i, j \in B : i = j, A = {} \/ B = {}
      PROVE  \A i, j \in C : i = j
  <2> SUFFICES ASSUME NEW i \in C, NEW j \in C PROVE i = j
    OBVIOUS
  <2>1. CASE A = {}
    <3>1. i - m = j - m /\ i = m + (i - m) /\ j = m + (j - m)
      BY <1>3, <1>6, <2>1
    <3> QED
      BY <3>1
  <2>2. CASE B = {}
    BY <1>3, <1>6, <2>2
  <2> QED
    BY <1>6, <2>1, <2>2
<1>7. (\A i, j \in C : i = j) <=>
         (\A i, j \in A : i = j) /\ (\A i, j \in B : i = j) /\ (A = {} \/ B = {})
  BY <1>5, <1>6
<1> QED
  BY <1>4, <1>7 DEF Once, A, B, C

\* No title without a header.
LEMMA OpeningsPlain ==
    ASSUME NEW config, Plain(config), NEW title PROVE Openings(config, title) = {}
BY DEF Plain, Openings, IsHeader, Heading

\* A header opens its own title only.
LEMMA OpeningsHeading ==
    ASSUME NEW u, NEW title
    PROVE  /\ Openings(<<Heading(u)>>, title) = IF u = title THEN {1} ELSE {}
           /\ Once(<<Heading(u)>>, title)
<1>1. Heading(u) = Heading(title) <=> u = title
  BY DEF Heading
<1>2. Openings(<<Heading(u)>>, title) = IF u = title THEN {1} ELSE {}
  BY <1>1 DEF Openings
<1> QED
  BY <1>2 DEF Once

\* A file around one section: what is before its title, its lines, and the rest.
IsCut(S, p, title, b, s) ==
    /\ p \in Seq(S) /\ b \in Seq(S) /\ s \in Seq(S) /\ Heading(title) \in S
    /\ Plain(b) /\ Starts(s)
    /\ Openings(p, title) = {} /\ Openings(s, title) = {}
Joined(p, title, b, s) == p \o (<<Heading(title)>> \o (b \o s))

\* Its parts are sequences of lines.
LEMMA JoinedParts ==
    ASSUME NEW S, NEW p, NEW title, NEW b, NEW s, IsCut(S, p, title, b, s)
    PROVE  /\ b \o s \in Seq(S) /\ <<Heading(title)>> \in Seq(S)
           /\ <<Heading(title)>> \o (b \o s) \in Seq(S)
           /\ Joined(p, title, b, s) \in Seq(S)
<1> DEFINE h == <<Heading(title)>>
<1>1. h \in Seq(S) /\ b \in Seq(S) /\ s \in Seq(S) /\ p \in Seq(S)
  BY DEF IsCut
<1> HIDE DEF h
<1>2. b \o s \in Seq(S)
  BY <1>1, ConcatAt
<1>3. h \o (b \o s) \in Seq(S)
  BY <1>1, <1>2, ConcatAt
<1>4. p \o (h \o (b \o s)) \in Seq(S)
  BY <1>1, <1>3, ConcatAt
<1> QED
  BY <1>1, <1>2, <1>3, <1>4 DEF Joined, h

\* What a reader finds in it: the section's lines under the title, the rest elsewhere.
LEMMA JoinedUnder ==
    ASSUME NEW S, NEW p, NEW title, NEW b, NEW s, IsCut(S, p, title, b, s), NEW u
    PROVE  Under(Joined(p, title, b, s), u) =
              IF u = title THEN Text(b)
              ELSE UnderFrom(p, u, Blank) \o UnderFrom(s, u, Heading(title))
<1> DEFINE h == <<Heading(title)>>
           H == Heading(title)
           g == HeadAfter(p, Blank)
           k == HeadAfter(s, H)
           P == UnderFrom(p, u, Blank)
           Q == UnderFrom(s, u, H)
           B == IF u = title THEN Text(b) ELSE <<>>
           x == b \o s
           y == h \o x
<1>1. /\ p \in Seq(S) /\ b \in Seq(S) /\ s \in Seq(S) /\ Plain(b) /\ Starts(s)
      /\ Openings(p, title) = {} /\ Openings(s, title) = {}
  BY DEF IsCut
<1>2. h \in Seq(S) /\ x \in Seq(S) /\ y \in Seq(S)
  BY JoinedParts
<1>3. H = Heading(u) <=> u = title
  BY DEF Heading
<1>4. Blank # H
  BY DEF Blank, Heading
<1>5. Finds(p, u, Blank, P, g) /\ Finds(s, u, H, Q, k)
  BY DEF Finds
<1>6. Finds(h, u, g, <<>>, H)
  BY UnderHeading DEF Finds
<1>7. Finds(b, u, H, B, H)
  <2> HIDE DEF H
  <2>1. UnderFrom(b, u, H) = (IF H = Heading(u) THEN Text(b) ELSE <<>>) /\ HeadAfter(b, H) = H
    BY <1>1, UnderPlain
  <2> QED
    BY <1>3, <2>1 DEF Finds
<1>8. P \in Seq(S) /\ Q \in Seq(S) /\ B \in Seq(S)
  <2>1. P \in Seq(S) /\ Q \in Seq(S) /\ Text(b) \in Seq(S)
    BY <1>1, FilteredType DEF UnderFrom, Text
  <2> QED
    BY <2>1
<1>9. u = title => P = <<>> /\ Q = <<>>
  <2> SUFFICES ASSUME u = title PROVE P = <<>> /\ Q = <<>>
    OBVIOUS
  <2> HIDE DEF H
  <2>1. UnderFrom(p, u, Blank) = <<>>
    BY <1>1, <1>4, UnderUnopened DEF H
  <2>2. UnderFrom(s, u, H) = UnderFrom(s, u, Blank)
    BY <1>1, UnderStarts
  <2>3. UnderFrom(s, u, Blank) = <<>>
    BY <1>1, <1>4, UnderUnopened DEF H
  <2> QED
    BY <2>1, <2>2, <2>3
<1> HIDE DEF h, H, g, k, P, Q, B, x, y
<1>10. Finds(x, u, H, B \o Q, k)
  BY <1>1, <1>5, <1>7, FindsConcat DEF x
<1>11. Finds(y, u, g, <<>> \o (B \o Q), k)
  BY <1>2, <1>6, <1>10, FindsConcat DEF y
<1>12. Finds(p \o y, u, Blank, P \o (<<>> \o (B \o Q)), k)
  BY <1>1, <1>2, <1>5, <1>11, FindsConcat
<1>13. Under(Joined(p, title, b, s), u) = P \o (<<>> \o (B \o Q))
  BY <1>12, UnderWhole DEF Finds, Joined, h, x, y
<1>14. \A z \in Seq(S) : <<>> \o z = z /\ z \o <<>> = z
  BY ConcatEmptySeq
<1>15. CASE u = title
  <2>1. B = Text(b) /\ P = <<>> /\ Q = <<>>
    BY <1>9, <1>15 DEF B
  <2> QED
    BY <1>8, <1>13, <1>14, <1>15, <2>1, Zenon
<1>16. CASE u # title
  <2>1. B = <<>>
    BY <1>16 DEF B
  <2> QED
    BY <1>8, <1>13, <1>14, <1>16, <2>1, Zenon DEF P, Q, H
<1> QED
  BY <1>15, <1>16

\* The title is there once, the others as often as in the rest.
LEMMA JoinedOnce ==
    ASSUME NEW S, NEW p, NEW title, NEW b, NEW s, IsCut(S, p, title, b, s), NEW u
    PROVE  Once(Joined(p, title, b, s), u) <=> u = title \/ Once(p \o s, u)
<1> DEFINE h == <<Heading(title)>>
<1>1. /\ p \in Seq(S) /\ b \in Seq(S) /\ s \in Seq(S) /\ Plain(b)
      /\ Openings(p, title) = {} /\ Openings(s, title) = {}
  BY DEF IsCut
<1>2. b \o s \in Seq(S) /\ h \in Seq(S) /\ h \o (b \o s) \in Seq(S)
  BY JoinedParts
<1>3. Once(h, u) /\ (Openings(h, u) = {} <=> u # title)
  BY OpeningsHeading
<1>4. Openings(b, u) = {}
  BY <1>1, OpeningsPlain
<1> HIDE DEF h
<1> DEFINE y == b \o s
           x == h \o y
<1>5. p \in Seq(S) /\ h \in Seq(S) /\ x \in Seq(S) /\ y \in Seq(S)
  BY <1>1, <1>2
<1> HIDE DEF x, y
<1>6. /\ Openings(x, u) = {} <=> Openings(h, u) = {} /\ Openings(y, u) = {}
      /\ Once(x, u) <=> Once(y, u) /\ (Openings(h, u) = {} \/ Openings(y, u) = {})
  BY <1>5, <1>3, OnceConcat DEF x
<1>7. /\ Openings(y, u) = {} <=> Openings(s, u) = {}
      /\ Once(y, u) <=> Once(s, u)
  BY <1>1, <1>4, OnceConcat DEF Once, y
<1>8. Once(p \o x, u) <=>
         Once(p, u) /\ Once(x, u) /\ (Openings(p, u) = {} \/ Openings(x, u) = {})
  BY <1>5, OnceConcat
<1>9. Once(p \o s, u) <=> Once(p, u) /\ Once(s, u) /\ (Openings(p, u) = {} \/ Openings(s, u) = {})
  BY <1>1, OnceConcat
<1>10. u = title => Once(p, u) /\ Once(s, u) /\ Openings(p, u) = {} /\ Openings(s, u) = {}
  BY <1>1 DEF Once
<1>11. Once(Joined(p, title, b, s), u) <=> Once(p \o x, u)
  BY DEF Joined, h, x, y
<1> QED
  BY <1>3, <1>7, <1>6, <1>8, <1>9, <1>10, <1>11, Zenon

-----------------------------------------------------------------------------
\* One section of a file.

\* The section that a title opens at a place: it ends before the next header.
Above(config, i) == SubSeq(config, 1, i - 1)
Within(config, i) == SubSeq(config, i + 1, NextHeader(config, i) - 1)
Below(config, i) == SubSeq(config, NextHeader(config, i), Len(config))

\* A section ends at the first header behind it, or with the file.
LEMMA NextHeaderIs ==
    ASSUME NEW S, NEW config \in Seq(S), NEW i \in 1..Len(config)
    PROVE  /\ NextHeader(config, i) \in (i + 1)..(Len(config) + 1)
           /\ \A j \in (i + 1)..(NextHeader(config, i) - 1) : ~IsHeader(config[j])
           /\ NextHeader(config, i) <= Len(config) => IsHeader(config[NextHeader(config, i)])
<1> DEFINE T == {j \in Headers(config) : j > i} \cup {Len(config) + 1}
           n == NextHeader(config, i)
<1>1. Len(config) \in Nat /\ DOMAIN config = 1..Len(config)
  OBVIOUS
<1>2. /\ T \subseteq Nat /\ T # {} /\ T \subseteq (i + 1)..(Len(config) + 1)
      /\ \A j \in T : j <= Len(config) => IsHeader(config[j])
  BY <1>1 DEF Headers
<1>3. \A j \in (i + 1)..Len(config) : IsHeader(config[j]) => j \in T
  BY <1>1 DEF Headers
<1>4. n = Min(T)
  BY DEF NextHeader
<1> HIDE DEF T, n
<1>5. n \in T /\ \A j \in T : n <= j
  BY <1>2, <1>4, Smallest
<1>6. n \in (i + 1)..(Len(config) + 1) /\ (n <= Len(config) => IsHeader(config[n]))
  BY <1>2, <1>5
<1>7. \A j \in (i + 1)..(n - 1) : ~IsHeader(config[j])
  <2> SUFFICES ASSUME NEW j \in (i + 1)..(n - 1), IsHeader(config[j]) PROVE FALSE
    OBVIOUS
  <2>1. j \in (i + 1)..Len(config) /\ ~(n <= j)
    BY <1>1, <1>6
  <2> QED
    BY <1>3, <1>5, <2>1
<1> QED
  BY <1>6, <1>7 DEF n

\* Around a section that is there once the file is cut in three.
LEMMA CutAt ==
    ASSUME NEW S, NEW config \in Seq(S), NEW title, Once(config, title), NEW i \in Openings(config, title)
    PROVE  /\ IsCut(S, Above(config, i), title, Within(config, i), Below(config, i))
           /\ config = Joined(Above(config, i), title, Within(config, i), Below(config, i))
           /\ Openings(config, title) = {i} /\ i \in 1..Len(config) /\ config[i] = Heading(title)
<1> DEFINE n == NextHeader(config, i)
           p == SubSeq(config, 1, i - 1)
           b == SubSeq(config, i + 1, n - 1)
           s == SubSeq(config, n, Len(config))
<1>1. Len(config) \in Nat /\ DOMAIN config = 1..Len(config)
  OBVIOUS
<1>2. i \in 1..Len(config) /\ config[i] = Heading(title) /\ Openings(config, title) = {i}
  BY <1>1 DEF Openings, Once
<1>3. /\ n \in (i + 1)..(Len(config) + 1)
      /\ \A j \in (i + 1)..(n - 1) : ~IsHeader(config[j])
      /\ n <= Len(config) => IsHeader(config[n])
  BY <1>2, NextHeaderIs
<1> HIDE DEF n
<1>4. /\ p \in Seq(S) /\ Len(p) = i - 1 /\ \A j \in 1..(i - 1) : p[j] = config[j]
  BY <1>1, <1>2, PartType
<1>5. /\ b \in Seq(S) /\ Len(b) = n - (i + 1) /\ \A j \in 1..(n - (i + 1)) : b[j] = config[i + j]
  <2>1. i + 1 \in Nat /\ n - 1 \in Nat /\ 1 <= i + 1 /\ n - 1 <= Len(config)
    BY <1>1, <1>2, <1>3
  <2>2. /\ b \in Seq(S)
        /\ Len(b) = IF i + 1 <= n - 1 THEN (n - 1) - (i + 1) + 1 ELSE 0
        /\ \A j \in 1..((n - 1) - (i + 1) + 1) : b[j] = config[(i + 1) + j - 1]
    BY <2>1, PartType
  <2> HIDE DEF b
  <2> QED
    BY <1>2, <1>3, <2>2
<1>6. /\ s \in Seq(S) /\ Len(s) = Len(config) + 1 - n
      /\ \A j \in 1..(Len(config) + 1 - n) : s[j] = config[(n - 1) + j]
  <2>1. n \in Nat /\ 1 <= n
    BY <1>1, <1>2, <1>3
  <2>2. /\ s \in Seq(S) /\ Len(s) = IF n <= Len(config) THEN Len(config) - n + 1 ELSE 0
        /\ \A j \in 1..(Len(config) - n + 1) : s[j] = config[n + j - 1]
    BY <1>1, <2>1, PartType
  <2> HIDE DEF s
  <2> QED
    BY <1>1, <1>2, <1>3, <2>2
<1>7. config = p \o (<<Heading(title)>> \o (b \o s))
  <2>1. p \o SubSeq(config, i, Len(config)) = config
    <3>1. 1 \in 1..(Len(config) + 1) /\ i - 1 \in (1 - 1)..Len(config) /\ Len(config) \in (i - 1)..Len(config)
      BY <1>1, <1>2
    <3>2. SubSeq(config, 1, i - 1) \o SubSeq(config, (i - 1) + 1, Len(config)) = SubSeq(config, 1, Len(config))
      BY <3>1, ConcatAdjacentSubSeq
    <3>3. SubSeq(config, 1, Len(config)) = config /\ (i - 1) + 1 = i
      BY <1>2, SubSeqFull
    <3> QED
      BY <3>2, <3>3
  <2>2. SubSeq(config, i, Len(config)) = <<config[i]>> \o SubSeq(config, i + 1, Len(config))
    <3>1. i \in 1..Len(config) /\ Len(config) \in i..Len(config)
      BY <1>1, <1>2
    <3> QED
      BY <3>1, SubSeqRecursiveFirst
  <2>3. b \o s = SubSeq(config, i + 1, Len(config))
    <3>1. i + 1 \in 1..(Len(config) + 1) /\ n - 1 \in ((i + 1) - 1)..Len(config) /\ Len(config) \in (n - 1)..Len(config)
      BY <1>1, <1>2, <1>3
    <3>2. b \o SubSeq(config, (n - 1) + 1, Len(config)) = SubSeq(config, i + 1, Len(config))
      BY <3>1, ConcatAdjacentSubSeq
    <3>3. (n - 1) + 1 = n
      BY <1>2, <1>3
    <3> QED
      BY <3>2, <3>3
  <2> QED
    BY <1>2, <2>1, <2>2, <2>3, Zenon
<1> HIDE DEF p, b, s
<1>8. Plain(b)
  <2> SUFFICES ASSUME NEW j \in 1..(n - (i + 1)) PROVE ~IsHeader(b[j])
    BY <1>5 DEF Plain
  <2>1. i + j \in (i + 1)..(n - 1)
    BY <1>2, <1>3
  <2> QED
    BY <1>3, <1>5, <2>1
<1>9. Starts(s)
  <2> SUFFICES ASSUME s # <<>> PROVE IsHeader(s[1])
    BY DEF Starts
  <2>1. Len(s) # 0
    BY <1>6
  <2>2. 1 \in 1..(Len(config) + 1 - n) /\ (n - 1) + 1 = n /\ n <= Len(config)
    BY <1>1, <1>2, <1>3, <1>6, <2>1
  <2> QED
    BY <1>3, <1>6, <2>2
<1>10. Openings(p, title) = {}
  <2> SUFFICES ASSUME NEW j \in 1..(i - 1), p[j] = Heading(title) PROVE FALSE
    BY <1>4 DEF Openings
  <2>1. j \in 1..Len(config) /\ j # i /\ config[j] = Heading(title)
    BY <1>1, <1>2, <1>4
  <2> QED
    BY <1>1, <1>2, <2>1 DEF Openings
<1>11. Openings(s, title) = {}
  <2> SUFFICES ASSUME NEW j \in 1..(Len(config) + 1 - n), s[j] = Heading(title) PROVE FALSE
    BY <1>6 DEF Openings
  <2>1. (n - 1) + j \in 1..Len(config) /\ (n - 1) + j # i /\ config[(n - 1) + j] = Heading(title)
    BY <1>1, <1>2, <1>3, <1>6
  <2> QED
    BY <1>1, <1>2, <2>1 DEF Openings
<1>12. Heading(title) \in S
  BY <1>2
<1>13. IsCut(S, p, title, b, s)
  BY <1>4, <1>5, <1>6, <1>8, <1>9, <1>10, <1>11, <1>12, Zenon DEF IsCut
<1> QED
  BY <1>2, <1>7, <1>13, Zenon DEF Joined, Above, Within, Below, p, b, s, n

\* Empty lines are not looked at.
LEMMA TextConcat ==
    ASSUME NEW S, NEW a \in Seq(S), NEW b \in Seq(S)
    PROVE  Text(a \o b) = Text(a) \o Text(b)
<1> DEFINE c == a \o b
           P == {i \in DOMAIN c : NotBlank(c[i])}
           A == {i \in DOMAIN a : NotBlank(a[i])}
           B == {i \in DOMAIN b : NotBlank(b[i])}
<1>1. /\ DOMAIN c = 1..(Len(a) + Len(b)) /\ DOMAIN a = 1..Len(a) /\ DOMAIN b = 1..Len(b)
      /\ Len(a) \in Nat /\ Len(b) \in Nat
      /\ \A i \in 1..Len(a) : c[i] = a[i]
      /\ \A i \in 1..Len(b) : c[Len(a) + i] = b[i]
  BY ConcatAt
<1>2. Filtered(c, P) = Filtered(a, P) \o Filtered(b, Beyond(P, Len(a)))
  BY FilteredConcat
<1> HIDE DEF c
<1>3. Alike(a, P, A)
  <2> SUFFICES ASSUME NEW i \in 1..Len(a) PROVE i \in P <=> i \in A
    BY <1>1 DEF Alike
  <2>1. i \in DOMAIN c /\ i \in DOMAIN a /\ c[i] = a[i]
    BY <1>1
  <2> QED
    BY <2>1
<1>4. Alike(b, Beyond(P, Len(a)), B)
  <2> SUFFICES ASSUME NEW i \in 1..Len(b) PROVE i \in Beyond(P, Len(a)) <=> i \in B
    BY <1>1 DEF Alike
  <2>1. Len(a) + i \in DOMAIN c /\ i \in DOMAIN b /\ c[Len(a) + i] = b[i] /\ i \in Nat
    BY <1>1
  <2> QED
    BY <2>1, Zenon DEF Beyond
<1> HIDE DEF P, A, B
<1>5. Filtered(a, P) = Filtered(a, A) /\ Filtered(b, Beyond(P, Len(a))) = Filtered(b, B)
  BY <1>3, <1>4, FilteredSame
<1>6. Filtered(c, P) = Filtered(a, A) \o Filtered(b, B)
  BY <1>2, <1>5, Zenon
<1> QED
  BY <1>6 DEF Text, c, P, A, B

AllBlank(part) == \A i \in DOMAIN part : ~NotBlank(part[i])

\* Empty lines are no text.
LEMMA TextBlank ==
    ASSUME NEW S, NEW part \in Seq(S), AllBlank(part) PROVE Text(part) = <<>>
<1> DEFINE P == {i \in DOMAIN part : NotBlank(part[i])}
<1>1. \A i \in DOMAIN part : i \notin P
  BY DEF AllBlank
<1> HIDE DEF P
<1>2. Filtered(part, P) = <<>>
  BY <1>1, FilteredNone
<1> QED
  BY <1>2 DEF Text, P

\* A line that is not empty is.
LEMMA TextNotEmpty ==
    ASSUME NEW S, NEW part \in Seq(S), NEW i \in DOMAIN part, NotBlank(part[i])
    PROVE  Text(part) # <<>>
<1> DEFINE P == {j \in DOMAIN part : NotBlank(part[j])}
           x == part[i]
<1>1. i \in P /\ x = part[i]
  OBVIOUS
<1> HIDE DEF P, x
<1>2. x \in Range(Filtered(part, P))
  BY <1>1, FilteredRange
<1>3. Range(<<>>) = {}
  BY DEF Range
<1> QED
  BY <1>2, <1>3 DEF Text, P

\* Trimming empty lines at the ends leaves the text.
LEMMA TrimmedIs ==
    ASSUME NEW S, NEW part \in Seq(S)
    PROVE  /\ Trimmed(part) \in Seq(S)
           /\ Plain(part) => Plain(Trimmed(part))
           /\ Text(Trimmed(part)) = Text(part)
           /\ Trimmed(part) = <<>> <=> Text(part) = <<>>
<1> DEFINE T == {i \in DOMAIN part : NotBlank(part[i])}
           k == Min(T)
           m == Max(T)
           a == SubSeq(part, 1, k - 1)
           b == SubSeq(part, k, m)
           c == SubSeq(part, m + 1, Len(part))
<1>1. Len(part) \in Nat /\ DOMAIN part = 1..Len(part) /\ T \subseteq 1..Len(part) /\ T \subseteq Nat
  OBVIOUS
<1>2. CASE T = {}
  <2>1. Trimmed(part) = <<>>
    BY <1>2 DEF Trimmed
  <2>2. AllBlank(part)
    BY <1>2 DEF AllBlank
  <2>3. AllBlank(<<>>) /\ Plain(<<>>) /\ <<>> \in Seq(S)
    BY DEF AllBlank, Plain
  <2>4. Text(part) = <<>> /\ Text(<<>>) = <<>>
    BY <2>2, <2>3, TextBlank
  <2> QED
    BY <2>1, <2>3, <2>4
<1>3. CASE T # {}
  <2>1. Trimmed(part) = b
    BY <1>3 DEF Trimmed
  <2>2. k \in T /\ m \in T /\ \A i \in T : k <= i /\ i <= m
    BY <1>1, <1>3, Smallest, Greatest
  <2>3. \A i \in 1..Len(part) : i \in T <=> NotBlank(part[i])
    BY <1>1
  <2> HIDE DEF T, k, m
  <2>4. k \in 1..Len(part) /\ m \in 1..Len(part) /\ k <= m /\ k - 1 \in Nat /\ m + 1 \in Nat
    BY <1>1, <2>2
  <2>5. a \in Seq(S) /\ Len(a) = k - 1 /\ \A i \in 1..(k - 1) : a[i] = part[i]
    BY <1>1, <2>4, PartType
  <2>6. b \in Seq(S) /\ Len(b) = m - k + 1 /\ \A i \in 1..(m - k + 1) : b[i] = part[k + i - 1]
    BY <1>1, <2>4, PartType
  <2>7. /\ c \in Seq(S) /\ Len(c) = Len(part) - m
        /\ \A i \in 1..(Len(part) - m) : c[i] = part[m + i]
    <3>1. /\ c \in Seq(S) /\ Len(c) = IF m + 1 <= Len(part) THEN Len(part) - (m + 1) + 1 ELSE 0
          /\ \A i \in 1..(Len(part) - (m + 1) + 1) : c[i] = part[(m + 1) + i - 1]
      BY <1>1, <2>4, PartType
    <3>2. /\ Len(part) - (m + 1) + 1 = Len(part) - m
          /\ m + 1 <= Len(part) \/ Len(part) - m = 0
          /\ \A i \in 1..(Len(part) - m) : (m + 1) + i - 1 = m + i
      <4>1. m \in Nat /\ Len(part) \in Nat /\ m <= Len(part)
        BY <1>1, <2>4
      <4> DEFINE l == Len(part)
      <4> HIDE DEF l
      <4>2. m \in Nat /\ l \in Nat /\ m <= l
        BY <4>1 DEF l
      <4>3. l - (m + 1) + 1 = l - m /\ (m + 1 <= l \/ l - m = 0)
        BY <4>2
      <4>4. \A i \in 1..(l - m) : (m + 1) + i - 1 = m + i
        BY <4>2
      <4> QED
        BY <4>3, <4>4 DEF l
    <3> HIDE DEF c
    <3>3. Len(c) = Len(part) - m
      BY <3>1, <3>2
    <3> QED
      BY <3>1, <3>2, <3>3
  <2>8. part = a \o (b \o c)
    <3>1. b \o c = SubSeq(part, k, Len(part))
      <4>1. k \in 1..(Len(part) + 1) /\ m \in (k - 1)..Len(part) /\ Len(part) \in m..Len(part)
        BY <1>1, <2>4
      <4> QED
        BY <4>1, ConcatAdjacentSubSeq
    <3>2. SubSeq(part, 1, k - 1) \o SubSeq(part, (k - 1) + 1, Len(part)) = SubSeq(part, 1, Len(part))
      <4>1. 1 \in 1..(Len(part) + 1) /\ k - 1 \in (1 - 1)..Len(part) /\ Len(part) \in (k - 1)..Len(part)
        BY <1>1, <2>4
      <4> QED
        BY <4>1, ConcatAdjacentSubSeq
    <3>3. (k - 1) + 1 = k /\ SubSeq(part, 1, Len(part)) = part
      BY <2>4, SubSeqFull
    <3> QED
      BY <3>1, <3>2, <3>3
  <2> HIDE DEF a, b, c
  <2>9. AllBlank(a)
    <3> SUFFICES ASSUME NEW i \in 1..(k - 1) PROVE ~NotBlank(a[i])
      BY <2>5 DEF AllBlank
    <3>1. i \in 1..Len(part) /\ ~(k <= i)
      BY <1>1, <2>4
    <3> QED
      BY <2>2, <2>3, <2>5, <3>1
  <2>10. AllBlank(c)
    <3> SUFFICES ASSUME NEW i \in 1..(Len(part) - m) PROVE ~NotBlank(c[i])
      BY <2>7 DEF AllBlank
    <3>1. m + i \in 1..Len(part) /\ ~(m + i <= m)
      BY <1>1, <2>4
    <3> QED
      BY <2>2, <2>3, <2>7, <3>1
  <2>11. Text(part) = Text(b)
    <3> DEFINE d == b \o c
    <3>1. d \in Seq(S)
      BY <2>6, <2>7, ConcatAt
    <3>2. Text(a) = <<>> /\ Text(c) = <<>> /\ Text(b) \in Seq(S)
      BY <2>5, <2>6, <2>7, <2>9, <2>10, TextBlank, FilteredType DEF Text
    <3>3. Text(d) = Text(b) \o Text(c)
      BY <2>6, <2>7, TextConcat
    <3> HIDE DEF d
    <3>4. Text(a \o d) = Text(a) \o Text(d)
      BY <2>5, <3>1, TextConcat
    <3>5. \A z \in Seq(S) : <<>> \o z = z /\ z \o <<>> = z
      BY ConcatEmptySeq
    <3> QED
      BY <2>8, <3>2, <3>3, <3>4, <3>5, Zenon DEF d
  <2>12. 1 \in DOMAIN b /\ b[1] = part[k] /\ NotBlank(b[1])
    BY <2>2, <2>3, <2>4, <2>6
  <2>13. Text(b) # <<>> /\ b # <<>>
    BY <2>6, <2>12, TextNotEmpty
  <2>14. Plain(part) => Plain(b)
    <3> SUFFICES ASSUME Plain(part), NEW i \in 1..(m - k + 1) PROVE ~IsHeader(b[i])
      BY <2>6 DEF Plain
    <3>1. k + i - 1 \in 1..Len(part)
      BY <1>1, <2>4
    <3> QED
      BY <1>1, <2>6, <3>1 DEF Plain
  <2> QED
    BY <2>1, <2>6, <2>11, <2>13, <2>14
<1> QED
  BY <1>2, <1>3

-----------------------------------------------------------------------------
\* Appending to a section, replacing and adding one.

\* Under a title that is not there a reader finds nothing.
LEMMA UnopenedUnder ==
    ASSUME NEW S, NEW config \in Seq(S), NEW title, Openings(config, title) = {}
    PROVE  Under(config, title) = <<>>
<1> DEFINE H == Heading(title)
<1>1. Blank # H
  BY DEF Blank, Heading
<1> HIDE DEF H
<1>2. UnderFrom(config, title, Blank) = <<>>
  BY <1>1, UnderUnopened DEF H
<1> QED
  BY <1>2, UnderWhole

\* The body of a section is what a reader finds under its title.
LEMMA SectionBodyIs ==
    ASSUME NEW S, NEW config \in Seq(S), NEW title, Once(config, title)
    PROVE  /\ SectionBody(config, title) \in Seq(S) /\ Plain(SectionBody(config, title))
           /\ Text(SectionBody(config, title)) = Under(config, title)
           /\ SectionBody(config, title) = <<>> <=> Under(config, title) = <<>>
<1>1. CASE Openings(config, title) = {}
  <2>1. SectionBody(config, title) = <<>> /\ <<>> \in Seq(S) /\ Plain(<<>>)
    BY <1>1 DEF SectionBody, Plain
  <2>2. Under(config, title) = <<>>
    BY <1>1, UnopenedUnder
  <2>3. Text(<<>>) = <<>>
    BY FilteredEmpty DEF Text
  <2> QED
    BY <2>1, <2>2, <2>3
<1>2. CASE Openings(config, title) # {}
  <2>1. PICK i : i \in Openings(config, title)
    BY <1>2
  <2> DEFINE b == Within(config, i)
  <2>2. /\ IsCut(S, Above(config, i), title, b, Below(config, i))
        /\ config = Joined(Above(config, i), title, b, Below(config, i))
        /\ Openings(config, title) = {i} /\ i \in 1..Len(config)
    BY <2>1, CutAt
  <2> HIDE DEF b
  <2>3. Under(config, title) = Text(b)
    BY <2>2, JoinedUnder
  <2>4. Min({i}) = i
    <3>1. {i} \subseteq Nat /\ {i} # {}
      BY <2>2
    <3>2. Min({i}) \in {i}
      BY <3>1, Smallest
    <3> QED
      BY <3>2
  <2>5. SectionBody(config, title) = Trimmed(b)
    BY <1>2, <2>2, <2>4 DEF SectionBody, b, Within
  <2>6. b \in Seq(S) /\ Plain(b)
    BY <2>2 DEF IsCut
  <2> QED
    BY <2>3, <2>5, <2>6, TrimmedIs
<1> QED
  BY <1>1, <1>2

Lengthens(p, title, b, s, x) ==
    (p \o (<<Heading(title)>> \o b)) \o (x \o s) = Joined(p, title, b \o x, s)

\* Lines put behind a section.
LEMMA JoinedLonger ==
    ASSUME NEW S, NEW p, NEW title, NEW b, NEW s, IsCut(S, p, title, b, s), NEW x \in Seq(S)
    PROVE  Lengthens(p, title, b, s, x)
<1> DEFINE h == <<Heading(title)>>
           y == x \o s
<1>1. p \in Seq(S) /\ b \in Seq(S) /\ s \in Seq(S) /\ h \in Seq(S)
  BY JoinedParts DEF IsCut
<1>2. y \in Seq(S)
  BY <1>1, ConcatAt
<1>3. IsTriple(S, b, x, s) /\ IsQuadruple(S, p, h, b, y)
  BY <1>1, <1>2 DEF IsTriple, IsQuadruple
<1>4. (b \o x) \o s = b \o y
  BY <1>3, ConcatThree
<1> HIDE DEF h, y
<1>5. (p \o (h \o b)) \o y = p \o (h \o (b \o y))
  BY <1>3, ConcatFour, SMTT(30)
<1>6. (p \o (h \o b)) \o y = p \o (h \o ((b \o x) \o s))
  BY <1>4, <1>5, Zenon
<1> QED
  BY <1>6, Zenon DEF Lengthens, Joined, h, y

\* append_to_section puts the lines behind those of the section.
LEMMA AppendIs ==
    ASSUME NEW S, NEW config \in Seq(S), NEW title, Once(config, title), NEW i \in Openings(config, title),
           NEW body, body # <<>>, NEW x \in Seq(S),
           x = PushBody(config[NextHeader(config, i) - 1], body)
    PROVE  AppendToSection(config, title, body) =
              Joined(Above(config, i), title, Within(config, i) \o x, Below(config, i))
<1> DEFINE n == NextHeader(config, i)
           l == Len(config)
           p == Above(config, i)
           h == <<Heading(title)>>
           b == Within(config, i)
           s == Below(config, i)
           At(k) == (IF k \in {n} THEN PushBody(config[k - 1], body) ELSE <<>>)
                    \o (IF k <= l THEN <<config[k]>> ELSE <<>>)
           In(k) == (IF k = n THEN x ELSE <<>>) \o (IF k <= l THEN <<config[k]>> ELSE <<>>)
<1>1. /\ IsCut(S, p, title, b, s) /\ Openings(config, title) = {i} /\ i \in 1..l
      /\ config[i] = Heading(title)
  BY CutAt
<1>2. l \in Nat /\ n \in (i + 1)..(l + 1)
  BY <1>1, NextHeaderIs
<1>3. AppendToSection(config, title, body) = FlattenSeq([k \in 1..(l + 1) |-> At(k)])
  <2> DEFINE ends == {NextHeader(config, k) : k \in Openings(config, title)}
             inner == ends \ {l + 1}
             places == IF inner # {} THEN inner ELSE ends
             Gets(k) == (IF k \in places THEN PushBody(config[k - 1], body) ELSE <<>>)
                        \o (IF k <= l THEN <<config[k]>> ELSE <<>>)
  <2>1. AppendToSection(config, title, body) =
           IF ends = {} THEN WithNewSection(config, title, PushBody(Heading(title), body))
           ELSE FlattenSeq([k \in 1..(l + 1) |-> Gets(k)])
    BY Zenon DEF AppendToSection
  <2>2. ends = {n}
    BY <1>1
  <2>3. places = {n}
    BY <2>2
  <2> HIDE DEF ends, places
  <2>4. AppendToSection(config, title, body) = FlattenSeq([k \in 1..(l + 1) |-> Gets(k)])
    BY <2>1, <2>2
  <2> QED
    BY <2>3, <2>4
<1>4. \A k : At(k) = In(k)
  <2> SUFFICES ASSUME NEW k PROVE At(k) = In(k)
    OBVIOUS
  <2>1. CASE k = n
    BY <2>1
  <2>2. CASE k # n
    BY <2>2
  <2> QED
    BY <2>1, <2>2
<1>5. FlattenSeq([k \in 1..(l + 1) |-> At(k)]) = FlattenSeq([k \in 1..(l + 1) |-> In(k)])
  <2> HIDE DEF At, In
  <2>1. [k \in 1..(l + 1) |-> At(k)] = [k \in 1..(l + 1) |-> In(k)]
    BY <1>4
  <2> QED
    BY <2>1
<1>6. FlattenSeq([k \in 1..(l + 1) |-> In(k)]) = SubSeq(config, 1, n - 1) \o (x \o SubSeq(config, n, l))
  <2>1. IsPlace(config, n)
    BY <1>1, <1>2 DEF IsPlace
  <2> HIDE DEF n
  <2> QED
    BY <2>1, FlattenInsert
<1>7. SubSeq(config, 1, n - 1) = p \o (h \o b)
  <2>1. /\ 1 \in 1..(l + 1) /\ i - 1 \in (1 - 1)..l /\ n - 1 \in (i - 1)..l
        /\ i \in 1..l /\ n - 1 \in i..l /\ (i - 1) + 1 = i
    BY <1>1, <1>2
  <2>2. SubSeq(config, 1, i - 1) \o SubSeq(config, (i - 1) + 1, n - 1) = SubSeq(config, 1, n - 1)
    BY <2>1, ConcatAdjacentSubSeq
  <2>3. SubSeq(config, i, n - 1) = <<config[i]>> \o SubSeq(config, i + 1, n - 1)
    BY <2>1, SubSeqRecursiveFirst
  <2> QED
    BY <1>1, <2>1, <2>2, <2>3 DEF Above, Within
<1>8. s = SubSeq(config, n, l)
  BY DEF Below
<1>9. /\ p \in Seq(S) /\ b \in Seq(S) /\ s \in Seq(S) /\ h \in Seq(S)
  BY <1>1, JoinedParts DEF IsCut
<1> HIDE DEF p, b, s, h, n, l, At, In
<1>10. (p \o (h \o b)) \o (x \o s) = Joined(p, title, b \o x, s)
  <2>1. IsCut(S, p, title, b, s)
    BY <1>1
  <2>2. Lengthens(p, title, b, s, x)
    BY <2>1, JoinedLonger
  <2> QED
    BY <2>2, Zenon DEF h, Lengthens
<1>11. AppendToSection(config, title, body) = Joined(p, title, b \o x, s)
  BY <1>3, <1>5, <1>6, <1>7, <1>8, <1>10, Zenon
<1> QED
  BY <1>11 DEF p, b, s

\* replace_section puts them in their place.
LEMMA ReplaceIs ==
    ASSUME NEW S, NEW config \in Seq(S), NEW title, Once(config, title), NEW i \in Openings(config, title),
           NEW body \in Seq(S)
    PROVE  ReplaceSection(config, title, body) = Joined(Above(config, i), title, body, Below(config, i))
<1> DEFINE n == NextHeader(config, i)
           l == Len(config)
           p == Above(config, i)
           h == <<Heading(title)>>
           s == Below(config, i)
           In(k) == IF k \in (i + 1)..(n - 1) THEN <<>>
                    ELSE IF k = i THEN <<config[k]>> \o body ELSE <<config[k]>>
<1>1. /\ IsCut(S, p, title, Within(config, i), s) /\ Openings(config, title) = {i} /\ i \in 1..l
      /\ config[i] = Heading(title)
  BY CutAt
<1>2. l \in Nat /\ n \in (i + 1)..(l + 1) /\ DOMAIN config = 1..l
  BY <1>1, NextHeaderIs
<1>3. ReplaceSection(config, title, body) = FlattenSeq([k \in DOMAIN config |-> In(k)])
  <2> DEFINE replaced == UNION {(k + 1)..(NextHeader(config, k) - 1) : k \in Openings(config, title)}
             At(k) == IF k \in replaced THEN <<>>
                      ELSE IF config[k] = Heading(title) THEN <<config[k]>> \o body ELSE <<config[k]>>
  <2>1. ReplaceSection(config, title, body) = FlattenSeq([k \in DOMAIN config |-> At(k)])
    BY <1>1, Zenon DEF ReplaceSection
  <2>2. replaced = (i + 1)..(n - 1)
    BY <1>1
  <2>3. \A k \in DOMAIN config : config[k] = Heading(title) <=> k = i
    BY <1>1 DEF Openings
  <2> HIDE DEF replaced
  <2>4. \A k \in DOMAIN config : At(k) = In(k)
    BY <2>2, <2>3, Zenon
  <2> HIDE DEF At, In
  <2>5. [k \in DOMAIN config |-> At(k)] = [k \in DOMAIN config |-> In(k)]
    BY <2>4
  <2> QED
    BY <2>1, <2>5
<1>4. FlattenSeq([k \in DOMAIN config |-> In(k)]) = SubSeq(config, 1, i) \o (body \o SubSeq(config, n, l))
  <2>1. IsSpan(config, i, n)
    BY <1>1, <1>2 DEF IsSpan
  <2> HIDE DEF n
  <2> QED
    BY <2>1, FlattenReplace
<1>5. SubSeq(config, 1, i) = p \o h
  <2>1. 1 \in 1..l /\ i \in 1..l
    BY <1>1, <1>2
  <2>2. SubSeq(config, 1, i) = SubSeq(config, 1, i - 1) \o <<config[i]>>
    BY <2>1, SubSeqRecursiveSecond
  <2> QED
    BY <1>1, <2>2 DEF Above
<1>6. s = SubSeq(config, n, l)
  BY DEF Below
<1>7. p \in Seq(S) /\ s \in Seq(S) /\ h \in Seq(S)
  BY <1>1, JoinedParts DEF IsCut
<1> HIDE DEF p, s, h, n, l, In
<1>8. body \o s \in Seq(S)
  BY <1>7, ConcatAt
<1>9. IsTriple(S, p, h, body \o s)
  BY <1>7, <1>8 DEF IsTriple
<1>10. (p \o h) \o (body \o s) = p \o (h \o (body \o s))
  BY <1>9, ConcatThree, SMTT(30)
<1>11. ReplaceSection(config, title, body) = p \o (h \o (body \o s))
  BY <1>3, <1>4, <1>5, <1>6, <1>10, Zenon
<1> QED
  BY <1>11 DEF Joined, p, h, s

\* A file that differs from another by what a reader finds under one title.
Differs(S, config, title, lines, other) ==
    /\ other \in Seq(S)
    /\ \A u : /\ Once(config, u) => Once(other, u)
              /\ Under(other, u) = IF u = title THEN lines ELSE Under(config, u)

\* Two files around the same section differ by its text.
LEMMA JoinedDiffers ==
    ASSUME NEW S, NEW p, NEW title, NEW b, NEW s, NEW d,
           IsCut(S, p, title, b, s), IsCut(S, p, title, d, s)
    PROVE  Differs(S, Joined(p, title, b, s), title, Text(d), Joined(p, title, d, s))
<1>1. Joined(p, title, d, s) \in Seq(S)
  BY JoinedParts
<1>2. ASSUME NEW u
      PROVE  /\ Once(Joined(p, title, b, s), u) => Once(Joined(p, title, d, s), u)
             /\ Under(Joined(p, title, d, s), u) =
                   IF u = title THEN Text(d) ELSE Under(Joined(p, title, b, s), u)
  <2>1. /\ Once(Joined(p, title, b, s), u) <=> u = title \/ Once(p \o s, u)
        /\ Once(Joined(p, title, d, s), u) <=> u = title \/ Once(p \o s, u)
    BY JoinedOnce
  <2>2. /\ Under(Joined(p, title, b, s), u) =
              IF u = title THEN Text(b)
              ELSE UnderFrom(p, u, Blank) \o UnderFrom(s, u, Heading(title))
        /\ Under(Joined(p, title, d, s), u) =
              IF u = title THEN Text(d)
              ELSE UnderFrom(p, u, Blank) \o UnderFrom(s, u, Heading(title))
    BY JoinedUnder
  <2> QED
    BY <2>1, <2>2
<1> QED
  BY <1>1, <1>2 DEF Differs

\* An empty line is no header.
LEMMA BlankPlain ==
    ASSUME NEW part, AllBlank(part) PROVE Plain(part)
<1>1. ~IsHeader(Blank)
  BY DEF IsHeader, Blank
<1> QED
  BY <1>1 DEF Plain, AllBlank, NotBlank

\* One empty line is a part of empty lines.
LEMMA BlankLine == AllBlank(<<Blank>>) /\ \A S : Blank \in S => <<Blank>> \in Seq(S)
<1> DEFINE x == Blank
<1>1. ~NotBlank(x)
  BY DEF NotBlank
<1> HIDE DEF x
<1>2. AllBlank(<<x>>) /\ \A S : x \in S => <<x>> \in Seq(S)
  BY <1>1 DEF AllBlank
<1> QED
  BY <1>2 DEF x

\* Empty lines at the end change nothing.
SameFor(config, other, u) ==
    /\ Under(other, u) = Under(config, u)
    /\ Once(other, u) <=> Once(config, u)
    /\ Openings(other, u) = {} <=> Openings(config, u) = {}

\* They are not found under any title.
LEMMA BlankAdded ==
    ASSUME NEW S, NEW config \in Seq(S), NEW z \in Seq(S), AllBlank(z), NEW u
    PROVE  SameFor(config, config \o z, u)
<1> DEFINE g == HeadAfter(config, Blank)
           P == UnderFrom(config, u, Blank)
<1>1. Plain(z) /\ Text(z) = <<>>
  BY BlankPlain, TextBlank
<1>2. Finds(z, u, g, <<>>, g)
  <2> HIDE DEF g
  <2>1. UnderFrom(z, u, g) = (IF g = Heading(u) THEN Text(z) ELSE <<>>) /\ HeadAfter(z, g) = g
    BY <1>1, UnderPlain
  <2> QED
    BY <1>1, <2>1 DEF Finds
<1>3. Finds(config, u, Blank, P, g)
  BY DEF Finds
<1>4. P \in Seq(S)
  BY FilteredType DEF UnderFrom
<1> HIDE DEF P, g
<1>5. Finds(config \o z, u, Blank, P \o <<>>, g)
  BY <1>2, <1>3, FindsConcat
<1>6. P \o <<>> = P
  BY <1>4, ConcatEmptySeq
<1>7. Under(config \o z, u) = Under(config, u)
  BY <1>5, <1>6, UnderWhole DEF Finds, P
<1>8. Openings(z, u) = {}
  BY <1>1, OpeningsPlain
<1>9. /\ Once(config \o z, u) <=> Once(config, u)
      /\ Openings(config \o z, u) = {} <=> Openings(config, u) = {}
  BY <1>8, OnceConcat DEF Once
<1> QED
  BY <1>7, <1>9 DEF SameFor

\* A section put at the end is found under its title, and the rest as it was.
LEMMA NewDiffers ==
    ASSUME NEW S, NEW config \in Seq(S), NEW title, Openings(config, title) = {},
           Blank \in S, Heading(title) \in S, NEW body \in Seq(S), Plain(body)
    PROVE  Differs(S, config, title, Text(body), WithNewSection(config, title, body))
<1> DEFINE p == IF config # <<>> /\ NotBlank(Last(config)) THEN Append(config, Blank) ELSE config
           h == <<Heading(title)>>
<1>1. p = config \/ p = config \o <<Blank>>
  <2>1. Append(config, Blank) = config \o <<Blank>>
    BY AppendIsConcat
  <2> QED
    BY <2>1
<1>2. WithNewSection(config, title, body) = (p \o h) \o body
  BY DEF WithNewSection
<1> HIDE DEF p
<1>3. p \in Seq(S)
  <2> DEFINE z == <<Blank>>
  <2>1. z \in Seq(S)
    BY BlankLine
  <2> HIDE DEF z
  <2>2. config \o z \in Seq(S)
    BY <2>1, ConcatAt
  <2> QED
    BY <1>1, <2>2 DEF z
<1>4. \A u : /\ Under(p, u) = Under(config, u) /\ (Once(p, u) <=> Once(config, u))
             /\ Openings(p, u) = {} <=> Openings(config, u) = {}
  <2> DEFINE z == <<Blank>>
  <2>1. z \in Seq(S) /\ AllBlank(z)
    BY BlankLine
  <2> HIDE DEF z
  <2>2. \A u : SameFor(config, config \o z, u)
    BY <2>1, BlankAdded
  <2>3. \A u : SameFor(config, config, u)
    BY DEF SameFor
  <2> QED
    BY <1>1, <2>2, <2>3, Zenon DEF SameFor, z
<1>5. <<>> \in Seq(S) /\ Starts(<<>>) /\ Openings(<<>>, title) = {}
  BY DEF Starts, Openings
<1>6. IsCut(S, p, title, body, <<>>)
  BY <1>3, <1>4, <1>5 DEF IsCut
<1>7. h \in Seq(S)
  BY <1>6, JoinedParts
<1> HIDE DEF h
<1>8. (p \o h) \o body = p \o (h \o body) /\ body \o <<>> = body /\ p \o <<>> = p
  <2>1. IsTriple(S, p, h, body)
    BY <1>3, <1>7 DEF IsTriple
  <2> QED
    BY <1>3, <2>1, ConcatThree, ConcatEmptySeq
<1>9. WithNewSection(config, title, body) = Joined(p, title, body, <<>>)
  BY <1>2, <1>8 DEF Joined, h
<1>10. Joined(p, title, body, <<>>) \in Seq(S)
  BY <1>6, JoinedParts
<1>11. ASSUME NEW u
       PROVE  /\ Once(config, u) => Once(Joined(p, title, body, <<>>), u)
              /\ Under(Joined(p, title, body, <<>>), u) = IF u = title THEN Text(body) ELSE Under(config, u)
  <2>1. Once(Joined(p, title, body, <<>>), u) <=> u = title \/ Once(p \o <<>>, u)
    BY <1>6, JoinedOnce
  <2>2. Under(Joined(p, title, body, <<>>), u) =
           IF u = title THEN Text(body)
           ELSE UnderFrom(p, u, Blank) \o UnderFrom(<<>>, u, Heading(title))
    BY <1>6, JoinedUnder
  <2>3. UnderFrom(<<>>, u, Heading(title)) = <<>>
    BY UnderEmpty
  <2>4. UnderFrom(p, u, Blank) = Under(p, u) /\ UnderFrom(p, u, Blank) \in Seq(S)
    BY <1>3, UnderWhole, FilteredType DEF UnderFrom
  <2>5. UnderFrom(p, u, Blank) \o <<>> = UnderFrom(p, u, Blank)
    BY <2>4, ConcatEmptySeq
  <2> QED
    BY <1>4, <1>8, <2>1, <2>2, <2>3, <2>4, <2>5, Zenon
<1> QED
  BY <1>9, <1>10, <1>11 DEF Differs

-----------------------------------------------------------------------------
\* Merging one section into a base.

\* Two parts without headers make one.
LEMMA PlainConcat ==
    ASSUME NEW S, NEW a \in Seq(S), NEW b \in Seq(S), Plain(a), Plain(b) PROVE Plain(a \o b)
<1> DEFINE c == a \o b
<1>1. /\ DOMAIN c = 1..(Len(a) + Len(b)) /\ DOMAIN a = 1..Len(a) /\ DOMAIN b = 1..Len(b)
      /\ \A i \in 1..Len(a) : c[i] = a[i]
      /\ \A i \in 1..Len(b) : c[Len(a) + i] = b[i]
      /\ \A i \in 1..(Len(a) + Len(b)) :
            i \in 1..Len(a) \/ (i - Len(a) \in 1..Len(b) /\ i = Len(a) + (i - Len(a)))
  BY ConcatAt
<1> HIDE DEF c
<1>2. Plain(c)
  <2> SUFFICES ASSUME NEW i \in 1..(Len(a) + Len(b)) PROVE ~IsHeader(c[i])
    BY <1>1 DEF Plain
  <2>1. CASE i \in 1..Len(a)
    BY <1>1, <2>1 DEF Plain
  <2>2. CASE i - Len(a) \in 1..Len(b) /\ i = Len(a) + (i - Len(a))
    <3>1. c[i] = b[i - Len(a)]
      BY <1>1, <2>2, Zenon
    <3> QED
      BY <1>1, <2>2, <3>1 DEF Plain
  <2> QED
    BY <1>1, <2>1, <2>2
<1> QED
  BY <1>2 DEF c

\* push_body adds the body, after an empty line or not.
LEMMA PushBodyIs ==
    ASSUME NEW S, Blank \in S, NEW body \in Seq(S), Plain(body), NEW last
    PROVE  /\ PushBody(last, body) \in Seq(S) /\ Plain(PushBody(last, body))
           /\ Text(PushBody(last, body)) = Text(body)
<1> DEFINE z == <<Blank>>
<1>1. z \in Seq(S) /\ AllBlank(z)
  BY BlankLine
<1> HIDE DEF z
<1>2. Plain(z) /\ Text(z) = <<>>
  BY <1>1, BlankPlain, TextBlank
<1>3. Text(body) \in Seq(S)
  BY FilteredType DEF Text
<1>4. <<>> \o body = body /\ <<>> \o Text(body) = Text(body)
  BY <1>3, ConcatEmptySeq
<1>5. z \o body \in Seq(S) /\ Plain(z \o body) /\ Text(z \o body) = Text(z) \o Text(body)
  BY <1>1, <1>2, ConcatAt, PlainConcat, TextConcat
<1>6. PushBody(last, body) = z \o body \/ PushBody(last, body) = body
  BY <1>4 DEF PushBody, z
<1> QED
  BY <1>2, <1>4, <1>5, <1>6, Zenon

\* What the merged file has under a title.
Together(config, generated, title, overwrite) ==
    IF overwrite /\ title \notin NodeTitles /\ Under(generated, title) # <<>> THEN Under(generated, title)
    ELSE Under(config, title) \o Under(generated, title)

\* One section is merged.
LEMMA MergeDiffers ==
    ASSUME NEW S, NEW config \in Seq(S), NEW generated \in Seq(S), NEW title, NEW overwrite,
           Blank \in S, Heading(title) \in S, Once(config, title), Once(generated, title)
    PROVE  Differs(S, config, title, Together(config, generated, title, overwrite),
                   MergeSection(config, title, generated, overwrite))
<1> DEFINE body == SectionBody(generated, title)
           lines == Together(config, generated, title, overwrite)
           merged == MergeSection(config, title, generated, overwrite)
<1>1. /\ body \in Seq(S) /\ Plain(body) /\ Text(body) = Under(generated, title)
      /\ body = <<>> <=> Under(generated, title) = <<>>
  BY SectionBodyIs
<1>2. Under(config, title) \in Seq(S) /\ Under(generated, title) \in Seq(S)
  BY UnderWhole, FilteredType DEF UnderFrom
<1>3. CASE body = <<>>
  <2>1. merged = config
    BY <1>3 DEF MergeSection
  <2>2. Under(generated, title) = <<>>
    BY <1>1, <1>3
  <2>3. Under(config, title) \o <<>> = Under(config, title)
    BY <1>2, ConcatEmptySeq
  <2>4. lines = Under(config, title)
    BY <2>2, <2>3 DEF Together
  <2> QED
    BY <2>1, <2>4 DEF Differs
<1>4. CASE body # <<>> /\ overwrite /\ title \notin NodeTitles
  <2>1. merged = ReplaceSection(config, title, body)
    BY <1>4 DEF MergeSection
  <2>2. lines = Text(body)
    BY <1>1, <1>4 DEF Together
  <2> HIDE DEF body
  <2>3. CASE Openings(config, title) = {}
    <3>1. ReplaceSection(config, title, body) = WithNewSection(config, title, body)
      BY <2>3, Zenon DEF ReplaceSection
    <3>2. Differs(S, config, title, Text(body), WithNewSection(config, title, body))
      BY <1>1, <2>3, NewDiffers
    <3> QED
      BY <2>1, <2>2, <3>1, <3>2
  <2>4. CASE Openings(config, title) # {}
    <3>1. PICK i : i \in Openings(config, title)
      BY <2>4
    <3> DEFINE p == Above(config, i)
               b == Within(config, i)
               s == Below(config, i)
    <3>2. IsCut(S, p, title, b, s) /\ config = Joined(p, title, b, s)
      BY <3>1, CutAt
    <3>3. ReplaceSection(config, title, body) = Joined(p, title, body, s)
      BY <1>1, <3>1, ReplaceIs
    <3> HIDE DEF p, b, s
    <3>4. IsCut(S, p, title, body, s)
      BY <1>1, <3>2 DEF IsCut
    <3>5. Differs(S, Joined(p, title, b, s), title, Text(body), Joined(p, title, body, s))
      BY <3>2, <3>4, JoinedDiffers
    <3> QED
      BY <2>1, <2>2, <3>2, <3>3, <3>5, Zenon
  <2> QED
    BY <2>3, <2>4
<1>5. CASE body # <<>> /\ ~(overwrite /\ title \notin NodeTitles)
  <2>1. merged = AppendToSection(config, title, body)
    BY <1>5, Zenon DEF MergeSection
  <2>2. lines = Under(config, title) \o Text(body)
    BY <1>1, <1>5 DEF Together
  <2> HIDE DEF body
  <2>3. CASE Openings(config, title) = {}
    <3> DEFINE x == PushBody(Heading(title), body)
    <3>1. AppendToSection(config, title, body) = WithNewSection(config, title, x)
      <4> DEFINE ends == {NextHeader(config, i) : i \in Openings(config, title)}
      <4>1. ends = {}
        BY <2>3
      <4> QED
        BY <1>5, <4>1, Zenon DEF AppendToSection
    <3>2. x \in Seq(S) /\ Plain(x) /\ Text(x) = Text(body)
      BY <1>1, PushBodyIs
    <3> HIDE DEF x
    <3>3. Differs(S, config, title, Text(x), WithNewSection(config, title, x))
      BY <2>3, <3>2, NewDiffers
    <3>4. Under(config, title) = <<>>
      BY <2>3, UnopenedUnder
    <3>5. <<>> \o Text(body) = Text(body)
      BY <1>1, <1>2, ConcatEmptySeq
    <3> QED
      BY <2>1, <2>2, <3>1, <3>2, <3>3, <3>4, <3>5, Zenon
  <2>4. CASE Openings(config, title) # {}
    <3>1. PICK i : i \in Openings(config, title)
      BY <2>4
    <3> DEFINE p == Above(config, i)
               b == Within(config, i)
               s == Below(config, i)
               x == PushBody(config[NextHeader(config, i) - 1], body)
    <3>2. IsCut(S, p, title, b, s) /\ config = Joined(p, title, b, s)
      BY <3>1, CutAt
    <3>3. x \in Seq(S) /\ Plain(x) /\ Text(x) = Text(body)
      BY <1>1, PushBodyIs
    <3>4. AppendToSection(config, title, body) = Joined(p, title, b \o x, s)
      BY <1>5, <3>1, <3>3, AppendIs
    <3>5. Under(config, title) = Text(b)
      <4> HIDE DEF p, b, s
      <4> QED
        BY <3>2, JoinedUnder
    <3> HIDE DEF p, b, s, x
    <3>6. b \in Seq(S) /\ Plain(b)
      BY <3>2 DEF IsCut
    <3>7. b \o x \in Seq(S) /\ Plain(b \o x) /\ Text(b \o x) = Text(b) \o Text(x)
      BY <3>3, <3>6, ConcatAt, PlainConcat, TextConcat
    <3>8. IsCut(S, p, title, b \o x, s)
      BY <3>2, <3>7 DEF IsCut
    <3> DEFINE d == b \o x
    <3> HIDE DEF d
    <3>9. IsCut(S, p, title, d, s)
      BY <3>8 DEF d
    <3>10. Differs(S, Joined(p, title, b, s), title, Text(d), Joined(p, title, d, s))
      BY <3>2, <3>9, JoinedDiffers
    <3>11. Text(d) = lines
      BY <2>2, <3>3, <3>5, <3>7, ZenonT(60) DEF d
    <3> QED
      BY <2>1, <3>2, <3>4, <3>10, <3>11, Zenon DEF d
  <2> QED
    BY <2>3, <2>4
<1> QED
  BY <1>3, <1>4, <1>5, Zenon

\* A base is trimmed before it is merged.
LEMMA BaseTrimmed ==
    ASSUME NEW S, NEW base \in Seq(S), Headers(base) # {}, NEW t,
           t = SubSeq(base, 1, Max({i \in DOMAIN base : NotBlank(base[i])}))
    PROVE  t \in Seq(S) /\ \A u : SameFor(t, base, u)
<1> DEFINE T == {i \in DOMAIN base : NotBlank(base[i])}
           m == Max(T)
           z == SubSeq(base, m + 1, Len(base))
<1>1. Len(base) \in Nat /\ DOMAIN base = 1..Len(base) /\ T \subseteq 1..Len(base)
  OBVIOUS
<1>2. T # {}
  <2>1. PICK i : i \in Headers(base)
    OBVIOUS
  <2>2. i \in DOMAIN base /\ IsHeader(base[i])
    BY <2>1 DEF Headers
  <2>3. ~IsHeader(Blank)
    BY DEF IsHeader, Blank
  <2>4. NotBlank(base[i])
    BY <2>2, <2>3 DEF NotBlank
  <2> QED
    BY <2>2, <2>4
<1>3. \A i \in 1..Len(base) : NotBlank(base[i]) <=> i \in T
  BY <1>1
<1>4. t = SubSeq(base, 1, m)
  OBVIOUS
<1> HIDE DEF T
<1>5. m \in T /\ \A i \in T : i <= m
  BY <1>1, <1>2, Greatest
<1> HIDE DEF m
<1>6. m \in 1..Len(base) /\ m + 1 \in Nat /\ 1 <= m + 1
  BY <1>1, <1>5
<1>7. t \in Seq(S)
  <2>1. m \in Nat /\ m <= Len(base)
    BY <1>1, <1>6
  <2>2. SubSeq(base, 1, m) \in Seq(S)
    BY <2>1, PartType
  <2> QED
    BY <1>4, <2>2
<1>8. /\ z \in Seq(S) /\ Len(z) = IF m + 1 <= Len(base) THEN Len(base) - (m + 1) + 1 ELSE 0
      /\ \A i \in 1..(Len(base) - (m + 1) + 1) : z[i] = base[(m + 1) + i - 1]
  BY <1>1, <1>6, PartType
<1>9. base = t \o z
  <2>1. 1 \in 1..(Len(base) + 1) /\ m \in (1 - 1)..Len(base) /\ Len(base) \in m..Len(base)
    BY <1>1, <1>6
  <2>2. SubSeq(base, 1, m) \o SubSeq(base, m + 1, Len(base)) = SubSeq(base, 1, Len(base))
    BY <2>1, ConcatAdjacentSubSeq
  <2>3. SubSeq(base, 1, Len(base)) = base
    BY SubSeqFull
  <2> QED
    BY <1>4, <2>2, <2>3
<1> HIDE DEF z
<1>10. AllBlank(z)
  <2> SUFFICES ASSUME NEW i \in 1..Len(z) PROVE ~NotBlank(z[i])
    BY <1>8 DEF AllBlank
  <2>1. Len(z) <= Len(base) - (m + 1) + 1 /\ Len(z) \in Nat
    <3>1. m \in Nat /\ Len(base) \in Nat /\ m <= Len(base)
      BY <1>1, <1>6
    <3> DEFINE l == Len(base)
    <3>2. m \in Nat /\ l \in Nat /\ m <= l /\ Len(z) = IF m + 1 <= l THEN l - (m + 1) + 1 ELSE 0
      BY <1>8, <3>1
    <3> HIDE DEF l
    <3>3. Len(z) <= l - (m + 1) + 1 /\ Len(z) \in Nat
      BY <3>2
    <3> QED
      BY <3>3 DEF l
  <2>2. i \in 1..(Len(base) - (m + 1) + 1) /\ (m + 1) + i - 1 \in 1..Len(base)
        /\ ~((m + 1) + i - 1 <= m)
    BY <1>1, <1>6, <2>1
  <2>3. z[i] = base[(m + 1) + i - 1] /\ (m + 1) + i - 1 \notin T
    BY <1>5, <1>8, <2>2
  <2> QED
    BY <1>3, <2>2, <2>3
<1>11. \A u : SameFor(t, t \o z, u)
  BY <1>7, <1>8, <1>10, BlankAdded
<1> QED
  BY <1>7, <1>9, <1>11

-----------------------------------------------------------------------------
\* Merging all sections of a text format.

\* The sections of every text format.
LEMMA TitlesAre ==
    ASSUME NEW target \in TextTargets, NEW t, t = SectionTitles(target)
    PROVE  t[1] # t[2] /\ t[1] # t[3] /\ t[2] # t[3] /\ Range(t) = {t[1], t[2], t[3]}
<1>1. \/ t = <<"Proxy", "Proxy Group", "Rule">>
      \/ t = <<"Endpoint", "EndpointGroup", "RoutingRule">>
      \/ t = <<"SERVER", "POLICY", "TCP">>
      \/ t = <<"policy", "server_local", "filter_local">>
  BY DEF TextTargets, SectionTitles
<1>2. ASSUME NEW a, NEW b, NEW c, a # b, a # c, b # c, t = <<a, b, c>>
      PROVE  t[1] # t[2] /\ t[1] # t[3] /\ t[2] # t[3] /\ Range(t) = {t[1], t[2], t[3]}
  <2>1. t[1] = a /\ t[2] = b /\ t[3] = c
    BY <1>2
  <2>2. DOMAIN t = {1, 2, 3}
    <3>1. DOMAIN t = 1..3
      BY <1>2
    <3> QED
      BY <3>1
  <2>3. Range(t) = {t[1], t[2], t[3]}
    BY <2>2, Zenon DEF Range
  <2> QED
    BY <1>2, <2>1, <2>3
<1>3. CASE t = <<"Proxy", "Proxy Group", "Rule">>
  <2>1. "Proxy" # "Proxy Group" /\ "Proxy" # "Rule" /\ "Proxy Group" # "Rule"
    OBVIOUS
  <2> QED
    BY <1>2, <1>3, <2>1, Zenon
<1>4. CASE t = <<"Endpoint", "EndpointGroup", "RoutingRule">>
  <2>1. "Endpoint" # "EndpointGroup" /\ "Endpoint" # "RoutingRule" /\ "EndpointGroup" # "RoutingRule"
    OBVIOUS
  <2> QED
    BY <1>2, <1>4, <2>1, Zenon
<1>5. CASE t = <<"SERVER", "POLICY", "TCP">>
  <2>1. "SERVER" # "POLICY" /\ "SERVER" # "TCP" /\ "POLICY" # "TCP"
    OBVIOUS
  <2> QED
    BY <1>2, <1>5, <2>1, Zenon
<1>6. CASE t = <<"policy", "server_local", "filter_local">>
  <2>1. "policy" # "server_local" /\ "policy" # "filter_local" /\ "server_local" # "filter_local"
    OBVIOUS
  <2> QED
    BY <1>2, <1>6, <2>1, Zenon
<1> QED
  BY <1>1, <1>3, <1>4, <1>5, <1>6

IsGood(S, config, t) ==
    /\ config \in Seq(S) /\ Once(config, t[1]) /\ Once(config, t[2]) /\ Once(config, t[3])

\* All three sections are merged.
LEMMA AppliedIs ==
    ASSUME NEW target \in TextTargets, NEW t, t = SectionTitles(target),
           NEW S, NEW base, NEW generated, IsGood(S, base, t), IsGood(S, generated, t), NEW overwrite,
           Headers(base) # {}, Blank \in S, \A k \in 1..3 : Heading(t[k]) \in S
    PROVE  \A u : Under(ApplyTextRuleBase(generated, base, target, overwrite), u) =
                     IF u \in Range(t) THEN Together(base, generated, u, overwrite) ELSE Under(base, u)
<1> DEFINE c0 == SubSeq(base, 1, Max({i \in DOMAIN base : NotBlank(base[i])}))
           Merge(c, k) == MergeSection(c, t[k], generated, overwrite)
           c1 == Merge(c0, 1)
           c2 == Merge(c1, 2)
           c3 == Merge(c2, 3)
           L(c, k) == Together(c, generated, t[k], overwrite)
<1>1. ApplyTextRuleBase(generated, base, target, overwrite) = c3
  BY Zenon DEF ApplyTextRuleBase
<1>2. /\ base \in Seq(S) /\ generated \in Seq(S)
      /\ \A k \in 1..3 : Once(base, t[k]) /\ Once(generated, t[k])
  BY DEF IsGood
<1>3. c0 \in Seq(S) /\ \A u : SameFor(c0, base, u)
  BY <1>2, BaseTrimmed
<1>4. /\ t[1] # t[2] /\ t[1] # t[3] /\ t[2] # t[3] /\ Range(t) = {t[1], t[2], t[3]}
  BY TitlesAre
<1> HIDE DEF c0
<1>5. \A u : Under(c0, u) = Under(base, u) /\ (Once(base, u) => Once(c0, u))
  BY <1>3 DEF SameFor
<1>6. ASSUME NEW c \in Seq(S), NEW k \in 1..3, Once(c, t[k]) PROVE Differs(S, c, t[k], L(c, k), Merge(c, k))
  <2> DEFINE u == t[k]
  <2>1. Heading(u) \in S /\ Once(generated, u) /\ Once(c, u) /\ generated \in Seq(S)
    BY <1>2, <1>6
  <2> HIDE DEF u
  <2>2. Differs(S, c, u, Together(c, generated, u, overwrite), MergeSection(c, u, generated, overwrite))
    BY <2>1, MergeDiffers
  <2> QED
    BY <2>2 DEF u
<1>7. Differs(S, c0, t[1], L(c0, 1), c1)
  <2> HIDE DEF Merge, L
  <2>1. Once(c0, t[1])
    BY <1>2, <1>5
  <2> QED
    BY <1>3, <1>6, <2>1
<1> HIDE DEF c1
<1>8. /\ c1 \in Seq(S)
      /\ \A u : /\ Once(c0, u) => Once(c1, u)
                /\ Under(c1, u) = IF u = t[1] THEN L(c0, 1) ELSE Under(c0, u)
  BY <1>7, Zenon DEF Differs
<1>9. Differs(S, c1, t[2], L(c1, 2), c2)
  <2> HIDE DEF Merge, L
  <2>1. Once(c1, t[2])
    BY <1>2, <1>5, <1>8
  <2> QED
    BY <1>6, <1>8, <2>1
<1> HIDE DEF c2
<1>10. /\ c2 \in Seq(S)
       /\ \A u : /\ Once(c1, u) => Once(c2, u)
                 /\ Under(c2, u) = IF u = t[2] THEN L(c1, 2) ELSE Under(c1, u)
  BY <1>9, Zenon DEF Differs
<1>11. Differs(S, c2, t[3], L(c2, 3), c3)
  <2> HIDE DEF Merge, L
  <2>1. Once(c2, t[3])
    BY <1>2, <1>5, <1>8, <1>10
  <2> QED
    BY <1>6, <1>10, <2>1
<1> HIDE DEF c3
<1>12. \A u : Under(c3, u) = IF u = t[3] THEN L(c2, 3) ELSE Under(c2, u)
  BY <1>11, Zenon DEF Differs
<1>13. Under(c1, t[2]) = Under(base, t[2]) /\ Under(c2, t[3]) = Under(base, t[3])
       /\ Under(c0, t[1]) = Under(base, t[1])
  BY <1>4, <1>5, <1>8, <1>10
<1>14. L(c0, 1) = L(base, 1) /\ L(c1, 2) = L(base, 2) /\ L(c2, 3) = L(base, 3)
  BY <1>13, Zenon DEF Together
<1>15. ASSUME NEW u
       PROVE  Under(c3, u) = IF u \in Range(t) THEN Together(base, generated, u, overwrite) ELSE Under(base, u)
  <2> DEFINE T(v) == Together(base, generated, v, overwrite)
  <2>1. L(base, 1) = T(t[1]) /\ L(base, 2) = T(t[2]) /\ L(base, 3) = T(t[3])
    OBVIOUS
  <2> HIDE DEF L, T
  <2>2. Under(c3, u) = IF u \in Range(t) THEN T(u) ELSE Under(base, u)
    <3>1. CASE u = t[1]
      BY <1>4, <1>8, <1>10, <1>12, <1>14, <2>1, <3>1
    <3>2. CASE u = t[2]
      BY <1>4, <1>8, <1>10, <1>12, <1>14, <2>1, <3>2
    <3>3. CASE u = t[3]
      BY <1>4, <1>8, <1>10, <1>12, <1>14, <2>1, <3>3
    <3>4. CASE u # t[1] /\ u # t[2] /\ u # t[3]
      BY <1>4, <1>5, <1>8, <1>10, <1>12, <3>4
    <3> QED
      BY <3>1, <3>2, <3>3, <3>4
  <2> QED
    BY <2>2 DEF T
<1> QED
  BY <1>1, <1>15

IsSection(S, x, title, b) ==
    x = <<Heading(title)>> \o b /\ b \in Seq(S) /\ Plain(b) /\ Heading(title) \in S
IsFound(x, title, b, u, f) ==
    /\ Finds(x, u, f, IF u = title THEN Text(b) ELSE <<>>, Heading(title))
    /\ Once(x, u)
    /\ Openings(x, u) = {} <=> u # title

\* What is generated: three sections with empty lines between them.
LEMMA OneSection ==
    ASSUME NEW S, NEW x, NEW title, NEW b, IsSection(S, x, title, b), NEW u, NEW f
    PROVE  IsFound(x, title, b, u, f)
<1>1. x = <<Heading(title)>> \o b /\ b \in Seq(S) /\ Plain(b) /\ Heading(title) \in S
  BY Zenon DEF IsSection
<1> DEFINE H == Heading(title)
           h == <<H>>
           B == IF u = title THEN Text(b) ELSE <<>>
<1>2. h \in Seq(S)
  BY <1>1
<1>3. Finds(h, u, f, <<>>, H) /\ Once(h, u) /\ (Openings(h, u) = {} <=> u # title)
  BY UnderHeading, OpeningsHeading DEF Finds
<1>4. H = Heading(u) <=> u = title
  BY DEF Heading
<1>5. B \in Seq(S)
  BY <1>1, FilteredType DEF Text
<1> HIDE DEF H, h
<1>6. Finds(b, u, H, B, H)
  <2>1. UnderFrom(b, u, H) = (IF H = Heading(u) THEN Text(b) ELSE <<>>) /\ HeadAfter(b, H) = H
    BY <1>1, UnderPlain
  <2> QED
    BY <1>4, <2>1 DEF Finds
<1> HIDE DEF B
<1>7. Finds(h \o b, u, f, <<>> \o B, H)
  BY <1>1, <1>2, <1>3, <1>6, FindsConcat
<1>8. <<>> \o B = B
  BY <1>5, ConcatEmptySeq
<1>9. Openings(b, u) = {}
  BY <1>1, OpeningsPlain
<1>10. Once(h \o b, u) /\ (Openings(h \o b, u) = {} <=> u # title)
  <2>1. Once(h \o b, u) <=> Once(h, u) /\ Once(b, u) /\ (Openings(h, u) = {} \/ Openings(b, u) = {})
    BY <1>1, <1>2, OnceConcat
  <2>2. Openings(h \o b, u) = {} <=> Openings(h, u) = {} /\ Openings(b, u) = {}
    BY <1>1, <1>2, OnceConcat
  <2>3. Once(b, u)
    BY <1>9 DEF Once
  <2> QED
    BY <1>3, <1>9, <2>1, <2>2, <2>3
<1>11. Finds(h \o b, u, f, B, H)
  BY <1>7, <1>8, Zenon
<1>12. x = h \o b
  BY <1>1, Zenon DEF h, H
<1> QED
  BY <1>10, <1>11, <1>12, Zenon DEF H, B, IsFound

IsSections(S, t, b1, b2, b3) ==
    /\ b1 \in Seq(S) /\ b2 \in Seq(S) /\ b3 \in Seq(S)
    /\ Plain(b1) /\ Plain(b2) /\ Plain(b3)
    /\ t[1] # t[2] /\ t[1] # t[3] /\ t[2] # t[3]
    /\ Blank \in S /\ \A k \in 1..3 : Heading(t[k]) \in S
Sections(t, b1, b2, b3) ==
    <<Heading(t[1])>> \o b1 \o <<Blank>> \o (<<Heading(t[2])>> \o b2) \o <<Blank>>
        \o (<<Heading(t[3])>> \o b3)

\* Each of three sections is found under its title.
LEMMA SectionsAre ==
    ASSUME NEW S, NEW t, NEW b1, NEW b2, NEW b3, IsSections(S, t, b1, b2, b3)
    PROVE  /\ Sections(t, b1, b2, b3) \in Seq(S)
           /\ \A u : /\ Once(Sections(t, b1, b2, b3), u)
                     /\ Under(Sections(t, b1, b2, b3), u) =
                           CASE u = t[1] -> Text(b1) [] u = t[2] -> Text(b2) [] u = t[3] -> Text(b3)
                             [] OTHER -> <<>>
<1> DEFINE t1 == t[1]
           t2 == t[2]
           t3 == t[3]
           x1 == <<Heading(t1)>> \o b1
           x2 == <<Heading(t2)>> \o b2
           x3 == <<Heading(t3)>> \o b3
           z == <<Blank>>
           y1 == x1 \o z
           y2 == y1 \o x2
           y3 == y2 \o z
           y4 == y3 \o x3
<1>1. /\ b1 \in Seq(S) /\ b2 \in Seq(S) /\ b3 \in Seq(S) /\ Plain(b1) /\ Plain(b2) /\ Plain(b3)
      /\ t1 # t2 /\ t1 # t3 /\ t2 # t3
      /\ Heading(t1) \in S /\ Heading(t2) \in S /\ Heading(t3) \in S
  BY DEF IsSections
<1>2. z \in Seq(S) /\ AllBlank(z) /\ Plain(z) /\ Text(z) = <<>>
  <2>1. z \in Seq(S) /\ AllBlank(z)
    BY BlankLine DEF IsSections
  <2> HIDE DEF z
  <2> QED
    BY <2>1, BlankPlain, TextBlank
<1>3. Sections(t, b1, b2, b3) = y4
  BY Zenon DEF Sections
<1> HIDE DEF t1, t2, t3, z
<1>4. x1 \in Seq(S) /\ x2 \in Seq(S) /\ x3 \in Seq(S)
  BY <1>1, ConcatAt
<1>5. ASSUME NEW u PROVE Openings(z, u) = {} /\ Once(z, u) /\ \A f : Finds(z, u, f, <<>>, f)
  <2>1. Openings(z, u) = {}
    BY <1>2, OpeningsPlain
  <2>2. ASSUME NEW f PROVE Finds(z, u, f, <<>>, f)
    <3>1. UnderFrom(z, u, f) = (IF f = Heading(u) THEN Text(z) ELSE <<>>) /\ HeadAfter(z, f) = f
      BY <1>2, UnderPlain
    <3> QED
      BY <1>2, <3>1 DEF Finds
  <2> QED
    BY <2>1, <2>2 DEF Once
<1> DEFINE X1(u) == IF u = t1 THEN Text(b1) ELSE <<>>
           X2(u) == IF u = t2 THEN Text(b2) ELSE <<>>
           X3(u) == IF u = t3 THEN Text(b3) ELSE <<>>
<1>6. ASSUME NEW u, NEW f
      PROVE  /\ Finds(x1, u, f, X1(u), Heading(t1)) /\ Once(x1, u) /\ (Openings(x1, u) = {} <=> u # t1)
             /\ Finds(x2, u, f, X2(u), Heading(t2)) /\ Once(x2, u) /\ (Openings(x2, u) = {} <=> u # t2)
             /\ Finds(x3, u, f, X3(u), Heading(t3)) /\ Once(x3, u) /\ (Openings(x3, u) = {} <=> u # t3)
  <2> HIDE DEF x1, x2, x3, X1, X2, X3
  <2>1. Finds(x1, u, f, X1(u), Heading(t1)) /\ Once(x1, u) /\ (Openings(x1, u) = {} <=> u # t1)
    <3>1. IsSection(S, x1, t1, b1)
      BY <1>1, Zenon DEF x1, IsSection
    <3>2. IsFound(x1, t1, b1, u, f)
      BY <3>1, OneSection, Zenon
    <3> QED
      BY <3>2, Zenon DEF X1, IsFound
  <2>2. Finds(x2, u, f, X2(u), Heading(t2)) /\ Once(x2, u) /\ (Openings(x2, u) = {} <=> u # t2)
    <3>1. IsSection(S, x2, t2, b2)
      BY <1>1, Zenon DEF x2, IsSection
    <3>2. IsFound(x2, t2, b2, u, f)
      BY <3>1, OneSection, Zenon
    <3> QED
      BY <3>2, Zenon DEF X2, IsFound
  <2>3. Finds(x3, u, f, X3(u), Heading(t3)) /\ Once(x3, u) /\ (Openings(x3, u) = {} <=> u # t3)
    <3>1. IsSection(S, x3, t3, b3)
      BY <1>1, Zenon DEF x3, IsSection
    <3>2. IsFound(x3, t3, b3, u, f)
      BY <3>1, OneSection, Zenon
    <3> QED
      BY <3>2, Zenon DEF X3, IsFound
  <2> QED
    BY <2>1, <2>2, <2>3
<1>7. \A u : X1(u) \in Seq(S) /\ X2(u) \in Seq(S) /\ X3(u) \in Seq(S)
  <2>1. Text(b1) \in Seq(S) /\ Text(b2) \in Seq(S) /\ Text(b3) \in Seq(S)
    BY <1>1, FilteredType DEF Text
  <2> QED
    BY <2>1
<1> HIDE DEF x1, x2, x3, X1, X2, X3
<1>8. y1 \in Seq(S)
  BY <1>2, <1>4, ConcatAt
<1> HIDE DEF y1
<1>9. y2 \in Seq(S)
  BY <1>4, <1>8, ConcatAt
<1> HIDE DEF y2
<1>10. y3 \in Seq(S)
  BY <1>2, <1>9, ConcatAt
<1> HIDE DEF y3
<1>11. y4 \in Seq(S)
  BY <1>4, <1>10, ConcatAt
<1> HIDE DEF y4
<1>12. ASSUME NEW u PROVE Once(y4, u)
  <2>1. Once(y1, u) /\ (Openings(y1, u) = {} <=> u # t1)
    <3>1. Once(x1, u) /\ (Openings(x1, u) = {} <=> u # t1)
      BY <1>6
    <3>2. Once(z, u) /\ Openings(z, u) = {}
      BY <1>5
    <3> QED
      BY <1>2, <1>4, <3>1, <3>2, OnceConcat DEF y1
  <2>2. Once(y2, u) /\ (Openings(y2, u) = {} <=> u # t1 /\ u # t2)
    <3>1. Once(x2, u) /\ (Openings(x2, u) = {} <=> u # t2)
      BY <1>6
    <3> QED
      <4>1. Openings(y2, u) = {} <=> Openings(y1, u) = {} /\ Openings(x2, u) = {}
        <5> DEFINE Con(a, b) == Openings(a \o b, u) = {} <=> Openings(a, u) = {} /\ Openings(b, u) = {}
        <5>1. \A a, b \in Seq(S) : Con(a, b)
          BY OnceConcat
        <5> HIDE DEF Con
        <5>2. Con(y1, x2)
          BY <1>4, <1>8, <5>1
        <5> QED
          BY <5>2, Zenon DEF Con, y2
      <4>2. Once(y2, u) <=> Once(y1, u) /\ Once(x2, u) /\ (Openings(y1, u) = {} \/ Openings(x2, u) = {})
        BY <1>4, <1>8, OnceConcat DEF y2
      <4>3. u # t1 \/ u # t2
        BY <1>1
      <4> QED
        BY <2>1, <3>1, <4>1, <4>2, <4>3
  <2>3. Once(y3, u) /\ (Openings(y3, u) = {} <=> u # t1 /\ u # t2)
    BY <1>2, <1>5, <1>9, <2>2, OnceConcat DEF y3
  <2>4. Once(x3, u) /\ (Openings(x3, u) = {} <=> u # t3)
    BY <1>6
  <2> QED
    BY <1>1, <1>4, <1>10, <2>3, <2>4, OnceConcat DEF y4
<1>13. ASSUME NEW u PROVE Under(y4, u) = (((X1(u) \o <<>>) \o X2(u)) \o <<>>) \o X3(u)
  <2> DEFINE A == X1(u)
             B == X2(u)
             C == X3(u)
             H1 == Heading(t1)
             H2 == Heading(t2)
             H3 == Heading(t3)
  <2>1. Finds(x1, u, Blank, A, H1) /\ Finds(x2, u, H1, B, H2) /\ Finds(x3, u, H2, C, H3)
    BY <1>6
  <2>2. Finds(z, u, H1, <<>>, H1) /\ Finds(z, u, H2, <<>>, H2)
    BY <1>5
  <2> HIDE DEF A, B, C, H1, H2, H3
  <2>3. Finds(y1, u, Blank, A \o <<>>, H1)
    BY <1>2, <1>4, <2>1, <2>2, FindsConcat DEF y1
  <2>4. Finds(y2, u, Blank, (A \o <<>>) \o B, H2)
    BY <1>4, <1>8, <2>1, <2>3, FindsConcat DEF y2
  <2>5. Finds(y3, u, Blank, ((A \o <<>>) \o B) \o <<>>, H2)
    BY <1>2, <1>9, <2>2, <2>4, FindsConcat DEF y3
  <2>6. Finds(y4, u, Blank, (((A \o <<>>) \o B) \o <<>>) \o C, H3)
    BY <1>4, <1>10, <2>1, <2>5, FindsConcat DEF y4
  <2> QED
    BY <2>6, UnderWhole DEF Finds, A, B, C
<1>14. \A w \in Seq(S) : <<>> \o w = w /\ w \o <<>> = w
  BY ConcatEmptySeq
<1>15. ASSUME NEW u
       PROVE  Under(y4, u) = CASE u = t1 -> Text(b1) [] u = t2 -> Text(b2) [] u = t3 -> Text(b3)
                               [] OTHER -> <<>>
  <2>1. X1(u) \in Seq(S) /\ X2(u) \in Seq(S) /\ X3(u) \in Seq(S) /\ <<>> \in Seq(S)
    BY <1>7
  <2>2. CASE u = t1
    <3>1. X1(u) = Text(b1) /\ X2(u) = <<>> /\ X3(u) = <<>>
      BY <1>1, <2>2 DEF X1, X2, X3
    <3>2. Under(y4, u) = (((X1(u) \o <<>>) \o <<>>) \o <<>>) \o <<>>
      BY <1>13, <3>1, Zenon
    <3>3. Under(y4, u) = Text(b1)
      BY <1>14, <2>1, <3>1, <3>2, Zenon
    <3> QED
      BY <1>1, <2>2, <3>3
  <2>3. CASE u = t2
    <3>1. X1(u) = <<>> /\ X2(u) = Text(b2) /\ X3(u) = <<>>
      BY <1>1, <2>3 DEF X1, X2, X3
    <3>2. Under(y4, u) = (((<<>> \o <<>>) \o X2(u)) \o <<>>) \o <<>>
      BY <1>13, <3>1, Zenon
    <3>3. Under(y4, u) = Text(b2)
      BY <1>14, <2>1, <3>1, <3>2, Zenon
    <3> QED
      BY <1>1, <2>3, <3>3
  <2>4. CASE u = t3
    <3>1. X1(u) = <<>> /\ X2(u) = <<>> /\ X3(u) = Text(b3)
      BY <1>1, <2>4 DEF X1, X2, X3
    <3>2. Under(y4, u) = Text(b3)
      BY <1>13, <1>14, <2>1, <3>1, ZenonT(60)
    <3> QED
      BY <1>1, <2>4, <3>2
  <2>5. CASE u # t1 /\ u # t2 /\ u # t3
    <3>1. X1(u) = <<>> /\ X2(u) = <<>> /\ X3(u) = <<>>
      BY <2>5 DEF X1, X2, X3
    <3>2. Under(y4, u) = <<>>
      BY <1>13, <1>14, <2>1, <3>1, Zenon
    <3> QED
      BY <2>5, <3>2
  <2> QED
    BY <2>2, <2>3, <2>4, <2>5
<1> QED
  BY <1>3, <1>11, <1>12, <1>15 DEF t1, t2, t3

-----------------------------------------------------------------------------
\* The lines that are generated.

\* Lines of one kind, none of them a header or an empty line.
IsKind(S, lines, kind) == lines \in Seq(S) /\ \A x \in S : x.is = kind
LineKinds == {"proxy", "group", "rule"}

\* They are all text.
LEMMA KindLines ==
    ASSUME NEW S, NEW lines, NEW kind \in LineKinds, IsKind(S, lines, kind)
    PROVE  Plain(lines) /\ Text(lines) = lines
<1>1. lines \in Seq(S) /\ \A i \in DOMAIN lines : lines[i].is = kind
  BY DEF IsKind
<1>2. \A i \in DOMAIN lines : ~IsHeader(lines[i])
  BY <1>1 DEF LineKinds, IsHeader
<1>3. \A i \in DOMAIN lines : NotBlank(lines[i])
  BY <1>1 DEF LineKinds, NotBlank, Blank
<1>4. \A i \in DOMAIN lines : i \in {k \in DOMAIN lines : NotBlank(lines[k])}
  BY <1>3
<1> QED
  BY <1>1, <1>2, <1>4, FilteredAll DEF Plain, Text

\* What stands in a section, an empty line where there is nothing.
LEMMA KindSection ==
    ASSUME NEW S, NEW lines, NEW kind \in LineKinds, IsKind(S, lines, kind), NEW R, S \subseteq R, Blank \in R,
           NEW b, b = Either(lines, <<Blank>>)
    PROVE  b \in Seq(R) /\ Plain(b) /\ Text(b) = lines
<1>1. <<Blank>> \in Seq(R) /\ AllBlank(<<Blank>>)
  BY BlankLine
<1>2. lines \in Seq(R)
  BY DEF IsKind
<1>3. CASE lines = <<>>
  <2>1. b = <<Blank>>
    BY <1>3, Zenon DEF Either
  <2> QED
    BY <1>1, <1>3, <2>1, BlankPlain, TextBlank
<1>4. CASE lines # <<>>
  <2>1. b = lines
    BY <1>4, Zenon DEF Either
  <2> QED
    BY <1>2, <2>1, KindLines
<1> QED
  BY <1>3, <1>4

\* The same after an empty line.
LEMMA BlankSection ==
    ASSUME NEW S, NEW lines, NEW kind \in LineKinds, IsKind(S, lines, kind), NEW R, S \subseteq R, Blank \in R,
           NEW b, b = Either(<<Blank>> \o lines, <<Blank>>)
    PROVE  b \in Seq(R) /\ Plain(b) /\ Text(b) = lines
<1> DEFINE z == <<Blank>>
<1>1. z \in Seq(R) /\ AllBlank(z) /\ Len(z) = 1
  BY BlankLine
<1>2. lines \in Seq(R)
  BY DEF IsKind
<1> HIDE DEF z
<1>3. z \o lines \in Seq(R) /\ z \o lines # <<>>
  BY <1>1, <1>2
<1>4. b = z \o lines
  BY <1>3, Zenon DEF Either, z
<1>5. Plain(z) /\ Text(z) = <<>> /\ Plain(lines) /\ Text(lines) = lines
  BY <1>1, BlankPlain, TextBlank, KindLines
<1>6. Text(z \o lines) = <<>> \o lines
  BY <1>1, <1>2, <1>5, TextConcat
<1>7. <<>> \o lines = lines
  BY <1>2, ConcatEmptySeq
<1>8. Plain(z \o lines)
  BY <1>1, <1>2, <1>5, PlainConcat
<1> QED
  BY <1>3, <1>4, <1>6, <1>7, <1>8

-----------------------------------------------------------------------------
\* The lines that a target has for nodes, groups and rules.
NodeSet(S) == [is : {"proxy"}, name : {n.remark : n \in S} \cup {Name("DIRECT")}]
GroupSet(j, ns) ==
    [is : {"group"}, name : {j.settings.groups[i].name : i \in DOMAIN j.settings.groups} \cup {Name("Proxy")},
     members : {NamesOf(ns)}]
RuleSet(j) ==
    [is : {"rule"}, to : {j.settings.rulesets[i].group : i \in DOMAIN j.settings.rulesets} \cup {Name("Proxy")}]

IsJob(j) ==
    /\ j.settings.groups \in Seq(ProxyGroupConfig)
    /\ j.settings.rulesets \in Seq(RulesetConfig)
    /\ j.settings.textBase \in Seq(BaseLine)

\* A line for each node, with its name.
LEMMA ProxyLinesAre ==
    ASSUME NEW S, NEW ns \in Seq(S)
    PROVE  /\ ProxyLines(ns) \in Seq(NodeSet(S)) /\ Len(ProxyLines(ns)) = Len(ns)
           /\ \A i \in DOMAIN ns : ProxyLines(ns)[i] = ProxyLine(ns[i].remark)
<1>1. Len(ns) \in Nat /\ DOMAIN ns = 1..Len(ns) /\ \A i \in DOMAIN ns : ns[i] \in S
  OBVIOUS
<1>2. \A n \in S : ProxyLine(n.remark) \in NodeSet(S)
  BY DEF ProxyLine, NodeSet
<1>3. ProxyLines(ns) = [i \in 1..Len(ns) |-> ProxyLine(ns[i].remark)]
  BY <1>1, Zenon DEF ProxyLines
<1>4. [i \in 1..Len(ns) |-> ProxyLine(ns[i].remark)] \in [1..Len(ns) -> NodeSet(S)]
  BY <1>1, <1>2
<1> HIDE DEF NodeSet, ProxyLine
<1> QED
  BY <1>1, <1>3, <1>4

\* The program's own proxy, or nothing.
LEMMA DirectLineIs ==
    ASSUME NEW S, NEW j
    PROVE  DirectLine(j) \in Seq(NodeSet(S)) /\ (DirectLine(j) = <<>> \/ DirectLine(j) = <<ProxyLine(Name("DIRECT"))>>)
<1>1. ProxyLine(Name("DIRECT")) \in NodeSet(S)
  BY DEF ProxyLine, NodeSet
<1> HIDE DEF NodeSet, ProxyLine
<1>2. <<ProxyLine(Name("DIRECT"))>> \in Seq(NodeSet(S)) /\ <<>> \in Seq(NodeSet(S))
  BY <1>1
<1> QED
  BY <1>2 DEF DirectLine

\* The lines of the nodes are proxies.
LEMMA NodeLinesAre ==
    ASSUME NEW S, NEW ns \in Seq(S), NEW j
    PROVE  IsKind(NodeSet(S), NodeLines(j, ns), "proxy")
<1>1. \A x \in NodeSet(S) : x.is = "proxy"
  BY DEF NodeSet
<1>2. DirectLine(j) \in Seq(NodeSet(S))
  BY DirectLineIs
<1>3. SurgeLines(ns, j.version) \in Seq(NodeSet(S)) /\ ProxyLines(ns) \in Seq(NodeSet(S))
  <2> DEFINE Written(node) == j.version = 4 \/ node.type \notin {"VMESS", "TROJAN"}
             kept == Filtered(ns, {i \in DOMAIN ns : Written(ns[i])})
  <2>1. SurgeLines(ns, j.version) = ProxyLines(kept)
    BY Zenon DEF SurgeLines
  <2>2. kept \in Seq(S)
    BY FilteredType
  <2> HIDE DEF kept
  <2> QED
    BY <2>1, <2>2, ProxyLinesAre
<1>4. NodeLines(j, ns) \in Seq(NodeSet(S))
  <2> DEFINE rest == IF j.target = "surge" THEN SurgeLines(ns, j.version) ELSE ProxyLines(ns)
  <2>1. rest \in Seq(NodeSet(S))
    BY <1>3
  <2>2. NodeLines(j, ns) = DirectLine(j) \o rest
    BY Zenon DEF NodeLines
  <2> HIDE DEF rest
  <2> QED
    BY <1>2, <2>1, <2>2, ConcatAt
<1> QED
  BY <1>1, <1>4 DEF IsKind

\* Those of the groups are groups.
LEMMA GroupLinesAre ==
    ASSUME NEW ns, NEW j, IsJob(j)
    PROVE  IsKind(GroupSet(j, ns), GroupLines(j, ns), "group")
<1> DEFINE groups == j.settings.groups
           names == NamesOf(ns)
           G == GroupSet(j, ns)
<1>1. \A x \in G : x.is = "group"
  BY DEF GroupSet
<1>2. groups \in Seq(ProxyGroupConfig) /\ Len(groups) \in Nat /\ DOMAIN groups = 1..Len(groups)
  BY DEF IsJob
<1>3. GroupLine(Name("Proxy"), names) \in G /\ \A i \in DOMAIN groups : GroupLine(groups[i].name, names) \in G
  BY DEF GroupSet, GroupLine
<1>4. GroupLines(j, ns) = [i \in 1..Len(groups) |-> GroupLine(groups[i].name, names)]
      \/ GroupLines(j, ns) = <<GroupLine(Name("Proxy"), names)>>
  BY <1>2 DEF GroupLines
<1>5. [i \in 1..Len(groups) |-> GroupLine(groups[i].name, names)] \in [1..Len(groups) -> G]
  BY <1>2, <1>3
<1>6. [i \in 1..Len(groups) |-> GroupLine(groups[i].name, names)] \in Seq(G)
  BY <1>2, <1>5
<1>7. <<GroupLine(Name("Proxy"), names)>> \in Seq(G)
  BY <1>3
<1> QED
  BY <1>1, <1>4, <1>6, <1>7, Zenon DEF IsKind

\* Those of the rules are rules.
LEMMA RuleLinesAre ==
    ASSUME NEW j, IsJob(j)
    PROVE  IsKind(RuleSet(j), RuleLines(j), "rule")
<1> DEFINE rulesets == IF j.target \in {"quan", "quanx"} THEN j.settings.rulesets ELSE <<>>
           R == RuleSet(j)
           lines == [i \in DOMAIN rulesets |-> RuleLine(rulesets[i].group)]
           otherwise == <<RuleLine(Name("Proxy"))>>
<1>1. \A x \in R : x.is = "rule"
  BY DEF RuleSet
<1>2. rulesets \in Seq(RulesetConfig) /\ Len(rulesets) \in Nat /\ DOMAIN rulesets = 1..Len(rulesets)
  BY DEF IsJob
<1>3. RuleLine(Name("Proxy")) \in R /\ \A i \in DOMAIN rulesets : RuleLine(rulesets[i].group) \in R
  BY <1>2 DEF RuleSet, RuleLine, IsJob
<1>4. RuleLines(j) = Either(lines, otherwise)
  BY Zenon DEF RuleLines
<1> HIDE DEF rulesets
<1>5. lines \in Seq(R)
  <2>1. lines \in [1..Len(rulesets) -> R]
    BY <1>2, <1>3
  <2> HIDE DEF lines
  <2> QED
    BY <1>2, <2>1
<1>6. otherwise \in Seq(R)
  BY <1>3
<1> HIDE DEF lines, otherwise
<1>7. RuleLines(j) \in Seq(R)
  BY <1>4, <1>5, <1>6 DEF Either
<1> QED
  BY <1>1, <1>7 DEF IsKind

-----------------------------------------------------------------------------
\* The text document.

\* The lines that a target has, in the order of its sections.
First(j, ns) == IF j.target = "quanx" THEN GroupLines(j, ns) ELSE NodeLines(j, ns)
Second(j, ns) == IF j.target = "quanx" THEN NodeLines(j, ns) ELSE GroupLines(j, ns)

\* All lines of a document that may be made of a base.
LineSet(S, j, ns, t) ==
    BaseLine \cup NodeSet(S) \cup GroupSet(j, ns) \cup RuleSet(j) \cup {Heading(t[k]) : k \in 1..3}

FindsAll(config, t, v, w, z) ==
    /\ Under(config, t[1]) = v /\ Under(config, t[2]) = w /\ Under(config, t[3]) = z
    /\ \A u : u \notin Range(t) => Under(config, u) = <<>>

\* What is generated has each section once, with its lines.
LEMMA GeneratedAre ==
    ASSUME NEW S, NEW ns \in Seq(S), NEW j, IsJob(j), j.target \in TextTargets,
           NEW t, t = SectionTitles(j.target)
    PROVE  /\ IsGood(LineSet(S, j, ns, t), Generated(j, ns), t)
           /\ FindsAll(Generated(j, ns), t, First(j, ns), Second(j, ns), RuleLines(j))
<1> DEFINE L == LineSet(S, j, ns, t)
           first == First(j, ns)
           second == IF j.target = "quanx" THEN NodeLines(j, ns)
                     ELSE IF j.target = "surfboard" THEN <<Blank>> \o GroupLines(j, ns)
                     ELSE GroupLines(j, ns)
           b1 == Either(first, <<Blank>>)
           b2 == Either(second, <<Blank>>)
           b3 == Either(RuleLines(j), <<Blank>>)
<1>1. Generated(j, ns) = Sections(t, b1, b2, b3)
  BY Zenon DEF Generated, Sections, Section, First
<1>2. t[1] # t[2] /\ t[1] # t[3] /\ t[2] # t[3] /\ Range(t) = {t[1], t[2], t[3]}
  BY TitlesAre
<1>3. /\ IsKind(NodeSet(S), NodeLines(j, ns), "proxy")
      /\ IsKind(GroupSet(j, ns), GroupLines(j, ns), "group")
      /\ IsKind(RuleSet(j), RuleLines(j), "rule")
  BY NodeLinesAre, GroupLinesAre, RuleLinesAre
<1>4. /\ NodeSet(S) \subseteq L /\ GroupSet(j, ns) \subseteq L /\ RuleSet(j) \subseteq L
      /\ \A k \in 1..3 : Heading(t[k]) \in L
  BY DEF LineSet
<1>5. Blank \in L
  BY DEF LineSet, BaseLine
<1> HIDE DEF L
<1>6. b1 \in Seq(L) /\ Plain(b1) /\ Text(b1) = first
  <2>1. CASE j.target = "quanx"
    <3>1. first = GroupLines(j, ns)
      BY <2>1 DEF First
    <3> QED
      BY <1>3, <1>4, <1>5, <3>1, KindSection DEF LineKinds
  <2>2. CASE j.target # "quanx"
    <3>1. first = NodeLines(j, ns)
      BY <2>2 DEF First
    <3> QED
      BY <1>3, <1>4, <1>5, <3>1, KindSection DEF LineKinds
  <2> QED
    BY <2>1, <2>2
<1>7. b2 \in Seq(L) /\ Plain(b2) /\ Text(b2) = Second(j, ns)
  <2>1. CASE j.target = "quanx"
    <3>1. second = NodeLines(j, ns) /\ Second(j, ns) = NodeLines(j, ns)
      BY <2>1 DEF Second
    <3> HIDE DEF second
    <3> QED
      BY <1>3, <1>4, <1>5, <3>1, KindSection DEF LineKinds
  <2>2. CASE j.target = "surfboard"
    <3>1. second = <<Blank>> \o GroupLines(j, ns) /\ Second(j, ns) = GroupLines(j, ns)
      BY <2>2 DEF Second
    <3> HIDE DEF second
    <3> QED
      BY <1>3, <1>4, <1>5, <3>1, BlankSection DEF LineKinds
  <2>3. CASE j.target \notin {"quanx", "surfboard"}
    <3>1. second = GroupLines(j, ns) /\ Second(j, ns) = GroupLines(j, ns)
      BY <2>3 DEF Second
    <3> HIDE DEF second
    <3> QED
      BY <1>3, <1>4, <1>5, <3>1, KindSection DEF LineKinds
  <2> QED
    BY <2>1, <2>2, <2>3
<1>8. b3 \in Seq(L) /\ Plain(b3) /\ Text(b3) = RuleLines(j)
  BY <1>3, <1>4, <1>5, KindSection DEF LineKinds
<1> HIDE DEF b1, b2, b3, first, second
<1>9. IsSections(L, t, b1, b2, b3)
  BY <1>2, <1>4, <1>5, <1>6, <1>7, <1>8 DEF IsSections
<1>10. /\ Generated(j, ns) \in Seq(L)
       /\ \A u : /\ Once(Generated(j, ns), u)
                 /\ Under(Generated(j, ns), u) =
                       CASE u = t[1] -> Text(b1) [] u = t[2] -> Text(b2) [] u = t[3] -> Text(b3)
                         [] OTHER -> <<>>
  BY <1>1, <1>9, SectionsAre
<1>11. IsGood(L, Generated(j, ns), t)
  BY <1>10 DEF IsGood
<1>12. /\ Under(Generated(j, ns), t[1]) = Text(b1) /\ Under(Generated(j, ns), t[2]) = Text(b2)
       /\ Under(Generated(j, ns), t[3]) = Text(b3)
       /\ \A u : u \notin {t[1], t[2], t[3]} => Under(Generated(j, ns), u) = <<>>
  BY <1>2, <1>10
<1>13. FindsAll(Generated(j, ns), t, first, Second(j, ns), RuleLines(j))
  BY <1>2, <1>6, <1>7, <1>8, <1>12, Zenon DEF FindsAll
<1> QED
  BY <1>11, <1>13 DEF L, first

\* What a reader finds in the text of a target.
LEMMA ExportedText ==
    ASSUME NEW S, NEW ns \in Seq(S), NEW j, IsJob(j), j.target \in TextTargets,
           NEW t, t = SectionTitles(j.target),
           ~j.options.nodelist, Headers(j.settings.textBase) # {},
           \A u \in Range(t) : Once(j.settings.textBase, u)
    PROVE  \A u : Under(ExportText(j, ns), u) =
                     IF u \in Range(t) THEN Together(j.settings.textBase, Generated(j, ns), u, j.settings.overwrite)
                     ELSE Under(j.settings.textBase, u)
<1> DEFINE L == LineSet(S, j, ns, t)
           base == j.settings.textBase
           generated == Generated(j, ns)
           overwrite == j.settings.overwrite
<1>1. IsGood(L, generated, t)
  BY GeneratedAre
<1>2. base \in Seq(BaseLine) /\ BaseLine \subseteq L /\ Blank \in L /\ \A k \in 1..3 : Heading(t[k]) \in L
  BY DEF IsJob, LineSet, BaseLine
<1>3. t[1] \in Range(t) /\ t[2] \in Range(t) /\ t[3] \in Range(t)
  BY TitlesAre
<1> HIDE DEF L
<1>4. base \in Seq(L)
  BY <1>2
<1>5. IsGood(L, base, t)
  BY <1>3, <1>4 DEF IsGood
<1>6. ExportText(j, ns) = ApplyTextRuleBase(generated, base, j.target, overwrite)
  BY Zenon DEF ExportText
<1> HIDE DEF base, generated, overwrite
<1>7. Headers(base) # {}
  BY DEF base
<1>8. \A u : Under(ApplyTextRuleBase(generated, base, j.target, overwrite), u) =
                IF u \in Range(t) THEN Together(base, generated, u, overwrite) ELSE Under(base, u)
  BY <1>1, <1>2, <1>5, <1>7, AppliedIs
<1> QED
  BY <1>6, <1>8 DEF base, generated, overwrite

-----------------------------------------------------------------------------
\* The base is merged.

\* The document is what the nodes are exported as, once they have their names.
Exported == stage = "done" => doc = Export(job, done)

\* Only a step to the end makes the document, and nothing follows.
LEMMA ExportedStep == Exported /\ [Next]_vars => Exported'
<1> SUFFICES ASSUME Exported, [Next]_vars PROVE Exported'
  OBVIOUS
<1>1. CASE UNCHANGED vars
  BY <1>1, Zenon DEF vars, Exported
<1>2. CASE WriteDocument
  BY <1>2, Zenon DEF WriteDocument, Exported, Fail
<1>3. CASE \/ ParseText \/ ParseLink \/ ParseOther \/ EndParse \/ ScriptFails
           \/ FilterNode \/ EndFilter \/ Prefer \/ EndRename \/ Select
  <2>1. stage' # "done"
    <3>1. CASE ParseText \/ ParseLink \/ ParseOther \/ EndParse
      BY <1>3, <3>1 DEF ParseText, ParseLink, ParseOther, EndParse, Read, Fail
    <3>2. CASE ScriptFails \/ FilterNode \/ EndFilter \/ Prefer \/ EndRename \/ Select
      BY <1>3, <3>2 DEF ScriptFails, Fail, FilterNode, EndFilter, Prefer, EndRename, Select, Advance
    <3> QED
      BY <1>3, <3>1, <3>2
  <2> QED
    BY <2>1 DEF Exported
<1>4. CASE RenameByRule \/ RenamedNode \/ Prepare \/ AdornByRule \/ Unadorned
  <2>1. stage' = stage /\ stage \in {"rename", "adorn"}
    BY <1>4, Zenon DEF RenameByRule, RenamedNode, Prepare, AdornByRule, Unadorned, Through, Rewrite
  <2> QED
    BY <2>1 DEF Exported
<1>5. CASE EndAdorn \/ SortByScript \/ StartExport \/ NameTaken \/ NameFree
  <2>1. stage' # "done"
    BY <1>5 DEF EndAdorn, SortByScript, StartExport, NameTaken, NameFree
  <2> QED
    BY <2>1 DEF Exported
<1> QED
  BY <1>1, <1>2, <1>3, <1>4, <1>5 DEF Next

\* Jobs have such settings.
LEMMA JobsAreTyped == ASSUME NEW j \in Jobs PROVE IsJob(j)
BY SettingsAreTyped DEF IsJob

\* In such a state the base is merged as it should be.
LEMMA MergedHolds == Checked /\ Named /\ Exported => SectionsMerged
<1> SUFFICES ASSUME Checked, Named, Exported, Merging PROVE SectionsMerged
  BY DEF SectionsMerged
<1> DEFINE generated == Generated(job, done)
           t == SectionTitles(job.target)
           T(u) == Together(Base, generated, u, Settings.overwrite)
<1>1. stage = "done" /\ job.target \in TextTargets /\ ~job.options.nodelist
      /\ Headers(job.settings.textBase) # {} /\ \A u \in Range(t) : Once(job.settings.textBase, u)
  BY DEF Merging, EachOnce, Base, Options, Settings
<1>2. IsJob(job)
  BY JobsAreTyped DEF Checked
<1>3. PICK S : done \in Seq(S)
  BY <1>1 DEF Named
<1>4. doc.lines = ExportText(job, done)
  <2>1. Export(job, done) = [lines |-> ExportText(job, done)]
    BY <1>1 DEF Export, TextTargets, ClashTargets
  <2>2. doc = Export(job, done)
    BY <1>1 DEF Exported
  <2> QED
    BY <2>1, <2>2
<1>5. \A u : Under(doc.lines, u) = IF u \in Range(t) THEN T(u) ELSE Under(Base, u)
  <2> HIDE DEF t
  <2> DEFINE A(u) == Under(ExportText(job, done), u)
             B(u) == IF u \in Range(t) THEN Together(job.settings.textBase, Generated(job, done), u, job.settings.overwrite)
                     ELSE Under(job.settings.textBase, u)
  <2>1. t = SectionTitles(job.target)
    BY DEF t
  <2>2. \A u : A(u) = B(u)
    BY <1>1, <1>2, <1>3, <2>1, ExportedText
  <2> QED
    BY <1>4, <2>2, Zenon DEF Base, Settings
<1>6. \A u : u \notin Range(t) => Under(generated, u) = <<>>
  <2>1. FindsAll(generated, t, First(job, done), Second(job, done), RuleLines(job))
    BY <1>1, <1>2, <1>3, GeneratedAre
  <2> QED
    BY <2>1 DEF FindsAll
<1>7. \A u : Under(Base, u) \o <<>> = Under(Base, u)
  <2>1. Base \in Seq(BaseLine)
    BY <1>2 DEF IsJob, Base, Settings
  <2> SUFFICES ASSUME NEW u PROVE Under(Base, u) \o <<>> = Under(Base, u)
    OBVIOUS
  <2>2. Under(Base, u) \in Seq(BaseLine)
    BY <2>1, FilteredType DEF Under
  <2> QED
    BY <2>2, ConcatEmptySeq
<1> DEFINE Overwritten(u) == Settings.overwrite /\ u \notin NodeTitles
           Merged(u) == IF Overwritten(u) /\ Under(generated, u) # <<>> THEN Under(generated, u)
                        ELSE Under(Base, u) \o Under(generated, u)
<1> HIDE DEF generated, t
<1>8. \A u : Under(doc.lines, u) = Merged(u)
  <2> SUFFICES ASSUME NEW u PROVE Under(doc.lines, u) = Merged(u)
    OBVIOUS
  <2>1. T(u) = Merged(u)
    BY Zenon DEF Together
  <2>2. u \notin Range(t) => Merged(u) = Under(Base, u)
    BY <1>6, <1>7
  <2> HIDE DEF T, Merged
  <2> QED
    BY <1>5, <2>1, <2>2
<1> QED
  BY <1>8, Zenon DEF SectionsMerged, generated

\* A document that is merged into a text base keeps what the base says: under every
\* title a reader finds what was there and then what was generated, or only that where
\* the original is overwritten, for any base with each of the sections at most once
\* (apply_text_rule_base, append_to_section, replace_section, with_new_section).
THEOREM BaseKept == Spec => []SectionsMerged
<1>1. Init => Checked /\ Named /\ Exported
  BY DEF Init, Checked, Named, Exported
<1> QED
  BY <1>1, CheckedStep, NamedStep, ExportedStep, MergedHolds, PTL DEF Spec

-----------------------------------------------------------------------------
\* Names of nodes and groups.

Remarks(S) == {n.remark : n \in S}

\* The names of the nodes, one by one.
LEMMA NamesOfAre ==
    ASSUME NEW S, NEW ns \in Seq(S)
    PROVE  /\ NamesOf(ns) \in Seq(Remarks(S)) /\ DOMAIN NamesOf(ns) = DOMAIN ns /\ Len(NamesOf(ns)) = Len(ns)
           /\ \A i \in DOMAIN ns : NamesOf(ns)[i] = ns[i].remark
           /\ Distinct(ns) => IsInjective(NamesOf(ns))
<1> DEFINE f == [i \in 1..Len(ns) |-> ns[i].remark]
<1>1. Len(ns) \in Nat /\ DOMAIN ns = 1..Len(ns) /\ \A i \in DOMAIN ns : ns[i] \in S
  OBVIOUS
<1>2. \A i \in DOMAIN ns : ns[i].remark \in Remarks(S)
  BY <1>1 DEF Remarks
<1>3. NamesOf(ns) = f
  BY <1>1, Zenon DEF NamesOf
<1>4. f \in [1..Len(ns) -> Remarks(S)]
  BY <1>1, <1>2
<1>5. DOMAIN f = DOMAIN ns /\ \A i \in DOMAIN ns : f[i] = ns[i].remark
  BY <1>1
<1> HIDE DEF f
<1>6. f \in Seq(Remarks(S)) /\ Len(f) = Len(ns)
  BY <1>1, <1>4
<1>7. Distinct(ns) => IsInjective(f)
  BY <1>5 DEF Distinct, IsInjective
<1> QED
  BY <1>3, <1>5, <1>6, <1>7

\* They are the remarks.
LEMMA NamesRange ==
    ASSUME NEW S, NEW ns \in Seq(S), NEW x
    PROVE  x \in Range(NamesOf(ns)) <=> \E i \in DOMAIN ns : x = ns[i].remark
<1> DEFINE f == NamesOf(ns)
<1>1. DOMAIN f = DOMAIN ns /\ \A i \in DOMAIN ns : f[i] = ns[i].remark
  BY NamesOfAre
<1> HIDE DEF f
<1>2. x \in Range(f) <=> \E i \in DOMAIN ns : x = ns[i].remark
  BY <1>1 DEF Range
<1> QED
  BY <1>2 DEF f

\* Nodes that are left keep their names apart.
LEMMA FilteredNodes ==
    ASSUME NEW S, NEW ns \in Seq(S), NEW P, NEW kept, kept = Filtered(ns, P)
    PROVE  /\ kept \in Seq(S)
           /\ Distinct(ns) => Distinct(kept)
           /\ Range(NamesOf(kept)) \subseteq Range(NamesOf(ns))
<1>1. kept \in Seq(S)
  BY FilteredType
<1>2. PICK e : IsSelection(e, ns, P)
  BY FilteredPlaces
<1>3. /\ e \in [1..Len(kept) -> {i \in DOMAIN ns : i \in P}]
      /\ \A i \in 1..Len(kept) : kept[i] = ns[e[i]]
      /\ \A i, k \in 1..Len(kept) : e[i] = e[k] => i = k
      /\ DOMAIN kept = 1..Len(kept)
  BY <1>1, <1>2 DEF IsSelection
<1>4. \A i \in DOMAIN kept : e[i] \in DOMAIN ns /\ kept[i] = ns[e[i]]
  BY <1>3
<1>5. Distinct(ns) => Distinct(kept)
  BY <1>3, <1>4 DEF Distinct
<1>6. \A x \in Range(NamesOf(kept)) : x \in Range(NamesOf(ns))
  <2> SUFFICES ASSUME NEW x, x \in Range(NamesOf(kept)) PROVE x \in Range(NamesOf(ns))
    OBVIOUS
  <2>1. PICK i \in DOMAIN kept : x = kept[i].remark
    BY <1>1, NamesRange
  <2>2. e[i] \in DOMAIN ns /\ x = ns[e[i]].remark
    BY <1>4, <2>1
  <2> QED
    BY <2>2, NamesRange
<1> QED
  BY <1>1, <1>5, <1>6

\* What a member of a group stands for.
AllNames(S) == Remarks(S) \cup Seq(STRING)

\* A member stands for a name of its own or for names of nodes.
LEMMA MembersAre ==
    ASSUME NEW S, NEW ns \in Seq(S), NEW m \in Member
    PROVE  /\ MembersOf(m, ns) \in Seq(AllNames(S))
           /\ \A x \in Range(MembersOf(m, ns)) : (m.by = "name" /\ x = m.value) \/ x \in Range(NamesOf(ns))
<1> DEFINE InGroup == {i \in DOMAIN ns : ns[i].group = m.value}
           WithWord == {i \in DOMAIN ns : Has(ns[i].remark, m.value)}
<1>1. m.by \in {"all", "name", "group", "word"} /\ (m.by = "name" => m.value \in Seq(STRING))
  BY DEF Member
<1>2. /\ m.by = "name" => MembersOf(m, ns) = <<m.value>>
      /\ m.by = "all" => MembersOf(m, ns) = NamesOf(ns)
      /\ m.by = "group" => MembersOf(m, ns) = NamesOf(Filtered(ns, InGroup))
      /\ m.by = "word" => MembersOf(m, ns) = NamesOf(Filtered(ns, WithWord))
  BY DEF MembersOf
<1> HIDE DEF InGroup, WithWord
<1>3. \A P : NamesOf(Filtered(ns, P)) \in Seq(Remarks(S)) /\ Range(NamesOf(Filtered(ns, P))) \subseteq Range(NamesOf(ns))
  <2> SUFFICES ASSUME NEW P
               PROVE  /\ NamesOf(Filtered(ns, P)) \in Seq(Remarks(S))
                      /\ Range(NamesOf(Filtered(ns, P))) \subseteq Range(NamesOf(ns))
    OBVIOUS
  <2> DEFINE kept == Filtered(ns, P)
  <2>1. kept = Filtered(ns, P)
    OBVIOUS
  <2> HIDE DEF kept
  <2>2. kept \in Seq(S) /\ Range(NamesOf(kept)) \subseteq Range(NamesOf(ns))
    BY <2>1, FilteredNodes
  <2>3. NamesOf(kept) \in Seq(Remarks(S))
    BY <2>2, NamesOfAre
  <2> QED
    BY <2>2, <2>3 DEF kept
<1>4. \A s : s \in Seq(Remarks(S)) => s \in Seq(AllNames(S))
  <2>1. Remarks(S) \subseteq AllNames(S)
    BY DEF AllNames
  <2> QED
    BY <2>1
<1>5. CASE m.by = "name"
  <2> DEFINE v == m.value
  <2>1. v \in AllNames(S)
    BY <1>1, <1>5 DEF AllNames
  <2>2. MembersOf(m, ns) = <<v>>
    BY <1>2, <1>5
  <2> HIDE DEF v
  <2>3. <<v>> \in Seq(AllNames(S)) /\ \A x \in Range(<<v>>) : x = v
    BY <2>1 DEF Range
  <2> QED
    BY <1>5, <2>2, <2>3 DEF v
<1>6. CASE m.by = "all"
  <2>1. NamesOf(ns) \in Seq(Remarks(S))
    BY NamesOfAre
  <2> QED
    BY <1>2, <1>4, <1>6, <2>1
<1>7. CASE m.by = "group" \/ m.by = "word"
  BY <1>2, <1>3, <1>4, <1>7
<1> QED
  BY <1>1, <1>5, <1>6, <1>7

\* So do several.
LEMMA ExpandedAre ==
    ASSUME NEW S, NEW ns \in Seq(S), NEW rules \in Seq(Member)
    PROVE  /\ ExpandGroupRules(rules, ns) \in Seq(AllNames(S))
           /\ \A x \in Range(ExpandGroupRules(rules, ns)) :
                 x \in Range(NamesOf(ns)) \/ \E i \in DOMAIN rules : rules[i].by = "name" /\ x = rules[i].value
<1> DEFINE V == AllNames(S)
           VV == Seq(V)
           ss == [i \in 1..Len(rules) |-> MembersOf(rules[i], ns)]
           flat == FlattenSeq(ss)
           P == {i \in DOMAIN flat : i = 1 \/ flat[i] # flat[i - 1]}
<1>1. Len(rules) \in Nat /\ DOMAIN rules = 1..Len(rules) /\ \A i \in DOMAIN rules : rules[i] \in Member
  OBVIOUS
<1>2. ExpandGroupRules(rules, ns) = Filtered(flat, P)
  BY <1>1, Zenon DEF ExpandGroupRules, Deduplicated
<1>3. \A i \in DOMAIN rules : MembersOf(rules[i], ns) \in VV
  BY <1>1, MembersAre
<1> HIDE DEF V, VV
<1>4. ss \in Seq(VV) /\ DOMAIN ss = DOMAIN rules /\ \A i \in DOMAIN rules : ss[i] = MembersOf(rules[i], ns)
  <2>1. ss \in [1..Len(rules) -> VV]
    BY <1>1, <1>3
  <2> QED
    BY <1>1, <2>1
<1>5. ss \in Seq(Seq(V))
  BY <1>4 DEF VV
<1> HIDE DEF ss
<1>6. flat \in Seq(V)
  BY <1>5, FlattenType
<1>7. \A x : x \in Range(flat) => \E i \in DOMAIN ss : x \in Range(ss[i])
  BY <1>5, FlattenRange
<1> HIDE DEF flat, P
<1>8. Filtered(flat, P) \in Seq(V)
  BY <1>6, FilteredType
<1>9. ASSUME NEW x \in Range(Filtered(flat, P))
      PROVE  x \in Range(NamesOf(ns)) \/ \E i \in DOMAIN rules : rules[i].by = "name" /\ x = rules[i].value
  <2>1. PICK k \in DOMAIN flat : x = flat[k]
    BY <1>6, FilteredRange
  <2>2. x \in Range(flat)
    BY <2>1 DEF Range
  <2>3. PICK i \in DOMAIN ss : x \in Range(ss[i])
    BY <1>7, <2>2
  <2>4. i \in DOMAIN rules /\ rules[i] \in Member /\ x \in Range(MembersOf(rules[i], ns))
    BY <1>1, <1>4, <2>3
  <2> QED
    BY <2>4, MembersAre
<1> QED
  BY <1>2, <1>8, <1>9 DEF V

-----------------------------------------------------------------------------
\* The names that the members of groups may have.
IsNaming(groups, own) ==
    \A i \in DOMAIN groups : \A k \in DOMAIN groups[i].proxies :
       groups[i].proxies[k].by = "name" => groups[i].proxies[k].value \in own

NamesOfGroups(groups) == {groups[i].name : i \in DOMAIN groups}

\* The groups of a document name nodes and what the settings name.
LEMMA ProxyGroupsAre ==
    ASSUME NEW S, NEW ns \in Seq(S), NEW groups \in Seq(ProxyGroupConfig), NEW own, IsNaming(groups, own),
           NEW g, g = ProxyGroups(groups, ns)
    PROVE  /\ \E W : g \in Seq(W)
           /\ \A i \in DOMAIN g : \A x \in Range(g[i].members) : x \in Range(NamesOf(ns)) \/ x \in own
           /\ NamesOfGroups(g) = IF groups = <<>> THEN {Name("Proxy")} ELSE NamesOfGroups(groups)
<1>1. CASE groups = <<>>
  <2> DEFINE d == [name |-> Name("Proxy"), members |-> NamesOf(ns)]
  <2>1. g = <<d>>
    BY <1>1, Zenon DEF ProxyGroups, DefaultGroup
  <2>2. d.name = Name("Proxy") /\ d.members = NamesOf(ns)
    OBVIOUS
  <2> HIDE DEF d
  <2>3. g \in Seq({d}) /\ DOMAIN g = {1} /\ g[1] = d
    BY <2>1
  <2> QED
    BY <1>1, <2>2, <2>3 DEF NamesOfGroups
<1>2. CASE groups # <<>>
  <2> DEFINE G(i) == ExpandedGroup(groups[i], ns)
  <2>1. Len(groups) \in Nat /\ DOMAIN groups = 1..Len(groups)
    OBVIOUS
  <2>2. g = [i \in 1..Len(groups) |-> G(i)]
    BY <1>2, <2>1, Zenon DEF ProxyGroups
  <2>3. ASSUME NEW i \in DOMAIN groups
        PROVE  /\ G(i).name = groups[i].name
               /\ \A x \in Range(G(i).members) : x \in Range(NamesOf(ns)) \/ x \in own
    <3> DEFINE p == groups[i].proxies
               members == ExpandGroupRules(p, ns)
    <3>1. p \in Seq(Member)
      <4>1. groups[i] \in ProxyGroupConfig
        OBVIOUS
      <4> QED
        BY <4>1, Zenon DEF ProxyGroupConfig
    <3>2. \A k \in DOMAIN p : p[k].by = "name" => p[k].value \in own
      BY DEF IsNaming
    <3>3. \A x \in Range(members) : x \in Range(NamesOf(ns)) \/ x \in own
      <4> HIDE DEF p
      <4>1. \A x \in Range(members) :
               x \in Range(NamesOf(ns)) \/ \E k \in DOMAIN p : p[k].by = "name" /\ x = p[k].value
        BY <3>1, ExpandedAre
      <4> QED
        BY <3>2, <4>1, Zenon
    <3> HIDE DEF members
    <3>4. G(i).name = groups[i].name /\ (G(i).members = members \/ G(i).members = NamesOf(ns))
      BY DEF ExpandedGroup, members
    <3> QED
      BY <3>3, <3>4
  <2> HIDE DEF G
  <2>4. g \in Seq({G(i) : i \in DOMAIN groups})
    BY <2>1, <2>2
  <2>5. DOMAIN g = DOMAIN groups /\ \A i \in DOMAIN groups : g[i] = G(i)
    BY <2>1, <2>2
  <2> QED
    BY <1>2, <2>3, <2>4, <2>5 DEF NamesOfGroups
<1> QED
  BY <1>1, <1>2

\* They have the names of the settings, or there is the one default group.
LEMMA ProxyGroupNames ==
    ASSUME NEW S, NEW ns \in Seq(S), NEW groups \in Seq(ProxyGroupConfig), NEW g, g = ProxyGroups(groups, ns)
    PROVE  NamesOfGroups(g) = IF groups = <<>> THEN {Name("Proxy")} ELSE NamesOfGroups(groups)
<1> DEFINE all == {m.value : m \in [by : {"name"}, value : Seq(STRING)]}
<1>1. IsNaming(groups, all)
  <2> SUFFICES ASSUME NEW i \in DOMAIN groups, NEW k \in DOMAIN groups[i].proxies, groups[i].proxies[k].by = "name"
               PROVE  groups[i].proxies[k].value \in all
    BY DEF IsNaming
  <2>1. groups[i].proxies \in Seq(Member)
    <3>1. groups[i] \in ProxyGroupConfig
      OBVIOUS
    <3> QED
      BY <3>1, Zenon DEF ProxyGroupConfig
  <2>2. groups[i].proxies[k] \in Member
    BY <2>1
  <2>3. groups[i].proxies[k] \in [by : {"name"}, value : Seq(STRING)]
    BY <2>2 DEF Member
  <2> QED
    BY <2>3, Zenon
<1> HIDE DEF all
<1> QED
  BY <1>1, ProxyGroupsAre

-----------------------------------------------------------------------------
\* Documents whose names resolve: Clash.

\* Each proxy of the document has a name of its own, and what is named is there.
Resolves(d) ==
    /\ IsInjective(d.proxies)
    /\ \A i \in DOMAIN d.groups : Range(d.groups[i].members) \subseteq NamesIn(d)
    /\ \A i \in DOMAIN d.rules : d.rules[i].to \in NamesIn(d)

\* So it is if groups and rules name nodes that are there and `own` names.
References(d, nodeNames, own) ==
    /\ IsInjective(d.proxies) /\ nodeNames \subseteq Range(d.proxies)
    /\ own \subseteq NamesIn(d)
    /\ \A i \in DOMAIN d.groups : \A x \in Range(d.groups[i].members) : x \in nodeNames \/ x \in own
    /\ \A i \in DOMAIN d.rules : d.rules[i].to \in own

\* Names of nodes and own names are defined.
LEMMA ReferencesAre == ASSUME NEW d, NEW nodeNames, NEW own, References(d, nodeNames, own) PROVE Resolves(d)
<1>1. Range(d.proxies) \subseteq NamesIn(d)
  BY DEF NamesIn
<1> QED
  BY <1>1 DEF References, Resolves

\* A list of proxies names nothing.
LEMMA OnlyProxiesResolve ==
    ASSUME NEW S, NEW ns \in Seq(S), Distinct(ns), NEW d, d = OnlyProxies(NamesOf(ns)) PROVE Resolves(d)
<1>1. d.proxies = NamesOf(ns) /\ d.groups = <<>> /\ d.rules = <<>>
  BY DEF OnlyProxies
<1>2. DOMAIN d.groups = {} /\ DOMAIN d.rules = {}
  BY <1>1
<1>3. IsInjective(NamesOf(ns))
  BY NamesOfAre
<1> QED
  BY <1>1, <1>2, <1>3 DEF Resolves

\* What the settings say of a conversion.
OwnAndBuiltIn == OwnGroups \cup BuiltIn

\* Groups and rules of coherent settings name groups, nodes and the built-in names.
LEMMA CoherentIs ==
    ASSUME IsJob(job), Coherent
    PROVE  /\ IsNaming(job.settings.groups, OwnAndBuiltIn)
           /\ \A i \in DOMAIN job.settings.rulesets : job.settings.rulesets[i].group \in OwnAndBuiltIn
           /\ job.settings.rulesets = <<>> => Name("Proxy") \in OwnAndBuiltIn
           /\ OwnGroups = IF job.settings.groups = <<>> THEN {Name("Proxy")}
                          ELSE NamesOfGroups(job.settings.groups)
<1>1. IsNaming(job.settings.groups, OwnAndBuiltIn)
  BY Zenon DEF Coherent, Settings, IsNaming, OwnAndBuiltIn
<1>2. /\ \A i \in DOMAIN job.settings.rulesets : job.settings.rulesets[i].group \in OwnAndBuiltIn
      /\ job.settings.rulesets = <<>> => Name("Proxy") \in OwnGroups
  BY Zenon DEF Coherent, Settings, OwnAndBuiltIn
<1>3. OwnGroups = IF job.settings.groups = <<>> THEN {Name("Proxy")}
                  ELSE NamesOfGroups(job.settings.groups)
  BY Zenon DEF OwnGroups, Settings, NamesOfGroups
<1> QED
  BY <1>1, <1>2, <1>3 DEF OwnAndBuiltIn

-----------------------------------------------------------------------------
\* Clash.
LEMMA ClashResolves ==
    ASSUME IsJob(job), Coherent, NEW S, NEW ns \in Seq(S), Distinct(ns), NEW d, d = ExportClash(job, ns)
    PROVE  Resolves(d)
<1> DEFINE kept == ForClash(ns, job.target, job.options.filterDeprecated)
           names == NamesOf(kept)
           groups == ProxyGroups(job.settings.groups, kept)
           rules == ClashRules(job)
           own == OwnAndBuiltIn
<1>1. kept \in Seq(S) /\ Distinct(kept)
  <2>1. \E P : kept = Filtered(ns, P)
    BY DEF ForClash
  <2> HIDE DEF kept
  <2> QED
    BY <2>1, FilteredNodes
<1>2. \/ d = OnlyProxies(names)
      \/ d.proxies = names /\ d.groups = groups /\ d.rules = rules
  <2> DEFINE D == [proxies |-> names, groups |-> groups, rules |-> rules, providers |-> RuleProviders(job)]
  <2>1. ClashDocument(job, ns) = D
    BY Zenon DEF ClashDocument
  <2>2. D.proxies = names /\ D.groups = groups /\ D.rules = rules
    OBVIOUS
  <2>3. \A v : [D EXCEPT !.providers = v].proxies = names /\ [D EXCEPT !.providers = v].groups = groups
               /\ [D EXCEPT !.providers = v].rules = rules
    OBVIOUS
  <2> HIDE DEF D, names, groups, rules, kept
  <2>4. d = OnlyProxies(D.proxies) \/ d = D \/ \E v : d = [D EXCEPT !.providers = v]
    BY <2>1 DEF ExportClash, MergeClashBase
  <2> QED
    BY <2>2, <2>3, <2>4
<1>3. CASE d = OnlyProxies(names)
  <2> HIDE DEF kept
  <2> QED
    BY <1>1, <1>3, OnlyProxiesResolve
<1>4. CASE d.proxies = names /\ d.groups = groups /\ d.rules = rules
  <2> HIDE DEF kept
  <2>1. job.settings.groups \in Seq(ProxyGroupConfig) /\ job.settings.rulesets \in Seq(RulesetConfig)
    BY DEF IsJob
  <2>2. /\ \A i \in DOMAIN groups : \A x \in Range(groups[i].members) : x \in Range(names) \/ x \in own
        /\ NamesOfGroups(groups) = OwnGroups
    <3>1. IsNaming(job.settings.groups, own)
      BY CoherentIs
    <3>2. OwnGroups = IF job.settings.groups = <<>> THEN {Name("Proxy")}
                      ELSE NamesOfGroups(job.settings.groups)
      BY CoherentIs
    <3>3. groups = ProxyGroups(job.settings.groups, kept)
      OBVIOUS
    <3> HIDE DEF own, groups
    <3>4. \A i \in DOMAIN groups : \A x \in Range(groups[i].members) : x \in Range(names) \/ x \in own
      BY <1>1, <2>1, <3>1, <3>3, ProxyGroupsAre
    <3>5. NamesOfGroups(groups) = IF job.settings.groups = <<>> THEN {Name("Proxy")}
                                  ELSE NamesOfGroups(job.settings.groups)
      BY <1>1, <2>1, <3>3, ProxyGroupNames
    <3> QED
      BY <3>2, <3>4, <3>5, Zenon
  <2>3. IsInjective(names)
    BY <1>1, NamesOfAre
  <2>4. \A i \in DOMAIN rules : rules[i].to \in own
    <3> DEFINE rulesets == job.settings.rulesets
    <3>1. CASE rulesets = <<>>
      <4>1. rules = <<[match |-> "all", to |-> Name("Proxy")]>>
        BY <3>1, Zenon DEF ClashRules
      <4>2. Name("Proxy") \in own
        BY <3>1, CoherentIs
      <4> QED
        BY <4>1, <4>2
    <3>2. CASE rulesets # <<>>
      <4>1. rules = [i \in DOMAIN rulesets |-> ClashRule(rulesets[i], job)]
        BY <3>2, Zenon DEF ClashRules
      <4>2. \A i \in DOMAIN rulesets : ClashRule(rulesets[i], job).to = rulesets[i].group
        <5> SUFFICES ASSUME NEW i \in DOMAIN rulesets PROVE ClashRule(rulesets[i], job).to = rulesets[i].group
          OBVIOUS
        <5> DEFINE r == rulesets[i]
        <5>1. r \in RulesetConfig
          BY <2>1
        <5>2. r.how \in {"final", "geoip", "domain", "other", "list"}
          BY <5>1 DEF RulesetConfig
        <5> HIDE DEF r
        <5>3. ClashRule(r, job).to = r.group
          BY <5>2 DEF ClashRule
        <5> QED
          BY <5>3 DEF r
      <4>3. \A i \in DOMAIN rulesets : rulesets[i].group \in own
        BY CoherentIs
      <4> HIDE DEF rules, own, rulesets
      <4> QED
        BY <4>1, <4>2, <4>3
    <3> QED
      BY <3>1, <3>2
  <2> HIDE DEF names, groups, rules
  <2>5. own \subseteq NamesIn(d)
    BY <1>4, <2>2, Zenon DEF NamesIn, OwnAndBuiltIn, NamesOfGroups
  <2> HIDE DEF own
  <2>6. References(d, Range(names), own)
    BY <1>4, <2>2, <2>3, <2>4, <2>5, Zenon DEF References
  <2> QED
    BY <2>6, ReferencesAre
<1> QED
  BY <1>2, <1>3, <1>4

-----------------------------------------------------------------------------

-----------------------------------------------------------------------------
\* Documents whose names resolve: sing-box.

\* The rules that sing-box can express keep their groups.
LEMMA SingboxRulesAre ==
    ASSUME IsJob(job), NEW own, Name("GLOBAL") \in own, Name("DIRECT") \in own, Name("dns-out") \in own,
           \A i \in DOMAIN job.settings.rulesets : job.settings.rulesets[i].group \in own
    PROVE  \A i \in DOMAIN SingboxRules(job.settings) : SingboxRules(job.settings)[i].to \in own
<1> DEFINE rulesets == job.settings.rulesets
           Expressed(i) == rulesets[i].how \in {"final", "geoip", "domain"}
           kept == Filtered(rulesets, {i \in DOMAIN rulesets : Expressed(i)})
           R == [match : {"inline", "all"}, to : own]
           fixed == <<[match |-> "inline", to |-> Name("GLOBAL")], [match |-> "inline", to |-> Name("DIRECT")],
                      [match |-> "inline", to |-> Name("dns-out")]>>
           rest == [i \in DOMAIN kept |-> [match |-> IF kept[i].how = "final" THEN "all" ELSE "inline",
                                           to |-> kept[i].group]]
<1>1. SingboxRules(job.settings) = fixed \o rest
  BY Zenon DEF SingboxRules
<1>2. fixed \in Seq(R)
  <2>1. [match |-> "inline", to |-> Name("GLOBAL")] \in R /\ [match |-> "inline", to |-> Name("DIRECT")] \in R
        /\ [match |-> "inline", to |-> Name("dns-out")] \in R
    OBVIOUS
  <2> HIDE DEF R
  <2> QED
    BY <2>1
<1>3. rulesets \in Seq(RulesetConfig)
  BY DEF IsJob
<1>4. \A i \in DOMAIN rulesets : rulesets[i].group \in own
  OBVIOUS
<1> HIDE DEF rulesets
<1>5. kept \in Seq(RulesetConfig)
  BY <1>3, FilteredType
<1>6. \A i \in DOMAIN kept : kept[i].group \in own
  <2> SUFFICES ASSUME NEW i \in DOMAIN kept PROVE kept[i].group \in own
    OBVIOUS
  <2> DEFINE x == kept[i]
  <2>1. x \in Range(kept)
    BY DEF Range
  <2> HIDE DEF x
  <2>2. PICK k \in DOMAIN rulesets : x = rulesets[k]
    BY <1>3, <2>1, FilteredRange
  <2>3. x.group \in own
    BY <1>4, <2>2
  <2> QED
    BY <2>3 DEF x
<1> HIDE DEF kept
<1>7. rest \in Seq(R)
  <2>1. Len(kept) \in Nat /\ DOMAIN kept = 1..Len(kept)
    BY <1>5
  <2>2. \A i \in DOMAIN kept : [match |-> IF kept[i].how = "final" THEN "all" ELSE "inline", to |-> kept[i].group] \in R
    BY <1>6
  <2> HIDE DEF R
  <2>3. rest \in [1..Len(kept) -> R]
    BY <2>1, <2>2
  <2> HIDE DEF rest
  <2> QED
    BY <2>1, <2>3
<1>8. \A r \in R : r.to \in own
  OBVIOUS
<1> HIDE DEF fixed, rest, R
<1>9. fixed \o rest \in Seq(R)
  BY <1>2, <1>7, ConcatAt
<1>10. \A i \in DOMAIN (fixed \o rest) : (fixed \o rest)[i] \in R
  BY <1>9
<1> QED
  BY <1>1, <1>8, <1>10

\* Behind the program's own proxy the names are those of the nodes.
LEMMA WithDirect ==
    ASSUME NEW S, NEW ns \in Seq(S), NEW x
    PROVE  x \in Range(<<Name("DIRECT")>> \o NamesOf(ns)) => x = Name("DIRECT") \/ x \in Range(NamesOf(ns))
<1> DEFINE V == Remarks(S) \cup {Name("DIRECT")}
           d == <<Name("DIRECT")>>
           names == NamesOf(ns)
<1>1. d \in Seq(V)
  OBVIOUS
<1>2. \A y \in Range(d) : y = Name("DIRECT")
  BY DEF Range
<1>3. names \in Seq(Remarks(S))
  BY NamesOfAre
<1>4. names \in Seq(V)
  BY <1>3
<1> HIDE DEF V, d, names
<1>5. Range(d \o names) = Range(d) \cup Range(names)
  BY <1>1, <1>4, ConcatRange
<1> QED
  BY <1>2, <1>5 DEF d, names

\* What is merged into the sing-box base is all defined.
LEMMA SingboxResolves ==
    ASSUME IsJob(job), Coherent, NEW S, NEW ns \in Seq(S), Distinct(ns), NEW d, d = ExportSingbox(job, ns),
           \A i \in DOMAIN ns : ns[i].remark \notin Range(OwnOutbounds)
    PROVE  Resolves(d)
<1> DEFINE names == NamesOf(ns)
           g == ProxyGroups(job.settings.groups, ns)
           global == [name |-> Name("GLOBAL"), members |-> <<Name("DIRECT")>> \o names]
           groups == g \o <<global>>
           rules == SingboxRules(job.settings)
           own == OwnAndBuiltIn \cup {Name("GLOBAL"), Name("dns-out")}
           V == Remarks(S) \cup Range(OwnOutbounds)
<1>1. CASE d = OnlyProxies(names)
  BY <1>1, OnlyProxiesResolve
<1>2. CASE d = [proxies |-> OwnOutbounds \o names, groups |-> groups, rules |-> rules, providers |-> <<>>]
  <2>1. d.proxies = OwnOutbounds \o names /\ d.groups = groups /\ d.rules = rules
    BY <1>2
  <2>2. OwnOutbounds \in Seq(V) /\ IsInjective(OwnOutbounds) /\ Name("dns-out") \in Range(OwnOutbounds)
        /\ Len(OwnOutbounds) = 3
    <3>1. OwnOutbounds \in Seq(Range(OwnOutbounds)) /\ DOMAIN OwnOutbounds = 1..3 /\ Len(OwnOutbounds) = 3
      BY DEF OwnOutbounds, Range
    <3>2. OwnOutbounds[1] = Name("DIRECT") /\ OwnOutbounds[2] = Name("REJECT") /\ OwnOutbounds[3] = Name("dns-out")
      BY DEF OwnOutbounds
    <3>3. Name("DIRECT") # Name("REJECT") /\ Name("DIRECT") # Name("dns-out") /\ Name("REJECT") # Name("dns-out")
      BY DEF Name
    <3>4. IsInjective(OwnOutbounds)
      BY <3>1, <3>2, <3>3 DEF IsInjective
    <3>5. Name("dns-out") \in Range(OwnOutbounds)
      BY <3>1, <3>2 DEF Range
    <3> QED
      BY <3>1, <3>4, <3>5
  <2>3. names \in Seq(V) /\ IsInjective(names) /\ \A x \in Range(names) : x \notin Range(OwnOutbounds)
    <3>1. names \in Seq(Remarks(S)) /\ IsInjective(names)
      BY NamesOfAre
    <3>2. \A x \in Range(names) : \E i \in DOMAIN ns : x = ns[i].remark
      BY NamesRange
    <3> HIDE DEF names
    <3> QED
      BY <3>1, <3>2
  <2> HIDE DEF V
  <2>4. IsInjective(OwnOutbounds \o names) /\ Range(OwnOutbounds \o names) = Range(OwnOutbounds) \cup Range(names)
    <3> HIDE DEF names
    <3> QED
      BY <2>2, <2>3, InjectiveConcat, ConcatRange
  <2>5. job.settings.groups \in Seq(ProxyGroupConfig)
    BY DEF IsJob
  <2>6. /\ IsNaming(job.settings.groups, OwnAndBuiltIn)
        /\ OwnGroups = IF job.settings.groups = <<>> THEN {Name("Proxy")}
                       ELSE NamesOfGroups(job.settings.groups)
    BY CoherentIs
  <2>7. g = ProxyGroups(job.settings.groups, ns)
    OBVIOUS
  <2> HIDE DEF g
  <2>8. PICK W : g \in Seq(W)
    BY <2>5, <2>6, <2>7, ProxyGroupsAre
  <2>9. \A i \in DOMAIN g : \A x \in Range(g[i].members) : x \in Range(names) \/ x \in OwnAndBuiltIn
    BY <2>5, <2>6, <2>7, ProxyGroupsAre
  <2>10. NamesOfGroups(g) = OwnGroups
    <3>1. NamesOfGroups(g) = IF job.settings.groups = <<>> THEN {Name("Proxy")} ELSE NamesOfGroups(job.settings.groups)
      BY <2>5, <2>7, ProxyGroupNames
    <3> QED
      BY <2>6, <3>1, Zenon
  <2>11. global.name = Name("GLOBAL") /\ \A x \in Range(global.members) : x = Name("DIRECT") \/ x \in Range(names)
    BY WithDirect
  <2> HIDE DEF global, names
  <2>12. /\ \A i \in DOMAIN groups : (i \in DOMAIN g /\ groups[i] = g[i]) \/ groups[i] = global
         /\ NamesOfGroups(groups) = NamesOfGroups(g) \cup {Name("GLOBAL")}
    <3> DEFINE n == Len(g)
    <3>1. n \in Nat /\ DOMAIN g = 1..n /\ DOMAIN groups = 1..(n + 1) /\ groups[n + 1] = global
          /\ \A i \in 1..n : groups[i] = g[i]
      BY <2>8
    <3> HIDE DEF n, groups
    <3>2. \A i \in 1..(n + 1) : i \in 1..n \/ i = n + 1
      BY <3>1
    <3>3. n + 1 \in 1..(n + 1) /\ 1..n \subseteq 1..(n + 1)
      BY <3>1
    <3> QED
      BY <2>11, <3>1, <3>2, <3>3 DEF NamesOfGroups
  <2> HIDE DEF groups
  <2>13. own \subseteq NamesIn(d)
    <3>1. Range(d.proxies) \subseteq NamesIn(d) /\ NamesOfGroups(d.groups) \subseteq NamesIn(d) /\ BuiltIn \subseteq NamesIn(d)
      BY Zenon DEF NamesIn, NamesOfGroups
    <3> QED
      BY <2>1, <2>2, <2>4, <2>10, <2>12, <3>1 DEF OwnAndBuiltIn
  <2>14. \A i \in DOMAIN rules : rules[i].to \in own
    <3>1. Name("DIRECT") \in own /\ Name("GLOBAL") \in own /\ Name("dns-out") \in own
      BY DEF OwnAndBuiltIn, BuiltIn
    <3>2. \A i \in DOMAIN job.settings.rulesets : job.settings.rulesets[i].group \in own
      BY CoherentIs
    <3> HIDE DEF own
    <3> QED
      BY <3>1, <3>2, SingboxRulesAre
  <2>15. \A i \in DOMAIN groups : \A x \in Range(groups[i].members) : x \in Range(names) \/ x \in own
    BY <2>9, <2>11, <2>12 DEF OwnAndBuiltIn, BuiltIn
  <2> HIDE DEF own, rules
  <2>16. References(d, Range(names), own)
    BY <2>1, <2>4, <2>13, <2>14, <2>15 DEF References
  <2> QED
    BY <2>16, ReferencesAre
<1>3. d = OnlyProxies(names) \/ d = [proxies |-> OwnOutbounds \o names, groups |-> groups, rules |-> rules, providers |-> <<>>]
  BY Zenon DEF ExportSingbox, SingboxGroups
<1> QED
  BY <1>1, <1>2, <1>3

-----------------------------------------------------------------------------
\* Text documents: lines of one kind.

\* The lines of one kind among others.
OfKind(lines, kind) == Filtered(lines, {i \in DOMAIN lines : lines[i].is = kind})

\* The lines of a kind in two parts, one behind the other.
LEMMA KindConcat ==
    ASSUME NEW S, NEW a \in Seq(S), NEW b \in Seq(S), NEW kind, NEW e, IsJoin(e, a, b)
    PROVE  IsJoin(OfKind(e, kind), OfKind(a, kind), OfKind(b, kind))
<1> DEFINE c == a \o b
           P == {i \in DOMAIN c : c[i].is = kind}
           A == {i \in DOMAIN a : a[i].is = kind}
           B == {i \in DOMAIN b : b[i].is = kind}
<1>1. /\ DOMAIN c = 1..(Len(a) + Len(b)) /\ DOMAIN a = 1..Len(a) /\ DOMAIN b = 1..Len(b)
      /\ Len(a) \in Nat /\ Len(b) \in Nat
      /\ \A i \in 1..Len(a) : c[i] = a[i]
      /\ \A i \in 1..Len(b) : c[Len(a) + i] = b[i]
  BY ConcatAt
<1>2. Filtered(c, P) = Filtered(a, P) \o Filtered(b, Beyond(P, Len(a)))
  BY FilteredConcat
<1> HIDE DEF c
<1>3. Alike(a, P, A)
  <2> SUFFICES ASSUME NEW i \in 1..Len(a) PROVE i \in P <=> i \in A
    BY <1>1 DEF Alike
  <2>1. i \in DOMAIN c /\ i \in DOMAIN a /\ c[i] = a[i]
    BY <1>1
  <2> QED
    BY <2>1
<1>4. Alike(b, Beyond(P, Len(a)), B)
  <2> SUFFICES ASSUME NEW i \in 1..Len(b) PROVE i \in Beyond(P, Len(a)) <=> i \in B
    BY <1>1 DEF Alike
  <2>1. Len(a) + i \in DOMAIN c /\ i \in DOMAIN b /\ c[Len(a) + i] = b[i] /\ i \in Nat
    BY <1>1
  <2> QED
    BY <2>1, Zenon DEF Beyond
<1> HIDE DEF P, A, B
<1>5. Filtered(a, P) = Filtered(a, A) /\ Filtered(b, Beyond(P, Len(a))) = Filtered(b, B)
  BY <1>3, <1>4, FilteredSame
<1>6. Filtered(c, P) = Filtered(a, A) \o Filtered(b, B)
  BY <1>2, <1>5, Zenon
<1> QED
  BY <1>6, Zenon DEF IsJoin, OfKind, c, P, A, B

\* Of lines of one kind, all or none.
LEMMA KindAll ==
    ASSUME NEW S, NEW lines, NEW own, IsKind(S, lines, own), NEW kind
    PROVE  OfKind(lines, kind) = IF kind = own THEN lines ELSE <<>>
<1> DEFINE P == {i \in DOMAIN lines : lines[i].is = kind}
<1>1. lines \in Seq(S) /\ \A i \in DOMAIN lines : lines[i].is = own
  BY DEF IsKind
<1>2. IF kind = own THEN \A i \in DOMAIN lines : i \in P ELSE \A i \in DOMAIN lines : i \notin P
  BY <1>1
<1> HIDE DEF P
<1>3. Filtered(lines, P) = IF kind = own THEN lines ELSE <<>>
  BY <1>1, <1>2, FilteredAll, FilteredNone
<1> QED
  BY <1>3 DEF OfKind, P

\* A base has no lines of the program's own.
LEMMA BaseKinds ==
    ASSUME NEW base \in Seq(BaseLine), NEW u, NEW kind \in LineKinds
    PROVE  Under(base, u) \in Seq(BaseLine) /\ OfKind(Under(base, u), kind) = <<>>
<1> DEFINE f == Under(base, u)
<1>1. PICK P : f = Filtered(base, P) /\ \A i \in P : ~IsHeader(base[i]) /\ NotBlank(base[i])
  <2> DEFINE Opened(i) == {j \in Headers(base) : j <= i}
             Q == {i \in DOMAIN base :
                     /\ ~IsHeader(base[i]) /\ NotBlank(base[i])
                     /\ Opened(i) # {} /\ base[Max(Opened(i))] = Heading(u)}
  <2>1. f = Filtered(base, Q)
    BY Zenon DEF Under
  <2>2. \A i \in Q : ~IsHeader(base[i]) /\ NotBlank(base[i])
    OBVIOUS
  <2> HIDE DEF f, Q
  <2> QED
    BY <2>1, <2>2
<1> HIDE DEF f
<1>2. f \in Seq(BaseLine)
  BY <1>1, FilteredType
<1>3. \A x \in BaseLine : ~IsHeader(x) /\ NotBlank(x) => x.is = "text"
  BY DEF BaseLine, IsHeader, NotBlank, Blank
<1>4. ASSUME NEW i \in DOMAIN f PROVE f[i].is = "text"
  <2> DEFINE x == f[i]
  <2>1. x \in Range(f)
    BY DEF Range
  <2> HIDE DEF x
  <2>2. PICK k \in DOMAIN base : k \in P /\ x = base[k]
    <3>1. x \in Range(Filtered(base, P))
      BY <1>1, <2>1
    <3> QED
      BY <3>1, FilteredRange
  <2>3. x \in BaseLine /\ ~IsHeader(x) /\ NotBlank(x)
    BY <1>1, <2>2
  <2>4. x.is = "text"
    BY <1>3, <2>3
  <2> QED
    BY <2>4 DEF x
<1>5. OfKind(f, kind) = <<>>
  <2> DEFINE Q == {i \in DOMAIN f : f[i].is = kind}
  <2>1. \A i \in DOMAIN f : i \notin Q
    BY <1>4 DEF LineKinds
  <2> HIDE DEF Q
  <2>2. Filtered(f, Q) = <<>>
    BY <1>2, <2>1, FilteredNone
  <2> QED
    BY <2>2 DEF OfKind, Q
<1> QED
  BY <1>2, <1>5 DEF f

-----------------------------------------------------------------------------
\* Text documents: the lines of each section.

\* Whatever the base, a reader finds the generated lines of each section, and
\* lines of the base that are none of the program's.
LEMMA ExportedKinds ==
    ASSUME IsJob(job), job.target \in TextTargets, EachOnce, NEW S, NEW ns \in Seq(S),
           NEW t, t = SectionTitles(job.target), NEW lines, lines = ExportText(job, ns),
           NEW u \in Range(t), NEW kind \in LineKinds, NEW L, L = LineSet(S, job, ns, t)
    PROVE  /\ Under(lines, u) \in Seq(L)
           /\ OfKind(Under(lines, u), kind) = OfKind(Under(Generated(job, ns), u), kind)
<1> DEFINE base == job.settings.textBase
           generated == Generated(job, ns)
           v == Under(base, u)
           w == Under(generated, u)
<1>1. base \in Seq(BaseLine) /\ BaseLine \subseteq L
  BY DEF IsJob, LineSet
<1>2. generated \in Seq(L)
  BY GeneratedAre DEF IsGood
<1> HIDE DEF generated
<1>3. w \in Seq(L)
  BY <1>2, FilteredType DEF Under
<1>4. v \in Seq(BaseLine) /\ OfKind(v, kind) = <<>>
  BY <1>1, BaseKinds
<1>5. v \in Seq(L)
  BY <1>1, <1>4
<1>6. CASE job.options.nodelist \/ Headers(base) = {}
  <2>1. lines = generated
    BY <1>6, Zenon DEF ExportText, ApplyTextRuleBase, generated
  <2> QED
    BY <1>3, <2>1 DEF generated
<1>7. CASE ~job.options.nodelist /\ Headers(base) # {}
  <2>1. \A x \in Range(t) : Once(base, x)
    BY DEF EachOnce, Base, Settings
  <2> DEFINE T(x) == Together(base, generated, x, job.settings.overwrite)
  <2>2. \A x : Under(lines, x) = IF x \in Range(t) THEN T(x) ELSE Under(base, x)
    <3> DEFINE A(x) == Under(ExportText(job, ns), x)
               B(x) == IF x \in Range(t) THEN Together(job.settings.textBase, Generated(job, ns), x, job.settings.overwrite)
                       ELSE Under(job.settings.textBase, x)
    <3>1. \A x : A(x) = B(x)
      BY <1>7, <2>1, ExportedText
    <3> QED
      BY <3>1, Zenon DEF generated
  <2>3. T(u) = w \/ T(u) = v \o w
    BY DEF Together
  <2> HIDE DEF T, v, w
  <2>4. Under(lines, u) = w \/ Under(lines, u) = v \o w
    BY <2>2, <2>3
  <2>5. v \o w \in Seq(L)
    BY <1>3, <1>5, ConcatAt
  <2>6. OfKind(v \o w, kind) = OfKind(w, kind)
    <3>1. OfKind(v \o w, kind) = OfKind(v, kind) \o OfKind(w, kind)
      <4>1. IsJoin(v \o w, v, w)
        BY Zenon DEF IsJoin
      <4>2. IsJoin(OfKind(v \o w, kind), OfKind(v, kind), OfKind(w, kind))
        BY <1>3, <1>5, <4>1, KindConcat, Zenon
      <4> QED
        BY <4>2, Zenon DEF IsJoin
    <3>2. OfKind(w, kind) \in Seq(L)
      BY <1>3, FilteredType DEF OfKind
    <3> QED
      BY <1>4, <3>1, <3>2, ConcatEmptySeq
  <2> QED
    BY <1>3, <2>4, <2>5, <2>6 DEF w, generated
<1> QED
  BY <1>6, <1>7

\* All that a reader finds in the three sections, kind by kind.
LEMMA SectionKinds ==
    ASSUME IsJob(job), job.target \in TextTargets, EachOnce, NEW S, NEW ns \in Seq(S),
           doc.lines = ExportText(job, ns)
    PROVE  /\ OfKind(InSections, "proxy") = NodeLines(job, ns)
           /\ OfKind(InSections, "group") = GroupLines(job, ns)
           /\ OfKind(InSections, "rule") = RuleLines(job)
<1> DEFINE t == SectionTitles(job.target)
           L == LineSet(S, job, ns, t)
           U(k) == Under(doc.lines, t[k])
           a == U(1)
           b == U(2)
           c == U(3)
           X1 == First(job, ns)
           X2 == Second(job, ns)
           X3 == RuleLines(job)
<1>1. InSections = FlattenSeq(<<a, b, c>>)
  <2>1. [k \in 1..3 |-> U(k)] = <<a, b, c>>
    <3> HIDE DEF U
    <3> QED
      OBVIOUS
  <2> QED
    BY <2>1, Zenon DEF InSections
<1>2. Range(t) = {t[1], t[2], t[3]}
  BY TitlesAre
<1>3. ASSUME NEW u \in Range(t), NEW kind \in LineKinds
      PROVE  /\ Under(doc.lines, u) \in Seq(L)
             /\ OfKind(Under(doc.lines, u), kind) = OfKind(Under(Generated(job, ns), u), kind)
  BY ExportedKinds
<1>4. FindsAll(Generated(job, ns), t, X1, X2, X3)
  BY GeneratedAre
<1> HIDE DEF t, L
<1>5. a \in Seq(L) /\ b \in Seq(L) /\ c \in Seq(L)
  BY <1>2, <1>3 DEF LineKinds
<1>6. \A kind \in LineKinds : /\ OfKind(a, kind) = OfKind(X1, kind)
                              /\ OfKind(b, kind) = OfKind(X2, kind)
                              /\ OfKind(c, kind) = OfKind(X3, kind)
  BY <1>2, <1>3, <1>4, Zenon DEF FindsAll
<1> HIDE DEF U, a, b, c
<1>7. \A kind \in LineKinds :
         OfKind(InSections, kind) = (OfKind(X1, kind) \o OfKind(X2, kind)) \o OfKind(X3, kind)
  <2> SUFFICES ASSUME NEW kind \in LineKinds
               PROVE  OfKind(InSections, kind) = (OfKind(X1, kind) \o OfKind(X2, kind)) \o OfKind(X3, kind)
    OBVIOUS
  <2>1. InSections = (a \o b) \o c
    <3>1. IsThree(FlattenSeq(<<a, b, c>>), a, b, c)
      BY <1>5, FlattenThree
    <3> QED
      BY <1>1, <3>1, Zenon DEF IsThree
  <2>2. a \o b \in Seq(L)
    BY <1>5, ConcatAt
  <2> DEFINE ab == a \o b
  <2>3. ab \in Seq(L) /\ IsJoin(ab, a, b) /\ IsJoin(InSections, ab, c)
    BY <2>1, <2>2, Zenon DEF IsJoin
  <2> HIDE DEF ab
  <2>4. IsJoin(OfKind(ab, kind), OfKind(a, kind), OfKind(b, kind))
    BY <1>5, <2>3, KindConcat, Zenon
  <2>5. IsJoin(OfKind(InSections, kind), OfKind(ab, kind), OfKind(c, kind))
    BY <1>5, <2>3, KindConcat, Zenon
  <2> QED
    BY <1>6, <2>4, <2>5, Zenon DEF IsJoin
<1> DEFINE N == NodeLines(job, ns)
           G == GroupLines(job, ns)
           R == RuleLines(job)
<1>8. \A kind : /\ OfKind(N, kind) = IF kind = "proxy" THEN N ELSE <<>>
                /\ OfKind(G, kind) = IF kind = "group" THEN G ELSE <<>>
                /\ OfKind(R, kind) = IF kind = "rule" THEN R ELSE <<>>
  <2>1. IsKind(NodeSet(S), N, "proxy") /\ IsKind(GroupSet(job, ns), G, "group") /\ IsKind(RuleSet(job), R, "rule")
    BY NodeLinesAre, GroupLinesAre, RuleLinesAre
  <2> HIDE DEF N, G, R
  <2> QED
    BY <2>1, KindAll
<1>9. (X1 = G /\ X2 = N) \/ (X1 = N /\ X2 = G)
  BY DEF First, Second
<1>10. \A w \in {N, G, R} : <<>> \o w = w /\ w \o <<>> = w
  <2>1. N \in Seq(NodeSet(S)) /\ G \in Seq(GroupSet(job, ns)) /\ R \in Seq(RuleSet(job))
    BY NodeLinesAre, GroupLinesAre, RuleLinesAre DEF IsKind
  <2> HIDE DEF N, G, R
  <2>2. \A W : \A w \in Seq(W) : <<>> \o w = w /\ w \o <<>> = w
    BY ConcatEmptySeq
  <2> QED
    BY <2>1, <2>2
<1>11. <<>> \o <<>> = <<>>
  BY ConcatEmptySeq, EmptySeq
<1>12. X3 = R
  OBVIOUS
<1> HIDE DEF X1, X2, X3, N, G, R
<1>13. OfKind(InSections, "proxy") = N
  <2>1. OfKind(InSections, "proxy") = (OfKind(X1, "proxy") \o OfKind(X2, "proxy")) \o OfKind(X3, "proxy")
    BY <1>7 DEF LineKinds
  <2>2. OfKind(N, "proxy") = N /\ OfKind(G, "proxy") = <<>> /\ OfKind(R, "proxy") = <<>>
    BY <1>8
  <2> QED
    BY <1>9, <1>10, <1>12, <2>1, <2>2
<1>14. OfKind(InSections, "group") = G
  <2>1. OfKind(InSections, "group") = (OfKind(X1, "group") \o OfKind(X2, "group")) \o OfKind(X3, "group")
    BY <1>7 DEF LineKinds
  <2>2. OfKind(N, "group") = <<>> /\ OfKind(G, "group") = G /\ OfKind(R, "group") = <<>>
    BY <1>8
  <2> QED
    BY <1>9, <1>10, <1>12, <2>1, <2>2
<1>15. OfKind(InSections, "rule") = R
  <2>1. OfKind(InSections, "rule") = (OfKind(X1, "rule") \o OfKind(X2, "rule")) \o OfKind(X3, "rule")
    BY <1>7 DEF LineKinds
  <2>2. OfKind(N, "rule") = <<>> /\ OfKind(G, "rule") = <<>> /\ OfKind(R, "rule") = R
    BY <1>8
  <2> QED
    BY <1>9, <1>10, <1>11, <1>12, <2>1, <2>2
<1> QED
  BY <1>13, <1>14, <1>15 DEF N, G, R

-----------------------------------------------------------------------------
\* Documents whose names resolve: text formats.

\* The names in the lines of the nodes: those of the nodes, after the program's own.
LEMMA LineNames ==
    ASSUME NEW S, NEW ns \in Seq(S), Distinct(ns), job.target = "surge" => job.version = 4,
           job.target \in {"surge", "surfboard"} => \A i \in DOMAIN ns : ns[i].remark # Name("DIRECT"),
           NEW f, f = [i \in DOMAIN NodeLines(job, ns) |-> NodeLines(job, ns)[i].name]
    PROVE  IsInjective(f) /\ Range(NamesOf(ns)) \subseteq Range(f)
<1> DEFINE D == DirectLine(job)
           P == ProxyLines(ns)
           N == NodeLines(job, ns)
           V == NodeSet(S)
<1>1. P \in Seq(V) /\ Len(P) = Len(ns) /\ \A i \in DOMAIN ns : P[i] = ProxyLine(ns[i].remark)
  BY ProxyLinesAre
<1>2. D \in Seq(V) /\ (D = <<>> \/ D = <<ProxyLine(Name("DIRECT"))>>)
  BY DirectLineIs
<1>3. D # <<>> => job.target \in {"surge", "surfboard"}
  BY DEF DirectLine
<1>4. N = D \o P
  <2>1. CASE job.target # "surge"
    BY <2>1, Zenon DEF NodeLines
  <2>2. CASE job.target = "surge"
    <3> DEFINE Written(node) == job.version = 4 \/ node.type \notin {"VMESS", "TROJAN"}
               Q == {i \in DOMAIN ns : Written(ns[i])}
    <3>1. \A i \in DOMAIN ns : i \in Q
      BY <2>2
    <3>2. SurgeLines(ns, job.version) = ProxyLines(Filtered(ns, Q))
      BY Zenon DEF SurgeLines
    <3> HIDE DEF Q
    <3>3. Filtered(ns, Q) = ns
      BY <3>1, FilteredAll
    <3> QED
      BY <2>2, <3>2, <3>3, Zenon DEF NodeLines
  <2> QED
    BY <2>1, <2>2
<1>5. DOMAIN ns = 1..Len(ns) /\ Len(ns) \in Nat
  OBVIOUS
<1>6. \A x : ProxyLine(x).name = x
  BY DEF ProxyLine
<1>7. f = [i \in DOMAIN N |-> N[i].name]
  OBVIOUS
<1> DEFINE d == Len(D)
           m == Len(ns)
<1> HIDE DEF D, P, N, V
<1>8. /\ DOMAIN N = 1..(d + m) /\ d \in Nat /\ m \in Nat
      /\ \A i \in 1..d : N[i] = D[i]
      /\ \A i \in 1..m : N[d + i] = P[i]
  <2> DEFINE c == D \o P
  <2>1. /\ DOMAIN c = 1..(Len(D) + Len(P)) /\ Len(D) \in Nat /\ Len(P) \in Nat
        /\ \A i \in 1..Len(D) : c[i] = D[i]
        /\ \A i \in 1..Len(P) : c[Len(D) + i] = P[i]
    BY <1>1, <1>2, ConcatAt
  <2>2. Len(P) = m /\ N = c
    BY <1>1, <1>4
  <2> HIDE DEF c, m
  <2> QED
    BY <2>1, <2>2, Zenon
<1>9. d = 0 \/ (d = 1 /\ D[1] = ProxyLine(Name("DIRECT")) /\ \A i \in DOMAIN ns : ns[i].remark # Name("DIRECT"))
  BY <1>2, <1>3
<1> HIDE DEF d, m
<1>10. /\ DOMAIN f = 1..(d + m)
       /\ d = 1 => f[1] = Name("DIRECT")
       /\ \A i \in 1..m : f[d + i] = ns[i].remark
  <2>1. DOMAIN f = 1..(d + m) /\ \A i \in 1..(d + m) : f[i] = N[i].name
    BY <1>7, <1>8
  <2>2. \A i \in 1..m : d + i \in 1..(d + m)
    BY <1>8
  <2>3. \A i \in 1..m : f[d + i] = ns[i].remark
    <3> SUFFICES ASSUME NEW i \in 1..m PROVE f[d + i] = ns[i].remark
      OBVIOUS
    <3>1. i \in DOMAIN ns
      BY <1>5 DEF m
    <3>2. f[d + i] = N[d + i].name /\ N[d + i] = P[i] /\ P[i] = ProxyLine(ns[i].remark)
      BY <1>1, <1>8, <2>1, <2>2, <3>1
    <3> QED
      BY <1>6, <3>2
  <2>4. d = 1 => f[1] = Name("DIRECT")
    <3> SUFFICES ASSUME d = 1 PROVE f[1] = Name("DIRECT")
      OBVIOUS
    <3>1. 1 \in 1..(d + m) /\ 1 \in 1..d
      BY <1>8
    <3> QED
      BY <1>6, <1>8, <1>9, <2>1, <3>1
  <2> QED
    BY <2>1, <2>3, <2>4
<1>11. \A q \in 1..(d + m) : (d = 1 /\ q = 1) \/ (q - d \in 1..m /\ q = d + (q - d))
  BY <1>8, <1>9
<1>12. DOMAIN ns = 1..m
  BY <1>5 DEF m
<1>13. IsInjective(f)
  <2> SUFFICES ASSUME NEW i \in 1..(d + m), NEW k \in 1..(d + m), f[i] = f[k] PROVE i = k
    BY <1>10 DEF IsInjective
  <2>1. CASE d = 1 /\ i = 1
    <3>1. CASE k - d \in 1..m /\ k = d + (k - d)
      <4>1. f[k] = ns[k - d].remark
        BY <1>10, <3>1, Zenon
      <4>2. ns[k - d].remark # Name("DIRECT")
        BY <1>9, <1>12, <2>1, <3>1
      <4> QED
        BY <1>10, <2>1, <4>1, <4>2
    <3> QED
      BY <1>11, <2>1, <3>1
  <2>2. CASE d = 1 /\ k = 1
    <3>1. CASE i - d \in 1..m /\ i = d + (i - d)
      <4>1. f[i] = ns[i - d].remark
        BY <1>10, <3>1, Zenon
      <4>2. ns[i - d].remark # Name("DIRECT")
        BY <1>9, <1>12, <2>2, <3>1
      <4> QED
        BY <1>10, <2>2, <4>1, <4>2
    <3> QED
      BY <1>11, <2>2, <3>1
  <2>3. CASE (i - d \in 1..m /\ i = d + (i - d)) /\ (k - d \in 1..m /\ k = d + (k - d))
    <3>1. f[i] = ns[i - d].remark /\ f[k] = ns[k - d].remark
      BY <1>10, <2>3, Zenon
    <3>2. i - d = k - d
      BY <1>12, <2>3, <3>1 DEF Distinct
    <3> QED
      BY <1>8, <3>2
  <2> QED
    BY <1>11, <2>1, <2>2, <2>3
<1>14. Range(NamesOf(ns)) \subseteq Range(f)
  <2> SUFFICES ASSUME NEW x, x \in Range(NamesOf(ns)) PROVE x \in Range(f)
    OBVIOUS
  <2>1. PICK i \in DOMAIN ns : x = ns[i].remark
    BY NamesRange
  <2>2. i \in 1..m
    BY <1>12
  <2>3. d + i \in 1..(d + m)
    BY <1>8, <2>2
  <2>4. d + i \in DOMAIN f /\ x = f[d + i]
    BY <1>10, <2>1, <2>2, <2>3
  <2> QED
    BY <2>4 DEF Range
<1> QED
  BY <1>13, <1>14

\* The groups of a text, and where its rules lead.
LEMMA TextGroups ==
    ASSUME IsJob(job), Coherent, NEW ns
    PROVE  /\ \A i \in DOMAIN GroupLines(job, ns) : GroupLines(job, ns)[i].members = NamesOf(ns)
           /\ \A i \in DOMAIN RuleLines(job) :
                 RuleLines(job)[i].to \in NamesOfGroups(GroupLines(job, ns)) \cup BuiltIn
<1> DEFINE groups == job.settings.groups
           rulesets == job.settings.rulesets
           names == NamesOf(ns)
           G == GroupLines(job, ns)
           R == RuleLines(job)
           GL(i) == GroupLine(groups[i].name, names)
           RL(i) == RuleLine(rulesets[i].group)
<1>1. IsKind(GroupSet(job, ns), G, "group") /\ \A x \in GroupSet(job, ns) : x.members = names
  BY GroupLinesAre DEF GroupSet
<1>2. \A i \in DOMAIN G : G[i].members = names
  <2> HIDE DEF G
  <2> QED
    BY <1>1 DEF IsKind
<1>3. groups \in Seq(ProxyGroupConfig) /\ rulesets \in Seq(RulesetConfig)
  BY DEF IsJob
<1>4. /\ \A i \in DOMAIN rulesets : rulesets[i].group \in OwnAndBuiltIn
      /\ rulesets = <<>> => Name("Proxy") \in OwnAndBuiltIn
      /\ OwnGroups = IF groups = <<>> THEN {Name("Proxy")} ELSE NamesOfGroups(groups)
  BY CoherentIs
<1>5. /\ \A x, y : GroupLine(x, y).name = x
      /\ \A x : RuleLine(x).to = x
  BY DEF GroupLine, RuleLine
<1>6. G = <<GroupLine(Name("Proxy"), names)>> => NamesOfGroups(G) = {Name("Proxy")}
  <2> DEFINE g == GroupLine(Name("Proxy"), names)
  <2>1. g.name = Name("Proxy")
    BY <1>5
  <2> HIDE DEF g, G
  <2>2. SUFFICES ASSUME G = <<g>> PROVE NamesOfGroups(G) = {Name("Proxy")}
    BY DEF g
  <2>3. DOMAIN G = {1} /\ G[1] = g
    BY <2>2
  <2> QED
    BY <2>1, <2>3 DEF NamesOfGroups
<1>7. ASSUME R = <<RuleLine(Name("Proxy"))>>, NEW i \in DOMAIN R PROVE R[i].to = Name("Proxy")
  <2> DEFINE r == RuleLine(Name("Proxy"))
  <2>1. r.to = Name("Proxy")
    BY <1>5
  <2>2. R = <<r>>
    BY <1>7
  <2> HIDE DEF r, R
  <2> QED
    BY <1>7, <2>1, <2>2
<1>8. CASE job.target \notin {"quan", "quanx"}
  <2>1. G = <<GroupLine(Name("Proxy"), names)>>
    BY <1>8, Zenon DEF GroupLines
  <2>2. R = <<RuleLine(Name("Proxy"))>>
    <3>1. R = Either([i \in DOMAIN <<>> |-> RuleLine(<<>>[i].group)], <<RuleLine(Name("Proxy"))>>)
      BY <1>8, Zenon DEF RuleLines
    <3>2. [i \in DOMAIN <<>> |-> RuleLine(<<>>[i].group)] = <<>>
      OBVIOUS
    <3> QED
      BY <3>1, <3>2, Zenon DEF Either
  <2> HIDE DEF G, R
  <2> QED
    BY <1>2, <1>6, <1>7, <2>1, <2>2 DEF G, R
<1>9. CASE job.target \in {"quan", "quanx"}
  <2>1. NamesOfGroups(G) = OwnGroups
    <3>1. CASE groups = <<>>
      <4>1. G = <<GroupLine(Name("Proxy"), names)>>
        BY <3>1, Zenon DEF GroupLines
      <4> QED
        BY <1>4, <1>6, <3>1, <4>1
    <3>2. CASE groups # <<>>
      <4>1. G = [i \in DOMAIN groups |-> GL(i)]
        BY <1>9, <3>2, Zenon DEF GroupLines
      <4>2. \A i \in DOMAIN groups : GL(i).name = groups[i].name
        BY <1>5
      <4> HIDE DEF GL, G
      <4>3. DOMAIN G = DOMAIN groups /\ \A i \in DOMAIN groups : G[i].name = groups[i].name
        BY <4>1, <4>2
      <4>4. NamesOfGroups(G) = NamesOfGroups(groups)
        <5> HIDE DEF groups
        <5> QED
          BY <4>3 DEF NamesOfGroups
      <4> QED
        BY <1>4, <3>2, <4>4
    <3> QED
      BY <3>1, <3>2
  <2>2. \A i \in DOMAIN R : R[i].to \in OwnAndBuiltIn
    <3> DEFINE lines == [i \in DOMAIN rulesets |-> RL(i)]
    <3>1. R = Either(lines, <<RuleLine(Name("Proxy"))>>)
      BY <1>9, Zenon DEF RuleLines
    <3>2. CASE lines = <<>>
      <4>1. R = <<RuleLine(Name("Proxy"))>>
        BY <3>1, <3>2, Zenon DEF Either
      <4>2. DOMAIN rulesets = {}
        BY <3>2
      <4>3. rulesets = <<>>
        <5> HIDE DEF rulesets
        <5> QED
          BY <1>3, <4>2
      <4> HIDE DEF R
      <4> QED
        BY <1>4, <1>7, <4>1, <4>3
    <3>3. CASE lines # <<>>
      <4>1. R = lines
        BY <3>1, <3>3, Zenon DEF Either
      <4>2. \A i \in DOMAIN rulesets : RL(i).to = rulesets[i].group
        BY <1>5
      <4> HIDE DEF RL, R, rulesets
      <4>3. DOMAIN R = DOMAIN rulesets /\ \A i \in DOMAIN rulesets : R[i].to = rulesets[i].group
        BY <4>1, <4>2
      <4> QED
        BY <1>4, <4>3
    <3> QED
      BY <3>2, <3>3
  <2> HIDE DEF G, R
  <2> QED
    BY <1>2, <2>1, <2>2 DEF OwnAndBuiltIn, G, R
<1> QED
  BY <1>8, <1>9

\* Text formats.
LEMMA TextResolves ==
    ASSUME IsJob(job), Coherent, job.target \in TextTargets, EachOnce, NEW S, NEW ns \in Seq(S), Distinct(ns),
           job.target = "surge" => job.version = 4,
           job.target \in {"surge", "surfboard"} => \A i \in DOMAIN ns : ns[i].remark # Name("DIRECT"),
           doc = [lines |-> ExportText(job, ns)]
    PROVE  Resolves(Defined)
<1> DEFINE N == NodeLines(job, ns)
           G == GroupLines(job, ns)
           R == RuleLines(job)
           f == [i \in DOMAIN N |-> N[i].name]
           own == NamesOfGroups(G) \cup BuiltIn
           d == Defined
<1>1. OfKind(InSections, "proxy") = N /\ OfKind(InSections, "group") = G /\ OfKind(InSections, "rule") = R
  <2>1. doc.lines = ExportText(job, ns)
    OBVIOUS
  <2> QED
    BY <2>1, SectionKinds
<1>2. Defined = [proxies |-> f, groups |-> G, rules |-> R, providers |-> <<>>]
  <2>1. "lines" \in DOMAIN doc
    OBVIOUS
  <2> HIDE DEF N, G, R
  <2> QED
    BY <1>1, <2>1, Zenon DEF Defined, OfKind
<1>3. IsInjective(f) /\ Range(NamesOf(ns)) \subseteq Range(f)
  BY LineNames
<1>4. /\ \A i \in DOMAIN G : G[i].members = NamesOf(ns)
      /\ \A i \in DOMAIN R : R[i].to \in own
  BY TextGroups
<1> HIDE DEF f, G, R
<1>5. d.proxies = f /\ d.groups = G /\ d.rules = R
  BY <1>2
<1> HIDE DEF d
<1>6. own \subseteq NamesIn(d)
  BY <1>5, Zenon DEF NamesIn, NamesOfGroups
<1> HIDE DEF own
<1>7. References(d, Range(NamesOf(ns)), own)
  BY <1>3, <1>4, <1>5, <1>6 DEF References
<1> QED
  BY <1>7, ReferencesAre DEF d

-----------------------------------------------------------------------------
\* Every document.

\* What is no text has no lines.
LEMMA NoLines ==
    ASSUME job.target \notin TextTargets, NEW ns PROVE "lines" \notin DOMAIN Export(job, ns)
<1>1. \A x, y, z, v : "lines" \notin DOMAIN [proxies |-> x, groups |-> y, rules |-> z, providers |-> v]
  OBVIOUS
<1>2. \A x : "lines" \notin DOMAIN OnlyProxies(x)
  BY DEF OnlyProxies
<1>3. "lines" \notin DOMAIN ExportClash(job, ns)
  <2> DEFINE D == ClashDocument(job, ns)
  <2>1. "lines" \notin DOMAIN D
    BY <1>1, Zenon DEF ClashDocument
  <2> HIDE DEF D
  <2>2. \A v : DOMAIN [D EXCEPT !.providers = v] = DOMAIN D
    OBVIOUS
  <2>3. ExportClash(job, ns) = OnlyProxies(D.proxies) \/ ExportClash(job, ns) = D
        \/ \E v : ExportClash(job, ns) = [D EXCEPT !.providers = v]
    BY DEF ExportClash, MergeClashBase, D
  <2> QED
    BY <1>2, <2>1, <2>2, <2>3
<1>4. "lines" \notin DOMAIN ExportSingbox(job, ns)
  <2> DEFINE g == SingboxGroups(job.settings.groups, ns)
             r == SingboxRules(job.settings)
             p == OwnOutbounds \o NamesOf(ns)
  <2>1. ExportSingbox(job, ns) = OnlyProxies(NamesOf(ns))
        \/ ExportSingbox(job, ns) = [proxies |-> p, groups |-> g, rules |-> r, providers |-> <<>>]
    BY Zenon DEF ExportSingbox
  <2> HIDE DEF g, r, p
  <2> QED
    BY <1>1, <1>2, <2>1
<1>5. ExportLinks(ns) = OnlyProxies(NamesOf(ns)) /\ ExportEntries(ns) = OnlyProxies(NamesOf(ns))
  BY Zenon DEF ExportLinks, ExportEntries
<1> QED
  BY <1>2, <1>3, <1>4, <1>5, Zenon DEF Export

\* In such a state every name resolves.
LEMMA ResolveHolds == Checked /\ Named /\ Exported => ReferencesResolve
<1> SUFFICES ASSUME Checked, Named, Exported, Resolvable PROVE ReferencesResolve
  BY DEF ReferencesResolve
<1>1. /\ stage = "done" /\ Coherent /\ NoOwnNames
      /\ job.target \in TextTargets => EachOnce
      /\ job.target = "surge" => job.version = 4
  BY DEF Resolvable
<1>2. IsJob(job)
  BY JobsAreTyped DEF Checked
<1>3. PICK S : done \in Seq(S)
  BY <1>1 DEF Named
<1>4. Distinct(done) /\ doc = Export(job, done)
  BY <1>1 DEF Named, Exported
<1>5. Resolves(Defined)
  <2>1. CASE job.target \in TextTargets
    <3>1. doc = [lines |-> ExportText(job, done)]
      BY <1>4, <2>1 DEF Export, TextTargets, ClashTargets
    <3>2. job.target \in {"surge", "surfboard"} => \A i \in DOMAIN done : done[i].remark # Name("DIRECT")
      BY <1>1 DEF NoOwnNames, OwnNames
    <3> QED
      BY <1>1, <1>2, <1>3, <1>4, <2>1, <3>1, <3>2, TextResolves
  <2>2. CASE job.target \notin TextTargets
    <3>1. Defined = doc
      BY <1>4, <2>2, NoLines, Zenon DEF Defined
    <3>2. CASE job.target \in ClashTargets
      <4>1. doc = ExportClash(job, done)
        BY <1>4, <3>2 DEF Export, ClashTargets, TextTargets
      <4> QED
        BY <1>1, <1>2, <1>3, <1>4, <3>1, <4>1, ClashResolves
    <3>3. CASE job.target = "singbox"
      <4>1. doc = ExportSingbox(job, done)
        BY <1>4, <3>3 DEF Export, ClashTargets, TextTargets
      <4>2. \A i \in DOMAIN done : done[i].remark \notin Range(OwnOutbounds)
        BY <1>1, <3>3 DEF NoOwnNames, OwnNames
      <4> QED
        BY <1>1, <1>2, <1>3, <1>4, <3>1, <4>1, <4>2, SingboxResolves
    <3>4. CASE job.target \notin ClashTargets /\ job.target # "singbox"
      <4>1. doc = OnlyProxies(NamesOf(done))
        BY <1>4, <2>2, <3>4, Zenon DEF Export, ExportLinks, ExportEntries
      <4> QED
        BY <1>3, <1>4, <3>1, <4>1, OnlyProxiesResolve
    <3> QED
      BY <3>2, <3>3, <3>4
  <2> QED
    BY <2>1, <2>2
<1> QED
  BY <1>5, Zenon DEF ReferencesResolve, Resolves

\* No document has two proxies of one name or names a proxy, group or policy that it
\* does not define, whatever the nodes, filters, renamings, scripts, groups, rules,
\* bases and targets of a conversion, under the conditions that Resolvable names
\* (export_nodes, export_clash, merge_singbox_base, text_rules, apply_text_rule_base).
THEOREM ReferencesHold == Spec => []ReferencesResolve
<1>1. Init => Checked /\ Named /\ Exported
  BY DEF Init, Checked, Named, Exported
<1> QED
  BY <1>1, CheckedStep, NamedStep, ExportedStep, ResolveHolds, PTL DEF Spec

-----------------------------------------------------------------------------
\* No node is lost (NothingLost).

\* How often an element occurs.
LEMMA OccursType ==
    ASSUME NEW S, NEW list \in Seq(S), NEW x
    PROVE  Occurrences(list, x) \in Nat /\ (x \notin Range(list) => Occurrences(list, x) = 0)
<1> DEFINE I == {i \in DOMAIN list : list[i] = x}
<1>1. DOMAIN list = 1..Len(list) /\ Len(list) \in Nat
  OBVIOUS
<1>2. I \in SUBSET (1..Len(list)) /\ IsFiniteSet(1..Len(list))
  BY <1>1, FS_Interval
<1>3. x \notin Range(list) => I = {}
  BY DEF Range
<1> HIDE DEF I
<1>4. IsFiniteSet(I)
  BY <1>2, FS_Subset
<1> QED
  BY <1>3, <1>4, FS_CardinalityType, FS_EmptySet DEF Occurrences, I

\* Nothing occurs in an empty list.
LEMMA OccursEmpty == ASSUME NEW x PROVE Occurrences(<<>>, x) = 0
<1>1. <<>> \in Seq({}) /\ x \notin Range(<<>>)
  BY DEF Range
<1> QED
  BY <1>1, OccursType

\* An element that is added occurs once more.
LEMMA OccursAppend ==
    ASSUME NEW S, NEW list \in Seq(S), NEW y \in S, NEW x
    PROVE  Occurrences(Append(list, y), x) = Occurrences(list, x) + (IF x = y THEN 1 ELSE 0)
<1> DEFINE more == Append(list, y)
           n == Len(list)
           I == {i \in DOMAIN list : list[i] = x}
           J == {i \in DOMAIN more : more[i] = x}
<1>1. /\ n \in Nat /\ DOMAIN list = 1..n /\ DOMAIN more = 1..(n + 1)
      /\ more[n + 1] = y /\ \A i \in 1..n : more[i] = list[i]
  OBVIOUS
<1> HIDE DEF more, n
<1>2. n + 1 \notin I /\ I \in SUBSET (1..n) /\ J = IF x = y THEN I \cup {n + 1} ELSE I
  BY <1>1
<1> HIDE DEF I, J
<1>3. IsFiniteSet(1..n)
  BY <1>1, FS_Interval
<1>4. IsFiniteSet(I)
  BY <1>2, <1>3, FS_Subset
<1>5. Cardinality(I) \in Nat /\ Cardinality(I \cup {n + 1}) = Cardinality(I) + 1
  BY <1>2, <1>4, FS_CardinalityType, FS_AddElement
<1>6. Cardinality(J) = Cardinality(I) + (IF x = y THEN 1 ELSE 0)
  BY <1>2, <1>5
<1> QED
  BY <1>6 DEF Occurrences, I, J, more

\* Of those in a set all occurrences are in the selection, of others none.
LEMMA OccursOf ==
    ASSUME NEW S, NEW list \in Seq(S), NEW T, NEW x
    PROVE  Occurrences(Of(list, T), x) = IF x \in T THEN Occurrences(list, x) ELSE 0
<1> DEFINE first(n) == SubSeq(list, 1, n)
           Holds(m) == Occurrences(Of(m, T), x) = IF x \in T THEN Occurrences(m, x) ELSE 0
           U == {n \in Nat : Holds(first(n))}
<1>1. 0 \in U
  <2>1. first(0) = <<>>
    BY SubSeqEmpty
  <2>2. Holds(<<>>)
    BY OfEmpty, OccursEmpty
  <2> QED
    BY <2>1, <2>2
<1>2. ASSUME NEW n \in Nat, n \in U, n + 1 <= Len(list) PROVE n + 1 \in U
  <2> DEFINE m == first(n)
             y == list[n + 1]
  <2>1. /\ m \in Seq(S) /\ y \in S
        /\ first(n + 1) = Append(m, y)
    BY <1>2, PrefixNext
  <2>2. Holds(m)
    BY <1>2
  <2> HIDE DEF first, m, y
  <2>3. Of(m, T) \in Seq(S)
    BY <2>1, OfType
  <2>4. Of(Append(m, y), T) = IF y \in T THEN Append(Of(m, T), y) ELSE Of(m, T)
    BY <2>1, OfAppend
  <2>5. Occurrences(Append(m, y), x) = Occurrences(m, x) + (IF x = y THEN 1 ELSE 0)
    BY <2>1, OccursAppend
  <2>6. Occurrences(Append(Of(m, T), y), x) = Occurrences(Of(m, T), x) + (IF x = y THEN 1 ELSE 0)
    BY <2>1, <2>3, OccursAppend
  <2>7. Occurrences(m, x) \in Nat /\ Occurrences(Of(m, T), x) \in Nat
    BY <2>1, <2>3, OccursType
  <2>8. Holds(Append(m, y))
    <3>1. CASE x = y
      BY <2>2, <2>4, <2>5, <2>6, <2>7, <3>1
    <3>2. CASE x # y
      BY <2>2, <2>4, <2>5, <2>6, <2>7, <3>2
    <3> QED
      BY <3>1, <3>2
  <2>9. Holds(first(n + 1))
    BY <2>1, <2>8
  <2> QED
    BY <2>9
<1>3. Len(list) \in U
  <2>1. IsPrefixes(U, list)
    BY <1>1, <1>2 DEF IsPrefixes
  <2> HIDE DEF U
  <2> QED
    BY <2>1, AllPrefixes
<1>4. first(Len(list)) = list
  BY SubSeqFull
<1>5. Holds(list)
  BY <1>3, <1>4
<1> QED
  BY <1>5

\* The same items: every element occurs as often in the one list as in the other.
LEMMA SameIs ==
    ASSUME NEW S, NEW list \in Seq(S), NEW R, NEW other \in Seq(R)
    PROVE  SameItems(list, other) <=> \A x : Occurrences(list, x) = Occurrences(other, x)
<1>1. \A x : /\ x \notin Range(list) => Occurrences(list, x) = 0
             /\ x \notin Range(other) => Occurrences(other, x) = 0
  BY OccursType
<1> QED
  BY <1>1 DEF SameItems

\* Of lists with the same elements, the elements of a set are the same.
LEMMA SameOf ==
    ASSUME NEW S, NEW list \in Seq(S), NEW other \in Seq(S), NEW T, SameItems(list, other)
    PROVE  SameItems(Of(list, T), Of(other, T))
<1>1. \A x : Occurrences(list, x) = Occurrences(other, x)
  BY SameIs
<1>2. \A x : /\ Occurrences(Of(list, T), x) = IF x \in T THEN Occurrences(list, x) ELSE 0
             /\ Occurrences(Of(other, T), x) = IF x \in T THEN Occurrences(other, x) ELSE 0
  BY OccursOf
<1>3. Of(list, T) \in Seq(S) /\ Of(other, T) \in Seq(S)
  BY OfType
<1>4. \A x : Occurrences(Of(list, T), x) = Occurrences(Of(other, T), x)
  BY <1>1, <1>2
<1> QED
  BY <1>3, <1>4, SameIs

\* Another order.
IsShuffle(list, other, p) ==
    /\ DOMAIN list = DOMAIN other
    /\ p \in Bijection(DOMAIN list, DOMAIN list)
    /\ \A i \in DOMAIN list : list[i] = other[p[i]]

\* A list in another order has the same elements.
LEMMA SameShuffled ==
    ASSUME NEW S, NEW other \in Seq(S), NEW list, NEW p, IsShuffle(list, other, p)
    PROVE  SameItems(list, other)
<1> DEFINE D == DOMAIN other
<1>1. D = 1..Len(other) /\ Len(other) \in Nat
  OBVIOUS
<1>2. IsFiniteSet(D)
  BY <1>1, FS_Interval
<1> HIDE DEF D
<1>3. /\ p \in Bijection(D, D) /\ DOMAIN list = D
      /\ \A i \in D : list[i] = other[p[i]]
  BY DEF IsShuffle, D
<1>4. ASSUME NEW x PROVE Occurrences(list, x) = Occurrences(other, x)
  <2> DEFINE I == {i \in D : list[i] = x}
             J == {i \in D : other[i] = x}
             q == [i \in I |-> p[i]]
  <2>1. /\ p \in [D -> D]
        /\ \A i, k \in D : p[i] = p[k] => i = k
        /\ \A k \in D : \E i \in D : p[i] = k
    BY <1>3 DEF Bijection, Injection, Surjection, IsInjective
  <2>2. q \in [I -> J]
    BY <1>3, <2>1
  <2>3. \A i, k \in I : q[i] = q[k] => i = k
    BY <2>1
  <2>4. \A k \in J : \E i \in I : q[i] = k
    <3> SUFFICES ASSUME NEW k \in J PROVE \E i \in I : q[i] = k
      OBVIOUS
    <3>1. PICK i \in D : p[i] = k
      BY <2>1
    <3>2. i \in I
      BY <1>3, <3>1
    <3> QED
      BY <3>1, <3>2
  <2>5. I \in SUBSET D
    OBVIOUS
  <2> HIDE DEF I, J, q
  <2>6. q \in Bijection(I, J)
    BY <2>2, <2>3, <2>4 DEF Bijection, Injection, Surjection, IsInjective
  <2>7. IsFiniteSet(I)
    BY <1>2, <2>5, FS_Subset
  <2>8. ExistsBijection(I, J)
    BY <2>6 DEF ExistsBijection
  <2>9. Cardinality(J) = Cardinality(I)
    BY <2>7, <2>8, FS_Bijection
  <2>10. I = {i \in DOMAIN list : list[i] = x} /\ J = {i \in DOMAIN other : other[i] = x}
    BY <1>3 DEF I, J, D
  <2> QED
    BY <2>9, <2>10 DEF Occurrences
<1> QED
  BY <1>4 DEF SameItems

\* The rank of a word is its place.
LEMMA RankIs ==
    ASSUME NEW w \in Word
    PROVE  Rank(w) \in Nat /\ WordOrder[Rank(w)] = w
<1>1. PICK i \in DOMAIN WordOrder : WordOrder[i] = w
  BY DEF Word, Range
<1>2. Rank(w) \in DOMAIN WordOrder /\ WordOrder[Rank(w)] = w
  BY <1>1 DEF Rank
<1>3. DOMAIN WordOrder \subseteq Nat
  BY WordsInOrder
<1> QED
  BY <1>2, <1>3

\* Remarks differ somewhere first.
LEMMA BeforeTotal ==
    ASSUME NEW a \in Remark, NEW b \in Remark, a # b
    PROVE  Before(a, b) \/ Before(b, a)
<1> DEFINE T == {k \in Nat : k > 0 /\ (k > Len(a) \/ k > Len(b) \/ a[k] # b[k])}
<1>1. /\ Len(a) \in Nat /\ DOMAIN a = 1..Len(a) /\ \A i \in 1..Len(a) : a[i] \in Word
      /\ Len(b) \in Nat /\ DOMAIN b = 1..Len(b) /\ \A i \in 1..Len(b) : b[i] \in Word
  BY DEF Remark
<1>2. Len(a) + 1 \in T /\ T \subseteq Nat
  BY <1>1
<1>3. PICK k \in T : \A m \in T : k <= m
  BY <1>2, Least
<1>4. /\ k \in Nat /\ k > 0 /\ (k > Len(a) \/ k > Len(b) \/ a[k] # b[k])
      /\ k <= Len(a) + 1 /\ k <= Len(b) + 1
      /\ \A i \in 1..(k - 1) : a[i] = b[i]
  <2>1. Len(b) + 1 \in T
    BY <1>1
  <2>2. ASSUME NEW i \in 1..(k - 1) PROVE a[i] = b[i]
    <3>1. i \in Nat /\ i > 0 /\ ~(k <= i)
      BY <1>3
    <3>2. i \notin T
      BY <1>3, <3>1
    <3> QED
      BY <3>1, <3>2
  <2> QED
    BY <1>2, <1>3, <2>1, <2>2
<1> HIDE DEF T
<1>5. ~(k > Len(a) /\ k > Len(b))
  <2> SUFFICES ASSUME k > Len(a), k > Len(b) PROVE FALSE
    OBVIOUS
  <2>1. Len(a) = k - 1 /\ Len(b) = k - 1
    BY <1>1, <1>4
  <2>2. a \in Seq(Word) /\ b \in Seq(Word) /\ Len(a) = Len(b) /\ \A i \in 1..Len(a) : a[i] = b[i]
    BY <1>4, <2>1 DEF Remark
  <2> QED
    BY <2>2, SeqEqual
<1>6. CASE k > Len(a)
  <2>1. k \in 1..Len(b) /\ ~(k <= Len(a))
    BY <1>1, <1>4, <1>5, <1>6
  <2> QED
    BY <1>4, <2>1 DEF Before
<1>7. CASE k > Len(b)
  <2>1. k \in 1..Len(a) /\ ~(k <= Len(b)) /\ \A i \in 1..(k - 1) : b[i] = a[i]
    BY <1>1, <1>4, <1>5, <1>7
  <2> QED
    BY <1>4, <2>1 DEF Before
<1>8. CASE k <= Len(a) /\ k <= Len(b)
  <2>1. k \in 1..Len(a) /\ k \in 1..Len(b) /\ a[k] # b[k] /\ \A i \in 1..(k - 1) : b[i] = a[i]
    BY <1>1, <1>4, <1>8
  <2>2. a[k] \in Word /\ b[k] \in Word
    BY <1>1, <2>1
  <2>3. Rank(a[k]) \in Nat /\ Rank(b[k]) \in Nat /\ Rank(a[k]) # Rank(b[k])
    BY <2>1, <2>2, RankIs
  <2>4. Rank(a[k]) < Rank(b[k]) \/ Rank(b[k]) < Rank(a[k])
    BY <2>3
  <2> QED
    BY <1>4, <2>1, <2>4 DEF Before
<1> QED
  BY <1>1, <1>4, <1>6, <1>7, <1>8

\* No remark comes before itself.
LEMMA BeforeIrreflexive == ASSUME NEW a \in Remark PROVE ~Before(a, a)
<1> SUFFICES ASSUME Before(a, a) PROVE FALSE
  OBVIOUS
<1>1. PICK k \in 1..Len(a) : k <= Len(a) => Rank(a[k]) < Rank(a[k])
  BY DEF Before
<1>2. Len(a) \in Nat /\ \A i \in 1..Len(a) : a[i] \in Word
  BY DEF Remark
<1>3. a[k] \in Word /\ k <= Len(a)
  BY <1>2
<1>4. Rank(a[k]) \in Nat
  BY <1>3, RankIs
<1> QED
  BY <1>1, <1>3, <1>4

\* What comes before a remark comes before those after it.
LEMMA BeforeTransitive ==
    ASSUME NEW a \in Remark, NEW b \in Remark, NEW c \in Remark, Before(a, b), Before(b, c)
    PROVE  Before(a, c)
<1>1. /\ Len(a) \in Nat /\ \A i \in 1..Len(a) : a[i] \in Word
      /\ Len(b) \in Nat /\ \A i \in 1..Len(b) : b[i] \in Word
      /\ Len(c) \in Nat /\ \A i \in 1..Len(c) : c[i] \in Word
  BY DEF Remark
<1>2. PICK k \in 1..Len(b) : /\ k <= Len(a) + 1
                             /\ \A i \in 1..(k - 1) : a[i] = b[i]
                             /\ k <= Len(a) => Rank(a[k]) < Rank(b[k])
  BY DEF Before
<1>3. PICK l \in 1..Len(c) : /\ l <= Len(b) + 1
                             /\ \A i \in 1..(l - 1) : b[i] = c[i]
                             /\ l <= Len(b) => Rank(b[l]) < Rank(c[l])
  BY DEF Before
<1>4. CASE k < l
  <2>1. k \in 1..Len(c) /\ k \in 1..(l - 1)
    BY <1>1, <1>2, <1>3, <1>4
  <2>2. b[k] = c[k] /\ \A i \in 1..(k - 1) : i \in 1..(l - 1)
    BY <1>3, <1>4, <2>1
  <2>3. \A i \in 1..(k - 1) : a[i] = c[i]
    BY <1>2, <1>3, <2>2
  <2> QED
    BY <1>2, <2>1, <2>2, <2>3 DEF Before
<1>5. CASE k = l
  <2>1. \A i \in 1..(k - 1) : a[i] = c[i]
    BY <1>2, <1>3, <1>5
  <2>2. ASSUME k <= Len(a) PROVE Rank(a[k]) < Rank(c[k])
    <3>1. a[k] \in Word /\ b[k] \in Word /\ c[k] \in Word
      BY <1>1, <1>5, <2>2
    <3>2. Rank(a[k]) \in Nat /\ Rank(b[k]) \in Nat /\ Rank(c[k]) \in Nat
      BY <3>1, RankIs
    <3>3. Rank(a[k]) < Rank(b[k]) /\ Rank(b[k]) < Rank(c[k])
      BY <1>2, <1>3, <1>5, <2>2
    <3> QED
      BY <3>2, <3>3
  <2> QED
    BY <1>2, <1>5, <2>1, <2>2 DEF Before
<1>6. CASE l < k
  <2>1. l <= Len(a) + 1 /\ l <= Len(b) /\ l \in 1..(k - 1)
    BY <1>1, <1>2, <1>3, <1>6
  <2>2. a[l] = b[l] /\ Rank(b[l]) < Rank(c[l]) /\ \A i \in 1..(l - 1) : i \in 1..(k - 1)
    BY <1>2, <1>3, <1>6, <2>1
  <2>3. \A i \in 1..(l - 1) : a[i] = c[i]
    BY <1>2, <1>3, <2>2
  <2> QED
    BY <2>1, <2>2, <2>3 DEF Before
<1> QED
  BY <1>4, <1>5, <1>6

-----------------------------------------------------------------------------
\* What comes before what, when nodes are sorted.
Precedes(ns, i, j) ==
    Before(ns[i].remark, ns[j].remark) \/ (ns[i].remark = ns[j].remark /\ i < j)
Preceding(ns, j) == {i \in DOMAIN ns : Precedes(ns, i, j)}

\* It is an order of the places.
LEMMA PrecedesOrders ==
    ASSUME NEW ns, DOMAIN ns \subseteq Nat, \A i \in DOMAIN ns : ns[i].remark \in Remark,
           NEW i \in DOMAIN ns, NEW j \in DOMAIN ns
    PROVE  /\ ~Precedes(ns, i, i)
           /\ i # j => Precedes(ns, i, j) \/ Precedes(ns, j, i)
           /\ \A k \in DOMAIN ns : Precedes(ns, k, i) /\ Precedes(ns, i, j) => Precedes(ns, k, j)
<1>1. ~Precedes(ns, i, i)
  BY BeforeIrreflexive DEF Precedes
<1>2. i # j => Precedes(ns, i, j) \/ Precedes(ns, j, i)
  BY BeforeTotal DEF Precedes
<1>3. ASSUME NEW k \in DOMAIN ns, Precedes(ns, k, i), Precedes(ns, i, j) PROVE Precedes(ns, k, j)
  <2> DEFINE a == ns[k].remark
             b == ns[i].remark
             c == ns[j].remark
  <2>1. a \in Remark /\ b \in Remark /\ c \in Remark /\ k \in Nat /\ i \in Nat /\ j \in Nat
    OBVIOUS
  <2>2. (Before(a, b) \/ (a = b /\ k < i)) /\ (Before(b, c) \/ (b = c /\ i < j))
    BY <1>3 DEF Precedes
  <2> HIDE DEF a, b, c
  <2>3. Before(a, c) \/ (a = c /\ k < j)
    <3>1. CASE Before(a, b) /\ Before(b, c)
      BY <2>1, <3>1, BeforeTransitive
    <3>2. CASE a = b \/ b = c
      BY <2>1, <2>2, <3>2
    <3> QED
      BY <2>2, <3>1, <3>2
  <2> QED
    BY <2>3 DEF Precedes, a, b, c
<1> QED
  BY <1>1, <1>2, <1>3

\* Sorting only changes the order.
LEMMA SortedShuffles ==
    ASSUME NEW S, NEW ns \in Seq(S), \A i \in DOMAIN ns : ns[i].remark \in Remark
    PROVE  \E p : IsShuffle(Sorted(ns), ns, p)
<1> DEFINE n == Len(ns)
           D == DOMAIN ns
           place == [j \in D |-> Cardinality(Preceding(ns, j)) + 1]
           order == [p \in D |-> CHOOSE j \in D : place[j] = p]
<1>1. n \in Nat /\ D = 1..n /\ D \subseteq Nat
  OBVIOUS
<1>2. IsFiniteSet(D) /\ Cardinality(D) = n
  BY <1>1, FS_Interval
<1> HIDE DEF D
<1>3. \A i \in D : ns[i].remark \in Remark
  BY DEF D
<1>4. ASSUME NEW i \in D, NEW j \in D
      PROVE  /\ ~Precedes(ns, i, i)
             /\ i # j => Precedes(ns, i, j) \/ Precedes(ns, j, i)
             /\ \A k \in D : Precedes(ns, k, i) /\ Precedes(ns, i, j) => Precedes(ns, k, j)
  BY <1>1, <1>3, PrecedesOrders DEF D
<1>5. \A j \in D : \A i : i \in Preceding(ns, j) <=> i \in D /\ Precedes(ns, i, j)
  BY DEF Preceding, D
<1>6. ASSUME NEW j \in D
      PROVE  /\ IsFiniteSet(Preceding(ns, j)) /\ Cardinality(Preceding(ns, j)) \in Nat
             /\ Cardinality(Preceding(ns, j)) + 1 \in D
  <2>1. Preceding(ns, j) \in SUBSET (D \ {j})
    BY <1>4, <1>5
  <2>2. IsFiniteSet(D \ {j}) /\ Cardinality(D \ {j}) = n - 1
    BY <1>2, FS_RemoveElement
  <2>3. IsFiniteSet(Preceding(ns, j)) /\ Cardinality(Preceding(ns, j)) <= n - 1
    BY <2>1, <2>2, FS_Subset
  <2>4. Cardinality(Preceding(ns, j)) \in Nat
    BY <2>3, FS_CardinalityType
  <2> QED
    BY <1>1, <2>3, <2>4
<1>7. ASSUME NEW i \in D, NEW j \in D, Precedes(ns, i, j)
      PROVE  Cardinality(Preceding(ns, i)) # Cardinality(Preceding(ns, j))
  <2>1. Preceding(ns, i) \in SUBSET Preceding(ns, j)
    BY <1>4, <1>5, <1>7
  <2>2. i \in Preceding(ns, j) /\ i \notin Preceding(ns, i)
    BY <1>4, <1>5, <1>7
  <2> QED
    BY <1>6, <2>1, <2>2, FS_Subset
<1>8. place \in Injection(D, D)
  <2>1. place \in [D -> D]
    BY <1>6
  <2>2. ASSUME NEW i \in D, NEW j \in D, place[i] = place[j] PROVE i = j
    <3>1. Cardinality(Preceding(ns, i)) = Cardinality(Preceding(ns, j))
      BY <1>6, <2>2
    <3> QED
      BY <1>4, <1>7, <3>1
  <2> HIDE DEF place
  <2> QED
    BY <2>1, <2>2 DEF Injection, IsInjective
<1>9. place \in Surjection(D, D)
  BY <1>2, <1>8, FS_Injection
<1>10. /\ place \in [D -> D]
       /\ \A i, j \in D : place[i] = place[j] => i = j
       /\ \A p \in D : \E j \in D : place[j] = p
  BY <1>8, <1>9 DEF Injection, Surjection, IsInjective
<1>11. Sorted(ns) = [p \in D |-> ns[CHOOSE j \in D : place[j] = p]]
  <2>1. \A p, j : j \in D => (place[j] = p <=> Cardinality(Preceding(ns, j)) + 1 = p)
    OBVIOUS
  <2>2. \A p \in D : (CHOOSE j \in D : place[j] = p) =
                     (CHOOSE j \in D : Cardinality(Preceding(ns, j)) + 1 = p)
    BY <2>1
  <2>3. Sorted(ns) = [p \in D |-> ns[CHOOSE j \in D : Cardinality(Preceding(ns, j)) + 1 = p]]
    BY DEF Sorted, Preceding, Precedes, D
  <2> QED
    BY <2>2, <2>3
<1> HIDE DEF place
<1>12. \A p \in D : order[p] \in D /\ place[order[p]] = p
  BY <1>10
<1>13. order \in [D -> D] /\ Sorted(ns) = [p \in D |-> ns[order[p]]]
  BY <1>11, <1>12
<1> HIDE DEF order
<1>14. order \in Bijection(D, D)
  <2>1. \A p, q \in D : order[p] = order[q] => p = q
    BY <1>12
  <2>2. \A j \in D : \E p \in D : order[p] = j
    <3> SUFFICES ASSUME NEW j \in D PROVE \E p \in D : order[p] = j
      OBVIOUS
    <3>1. place[j] \in D /\ order[place[j]] \in D /\ place[order[place[j]]] = place[j]
      BY <1>10, <1>12
    <3>2. order[place[j]] = j
      BY <1>10, <3>1
    <3> QED
      BY <3>1, <3>2
  <2> QED
    BY <1>13, <2>1, <2>2 DEF Bijection, Injection, Surjection, IsInjective
<1>15. IsShuffle(Sorted(ns), ns, order)
  BY <1>13, <1>14 DEF IsShuffle, D
<1> QED
  BY <1>15

\* Nor does a script change more.
LEMMA BijectionShuffles ==
    ASSUME NEW ns, NEW order \in Bijection(DOMAIN ns, DOMAIN ns)
    PROVE  IsShuffle([i \in DOMAIN ns |-> ns[order[i]]], ns, order)
BY DEF IsShuffle

\* A rule makes a remark of a remark.
LEMMA RenamedType ==
    ASSUME NEW remark \in Remark, NEW r, r.replace \in Word
    PROVE  Renamed(remark, r) \in Remark
<1> DEFINE f == [i \in 1..Len(remark) |-> IF remark[i] = r.match THEN r.replace ELSE remark[i]]
<1>1. Len(remark) \in Nat /\ DOMAIN remark = 1..Len(remark) /\ \A i \in 1..Len(remark) : remark[i] \in Word
  BY DEF Remark
<1>2. f \in [1..Len(remark) -> Word]
  BY <1>1
<1>3. f \in Seq(Word)
  BY <1>1, <1>2
<1> QED
  BY <1>1, <1>3 DEF Renamed, Remark

\* So do all of them.
IsRenaming(f, remark, rules) ==
    f = [n \in 0..Len(rules) |-> IF n = 0 THEN remark ELSE Renamed(f[n - 1], rules[n])]

\* All the rules make a remark of a remark.
LEMMA RenamedByAllType ==
    ASSUME NEW remark \in Remark, NEW R, NEW rules \in Seq(R), \A r \in R : r.replace \in Word
    PROVE  RenamedByAll(remark, rules) \in Remark
<1> DEFINE m == Len(rules)
           acts == [i \in 1..m |-> [a \in Remark |-> Renamed(a, rules[i])]]
<1>1. m \in Nat /\ \A i \in 1..m : rules[i] \in R
  OBVIOUS
<1> HIDE DEF m
<1>2. \A i \in 1..m : \A a \in Remark : Renamed(a, rules[i]) \in Remark
  BY <1>1, RenamedType
<1>3. IsStep(acts, m, Remark)
  BY <1>2 DEF IsStep
<1>4. \A i \in 1..m : \A a \in Remark : acts[i][a] = Renamed(a, rules[i])
  OBVIOUS
<1> HIDE DEF acts
<1>5. PICK g : IsCarried(g, m, Remark, remark, acts)
  BY <1>1, <1>3, Recursion
<1>6. IsRenaming(g, remark, rules)
  <2>1. /\ g \in [0..m -> Remark] /\ g[0] = remark
        /\ \A i \in 1..m : g[i] = acts[i][g[i - 1]]
    BY <1>5 DEF IsCarried
  <2>2. ASSUME NEW i \in 0..m
        PROVE  g[i] = IF i = 0 THEN remark ELSE Renamed(g[i - 1], rules[i])
    <3>1. CASE i = 0
      BY <2>1, <3>1
    <3>2. CASE i # 0
      <4>1. i \in 1..m /\ i - 1 \in 0..m
        BY <1>1, <3>2
      <4>2. g[i - 1] \in Remark /\ g[i] = acts[i][g[i - 1]]
        BY <2>1, <4>1
      <4> QED
        BY <1>4, <3>2, <4>1, <4>2
    <3> QED
      BY <3>1, <3>2
  <2> QED
    BY <2>1, <2>2 DEF IsRenaming, m
<1> DEFINE f == CHOOSE h : IsRenaming(h, remark, rules)
<1>7. IsRenaming(f, remark, rules)
  BY <1>6
<1>8. RenamedByAll(remark, rules) = f[m]
  BY Zenon DEF RenamedByAll, IsRenaming, m
<1> HIDE DEF f
<1> DEFINE T == {n \in Nat : n <= m => f[n] \in Remark}
<1>9. 0 \in T
  BY <1>1, <1>7 DEF IsRenaming, m
<1>10. ASSUME NEW n \in Nat, n \in T PROVE n + 1 \in T
  <2> SUFFICES ASSUME n + 1 <= m PROVE f[n + 1] \in Remark
    OBVIOUS
  <2>1. n + 1 \in 0..m /\ n + 1 # 0 /\ (n + 1) - 1 = n /\ n + 1 \in 1..m
    BY <1>1
  <2>2. f[n + 1] = Renamed(f[n], rules[n + 1])
    BY <1>7, <2>1 DEF IsRenaming, m
  <2>3. f[n] \in Remark
    BY <1>1, <1>10, <2>1
  <2>4. rules[n + 1].replace \in Word
    BY <1>1, <2>1
  <2> QED
    BY <2>2, <2>3, <2>4, RenamedType
<1>11. m \in T
  <2> HIDE DEF T
  <2> QED
    BY <1>1, <1>9, <1>10, NatSet
<1> QED
  BY <1>1, <1>8, <1>11

\* What may go from the front, or come there.
LEMMA RemarkFront ==
    ASSUME NEW remark \in Remark
    PROVE  /\ WithoutEmoji(remark) \in Remark
           /\ \A w \in Word : <<w>> \o remark \in Remark
BY DEF WithoutEmoji, Remark

-----------------------------------------------------------------------------
\* Nodes, and what they are known by.

\* A node, as far as all the stages need it.
IsNode(n) ==
    /\ {"id", "type", "group", "remark"} \subseteq DOMAIN n
    /\ n.remark \in Remark /\ TypeWord(n.type) \in Word
AreNodes(ns) == \E S : ns \in Seq(S) /\ \A n \in S : IsNode(n)
TagOf(n) == [read |-> TRUE, id |-> n.id, type |-> n.type]

\* There is one tag for each node, at its place.
LEMMA TagsAre ==
    ASSUME NEW S, NEW ns \in Seq(S)
    PROVE  /\ TagsOf(ns) \in Seq({TagOf(n) : n \in S})
           /\ Len(TagsOf(ns)) = Len(ns) /\ DOMAIN TagsOf(ns) = DOMAIN ns
           /\ \A i \in DOMAIN ns : TagsOf(ns)[i] = TagOf(ns[i])
<1> DEFINE T == {TagOf(n) : n \in S}
           f == [i \in 1..Len(ns) |-> TagOf(ns[i])]
<1>1. Len(ns) \in Nat /\ DOMAIN ns = 1..Len(ns) /\ \A i \in 1..Len(ns) : ns[i] \in S
  OBVIOUS
<1>2. TagsOf(ns) = f
  BY <1>1, Zenon DEF TagsOf, TagOf
<1>3. \A i \in 1..Len(ns) : TagOf(ns[i]) \in T
  BY <1>1
<1> HIDE DEF T
<1>4. f \in [1..Len(ns) -> T]
  BY <1>3
<1>5. DOMAIN f = 1..Len(ns) /\ \A i \in 1..Len(ns) : f[i] = TagOf(ns[i])
  OBVIOUS
<1>6. f \in Seq(T) /\ Len(f) = Len(ns)
  <2> HIDE DEF f
  <2> QED
    BY <1>1, <1>4
<1> HIDE DEF f
<1> QED
  BY <1>1, <1>2, <1>5, <1>6 DEF T

\* What stands where in two lists that are put together.
LEMMA TagsJoined ==
    ASSUME NEW T, NEW u \in Seq(T), NEW v \in Seq(T)
    PROVE  /\ u \o v \in Seq(T) /\ Len(u \o v) = Len(u) + Len(v)
           /\ \A i \in 1..Len(u) : (u \o v)[i] = u[i]
           /\ \A i \in 1..Len(v) : (u \o v)[Len(u) + i] = v[i]
BY ConcatAt

\* The tags of two lists, one behind the other.
LEMMA TagsConcat ==
    ASSUME NEW S, NEW a \in Seq(S), NEW b \in Seq(S)
    PROVE  TagsOf(a \o b) = TagsOf(a) \o TagsOf(b)
<1> DEFINE T == {TagOf(n) : n \in S}
           c == a \o b
           d == TagsOf(a) \o TagsOf(b)
<1>1. /\ c \in Seq(S) /\ Len(c) = Len(a) + Len(b) /\ Len(a) \in Nat /\ Len(b) \in Nat
      /\ DOMAIN a = 1..Len(a) /\ DOMAIN b = 1..Len(b) /\ DOMAIN c = 1..(Len(a) + Len(b))
      /\ \A i \in 1..Len(a) : c[i] = a[i]
      /\ \A i \in 1..Len(b) : c[Len(a) + i] = b[i]
  BY ConcatAt
<1>2. /\ TagsOf(a) \in Seq(T) /\ Len(TagsOf(a)) = Len(a) /\ \A i \in 1..Len(a) : TagsOf(a)[i] = TagOf(a[i])
      /\ TagsOf(b) \in Seq(T) /\ Len(TagsOf(b)) = Len(b) /\ \A i \in 1..Len(b) : TagsOf(b)[i] = TagOf(b[i])
  BY <1>1, TagsAre
<1> HIDE DEF c, T
<1>3. TagsOf(c) \in Seq(T) /\ Len(TagsOf(c)) = Len(a) + Len(b) /\ \A i \in 1..(Len(a) + Len(b)) : TagsOf(c)[i] = TagOf(c[i])
  BY <1>1, TagsAre DEF T
<1>4. /\ d \in Seq(T) /\ Len(d) = Len(a) + Len(b)
      /\ \A i \in 1..Len(a) : d[i] = TagsOf(a)[i]
      /\ \A i \in 1..Len(b) : d[Len(a) + i] = TagsOf(b)[i]
  <2>1. TagsOf(a) \in Seq(T) /\ TagsOf(b) \in Seq(T)
    BY <1>2
  <2>2. /\ d \in Seq(T) /\ Len(d) = Len(TagsOf(a)) + Len(TagsOf(b))
        /\ \A i \in 1..Len(TagsOf(a)) : d[i] = TagsOf(a)[i]
        /\ \A i \in 1..Len(TagsOf(b)) : d[Len(TagsOf(a)) + i] = TagsOf(b)[i]
    BY <2>1, TagsJoined
  <2> QED
    BY <1>2, <2>2
<1> HIDE DEF d
<1>5. ASSUME NEW i \in 1..(Len(a) + Len(b)) PROVE TagsOf(c)[i] = d[i]
  <2>1. CASE i \in 1..Len(a)
    BY <1>1, <1>2, <1>3, <1>4, <2>1
  <2>2. CASE i \notin 1..Len(a)
    <3>1. i - Len(a) \in 1..Len(b) /\ i = Len(a) + (i - Len(a))
      BY <1>1, <2>2
    <3> DEFINE k == i - Len(a)
    <3>2. c[i] = b[k] /\ d[i] = TagsOf(b)[k] /\ TagsOf(b)[k] = TagOf(b[k])
      BY <1>1, <1>2, <1>4, <3>1
    <3> QED
      BY <1>3, <3>2
  <2> QED
    BY <2>1, <2>2
<1>6. TagsOf(c) = d
  BY <1>3, <1>4, <1>5, SeqEqual
<1> QED
  BY <1>6 DEF c, d

\* A single node has a single tag.
LEMMA TagsOfOne == ASSUME NEW n PROVE TagsOf(<<n>>) = <<TagOf(n)>>
<1> DEFINE l == <<n>>
<1>1. DOMAIN l = 1..1 /\ l[1] = n
  OBVIOUS
<1> HIDE DEF l
<1>2. TagsOf(l) = [i \in 1..1 |-> TagOf(n)]
  <2>1. TagsOf(l) = [i \in 1..1 |-> TagOf(l[i])]
    BY <1>1, Zenon DEF TagsOf, TagOf
  <2>2. \A i \in 1..1 : l[i] = n
    BY <1>1
  <2> QED
    BY <2>1, <2>2
<1>3. \A t : [i \in 1..1 |-> t] = <<t>>
  OBVIOUS
<1> QED
  BY <1>2, <1>3 DEF l

\* No nodes have no tags.
LEMMA TagsOfNone == TagsOf(<<>>) = <<>>
BY DEF TagsOf

\* The tags of what is selected are selected.
LEMMA TagsFiltered ==
    ASSUME NEW S, NEW ns \in Seq(S), NEW P
    PROVE  TagsOf(Filtered(ns, P)) = Filtered(TagsOf(ns), P)
<1> DEFINE first(n) == SubSeq(ns, 1, n)
           Holds(m) == TagsOf(Filtered(m, P)) = Filtered(TagsOf(m), P)
           U == {n \in Nat : Holds(first(n))}
           TS == {TagOf(n) : n \in S}
<1>1. 0 \in U
  <2>1. first(0) = <<>>
    BY SubSeqEmpty
  <2>2. Holds(<<>>)
    BY TagsOfNone, FilteredEmpty
  <2> QED
    BY <2>1, <2>2
<1>2. ASSUME NEW n \in Nat, n \in U, n + 1 <= Len(ns) PROVE n + 1 \in U
  <2> DEFINE m == first(n)
             x == ns[n + 1]
             t == TagsOf(m)
             y == TagOf(x)
             f == Filtered(m, P)
  <2>1. /\ m \in Seq(S) /\ x \in S
        /\ first(n + 1) = Append(m, x)
    BY <1>2, PrefixNext
  <2>2. Holds(m)
    BY <1>2
  <2> HIDE DEF first, m, x
  <2>3. t \in Seq(TS) /\ y \in TS /\ Len(t) = Len(m)
    BY <2>1, TagsAre
  <2>4. f \in Seq(S)
    BY <2>1, FilteredType
  <2>5. TagsOf(f) = Filtered(t, P)
    BY <2>2
  <2>6. \A l \in Seq(S) : TagsOf(Append(l, x)) = Append(TagsOf(l), y)
    <3> SUFFICES ASSUME NEW l \in Seq(S) PROVE TagsOf(Append(l, x)) = Append(TagsOf(l), y)
      OBVIOUS
    <3> DEFINE z == <<x>>
    <3>1. Append(l, x) = l \o z /\ z \in Seq(S)
      BY <2>1
    <3>2. TagsOf(z) = <<y>>
      BY TagsOfOne
    <3>3. TagsOf(l) \in Seq(TS)
      BY TagsAre
    <3> HIDE DEF z
    <3>4. TagsOf(l \o z) = TagsOf(l) \o TagsOf(z)
      BY <3>1, TagsConcat
    <3> HIDE DEF y, TS
    <3>5. TagsOf(l) \o <<y>> = Append(TagsOf(l), y)
      BY <2>3, <3>3
    <3> QED
      BY <3>1, <3>2, <3>4, <3>5
  <2> HIDE DEF TS, t, y, f
  <2>7. Filtered(Append(m, x), P) = IF Len(m) + 1 \in P THEN Append(f, x) ELSE f
    BY <2>1, FilteredAppend DEF f
  <2>8. Filtered(Append(t, y), P) = IF Len(t) + 1 \in P THEN Append(Filtered(t, P), y) ELSE Filtered(t, P)
    BY <2>3, FilteredAppend
  <2>9. TagsOf(Append(m, x)) = Append(t, y)
    BY <2>1, <2>6 DEF t
  <2>10. TagsOf(Append(f, x)) = Append(TagsOf(f), y)
    BY <2>4, <2>6
  <2>11. Holds(first(n + 1))
    BY <2>1, <2>3, <2>5, <2>7, <2>8, <2>9, <2>10
  <2> QED
    BY <2>11
<1>3. Len(ns) \in U
  <2>1. IsPrefixes(U, ns)
    BY <1>1, <1>2 DEF IsPrefixes
  <2> HIDE DEF U
  <2> QED
    BY <2>1, AllPrefixes
<1>4. first(Len(ns)) = ns
  BY SubSeqFull
<1>5. Holds(ns)
  BY <1>3, <1>4
<1> QED
  BY <1>5

\* Nodes that are put together are nodes.
LEMMA NodesJoined ==
    ASSUME NEW a, NEW b, AreNodes(a), AreNodes(b)
    PROVE  AreNodes(a \o b) /\ TagsOf(a \o b) = TagsOf(a) \o TagsOf(b)
<1>1. PICK S : a \in Seq(S) /\ \A n \in S : IsNode(n)
  BY DEF AreNodes
<1>2. PICK R : b \in Seq(R) /\ \A n \in R : IsNode(n)
  BY DEF AreNodes
<1> DEFINE U == S \cup R
<1>3. a \in Seq(U) /\ b \in Seq(U)
  BY <1>1, <1>2
<1>4. \A n \in U : IsNode(n)
  BY <1>1, <1>2
<1> HIDE DEF U
<1>5. a \o b \in Seq(U)
  BY <1>3
<1> QED
  BY <1>3, <1>4, <1>5, TagsConcat DEF AreNodes

\* An empty list is a list of nodes.
LEMMA NoNodes == AreNodes(<<>>)
<1> DEFINE S == {}
<1>1. <<>> \in Seq(S) /\ \A n \in S : IsNode(n)
  OBVIOUS
<1> HIDE DEF S
<1> QED
  BY <1>1 DEF AreNodes

\* A single node is a list of nodes.
LEMMA OneNode == ASSUME NEW n, IsNode(n) PROVE AreNodes(<<n>>)
<1> DEFINE S == {n}
<1>1. <<n>> \in Seq(S) /\ \A m \in S : IsNode(m)
  OBVIOUS
<1> HIDE DEF S
<1> QED
  BY <1>1 DEF AreNodes

\* Parsing gives a node its group and nothing else.
LEMMA ProxyIs ==
    ASSUME NEW e, IsNode(e)
    PROVE  IsNode(Proxy(e)) /\ TagOf(Proxy(e)) = TagOf(e)
<1>1. /\ DOMAIN Proxy(e) = DOMAIN e
      /\ Proxy(e).id = e.id /\ Proxy(e).type = e.type /\ Proxy(e).remark = e.remark
  BY DEF Proxy, IsNode
<1> HIDE DEF Proxy
<1> QED
  BY <1>1 DEF IsNode, TagOf

\* Nor does it lose one of several, or put them in another order.
LEMMA ProxiesAre ==
    ASSUME NEW ns, AreNodes(ns), NEW f, f = [i \in DOMAIN ns |-> Proxy(ns[i])]
    PROVE  AreNodes(f) /\ TagsOf(f) = TagsOf(ns) /\ (f = <<>> <=> ns = <<>>)
<1>1. PICK S : ns \in Seq(S) /\ \A n \in S : IsNode(n)
  BY DEF AreNodes
<1> DEFINE R == {Proxy(n) : n \in S}
<1>2. DOMAIN ns = 1..Len(ns) /\ Len(ns) \in Nat /\ \A i \in 1..Len(ns) : ns[i] \in S
  BY <1>1
<1>3. /\ \A i \in 1..Len(ns) : Proxy(ns[i]) \in R
      /\ \A n \in R : IsNode(n)
  BY <1>1, <1>2, ProxyIs
<1> HIDE DEF R
<1>4. f \in [1..Len(ns) -> R] /\ \A i \in 1..Len(ns) : f[i] = Proxy(ns[i])
  BY <1>2, <1>3
<1>5. f \in Seq(R) /\ Len(f) = Len(ns) /\ DOMAIN f = 1..Len(ns)
  BY <1>2, <1>4
<1>6. AreNodes(f)
  BY <1>3, <1>5 DEF AreNodes
<1>7. \A i \in 1..Len(ns) : TagOf(f[i]) = TagOf(ns[i])
  BY <1>1, <1>2, <1>4, ProxyIs
<1>8. TagsOf(f) = TagsOf(ns)
  <2>1. TagsOf(f) = [i \in 1..Len(ns) |-> TagOf(f[i])]
    BY <1>5, Zenon DEF TagsOf, TagOf
  <2>2. TagsOf(ns) = [i \in 1..Len(ns) |-> TagOf(ns[i])]
    BY <1>2, Zenon DEF TagsOf, TagOf
  <2> QED
    BY <1>7, <2>1, <2>2
<1>9. f = <<>> <=> ns = <<>>
  BY <1>1, <1>5
<1> QED
  BY <1>6, <1>8, <1>9

-----------------------------------------------------------------------------
\* What there is to be read, and what it holds.
WorkItem ==
    [kind : {"text"}, text : DOMAIN Reading]
        \cup {item \in SourceItem : item.kind = "link" /\ item.valid => TypeWord(item.node.type) \in Word}
Held(work) == FlattenSeq([i \in DOMAIN work |-> NodesAt(work[i], Reading)])
TextsHold(texts) == FlattenSeq([i \in DOMAIN texts |-> Reading[texts[i]]])

\* A function over the places of a list is a list.
LEMMA MappedSeq ==
    ASSUME NEW S, NEW s \in Seq(S), NEW T, NEW f, DOMAIN f = DOMAIN s, \A i \in DOMAIN s : f[i] \in T,
           f = [i \in DOMAIN s |-> f[i]]
    PROVE  f \in Seq(T) /\ Len(f) = Len(s)
<1>1. DOMAIN s = 1..Len(s) /\ Len(s) \in Nat
  OBVIOUS
<1>2. f \in [1..Len(s) -> T]
  BY <1>1
<1> QED
  BY <1>1, <1>2

\* Texts hold what nodes are known by.
LEMMA TextsHoldTags ==
    ASSUME NEW texts \in Seq(DOMAIN Reading)
    PROVE  /\ [i \in DOMAIN texts |-> Reading[texts[i]]] \in Seq(Seq(Tag))
           /\ TextsHold(texts) \in Seq(Tag)
<1> DEFINE f == [i \in DOMAIN texts |-> Reading[texts[i]]]
           ST == Seq(Tag)
<1>1. Reading \in [DOMAIN Reading -> ST]
  BY ReadingIs
<1> HIDE DEF ST
<1>2. \A i \in DOMAIN texts : f[i] \in ST
  BY <1>1
<1>3. DOMAIN f = DOMAIN texts /\ f = [i \in DOMAIN texts |-> f[i]]
  OBVIOUS
<1> HIDE DEF f
<1>4. f \in Seq(ST)
  BY <1>2, <1>3, MappedSeq
<1>5. FlattenSeq(f) \in Seq(Tag)
  BY <1>4, FlattenType DEF ST
<1> QED
  BY <1>4, <1>5 DEF TextsHold, f, ST

\* So does an item of work...
LEMMA NodesAtType ==
    ASSUME NEW item \in WorkItem
    PROVE  NodesAt(item, Reading) \in Seq(Tag)
<1>1. CASE item.kind = "text"
  <2>1. item.text \in DOMAIN Reading
    BY <1>1 DEF WorkItem, SourceItem
  <2> DEFINE ST == Seq(Tag)
  <2>2. Reading \in [DOMAIN Reading -> ST]
    BY ReadingIs
  <2> HIDE DEF ST
  <2>3. Reading[item.text] \in ST
    BY <2>1, <2>2
  <2>4. NodesAt(item, Reading) = Reading[item.text]
    BY <1>1 DEF NodesAt
  <2> QED
    BY <2>3, <2>4 DEF ST
<1>2. CASE item.kind = "link" /\ item.valid
  <2>1. item.node \in SourceEntry
    BY <1>2 DEF WorkItem, SourceItem
  <2>2. TagOf(item.node) \in Tag
    BY <2>1 DEF TagOf, Tag, SourceEntry
  <2>3. NodesAt(item, Reading) = <<TagOf(item.node)>>
    BY <1>2, TagsOfOne DEF NodesAt
  <2> QED
    BY <2>2, <2>3
<1>3. CASE item.kind = "link" /\ ~item.valid
  <2>1. NodesAt(item, Reading) = <<[read |-> FALSE]>>
    BY <1>3 DEF NodesAt
  <2>2. [read |-> FALSE] \in Tag
    BY DEF Tag
  <2> QED
    BY <2>1, <2>2
<1>4. CASE item.kind = "other"
  <2>1. item.decoded \in Seq(DOMAIN Reading)
    BY <1>4 DEF WorkItem, SourceItem
  <2>2. NodesAt(item, Reading) = TextsHold(item.decoded)
    BY <1>4 DEF NodesAt, TextsHold
  <2> QED
    BY <2>1, <2>2, TextsHoldTags
<1>5. item.kind \in {"text", "link", "other"} /\ (item.kind = "link" => item.valid \in BOOLEAN)
  BY DEF WorkItem, SourceItem
<1> QED
  BY <1>1, <1>2, <1>3, <1>4, <1>5

HeldBy(work) == [i \in DOMAIN work |-> NodesAt(work[i], Reading)]

\* ...and so do all of them.
LEMMA HeldType ==
    ASSUME NEW work \in Seq(WorkItem)
    PROVE  /\ HeldBy(work) \in Seq(Seq(Tag)) /\ Len(HeldBy(work)) = Len(work)
           /\ Held(work) \in Seq(Tag)
<1> DEFINE ST == Seq(Tag)
           f == HeldBy(work)
<1>1. \A i \in DOMAIN work : f[i] \in ST
  BY NodesAtType DEF HeldBy
<1>2. DOMAIN f = DOMAIN work /\ f = [i \in DOMAIN work |-> f[i]]
  BY DEF HeldBy
<1> HIDE DEF f, ST
<1>3. f \in Seq(ST) /\ Len(f) = Len(work)
  BY <1>1, <1>2, MappedSeq
<1>4. FlattenSeq(f) \in Seq(Tag)
  BY <1>3, FlattenType DEF ST
<1> QED
  BY <1>3, <1>4 DEF f, ST, Held, HeldBy

\* One piece of work after another.
LEMMA HeldConcat ==
    ASSUME NEW a \in Seq(WorkItem), NEW b \in Seq(WorkItem)
    PROVE  Held(a \o b) = Held(a) \o Held(b)
<1> DEFINE c == a \o b
           f == HeldBy(a)
           g == HeldBy(b)
           h == HeldBy(c)
           ST == Seq(Tag)
<1>1. /\ c \in Seq(WorkItem) /\ Len(c) = Len(a) + Len(b) /\ Len(a) \in Nat /\ Len(b) \in Nat
      /\ DOMAIN a = 1..Len(a) /\ DOMAIN b = 1..Len(b) /\ DOMAIN c = 1..(Len(a) + Len(b))
      /\ \A i \in 1..Len(a) : c[i] = a[i]
      /\ \A i \in 1..Len(b) : c[Len(a) + i] = b[i]
  BY ConcatAt
<1> HIDE DEF c
<1>2. /\ f \in Seq(ST) /\ Len(f) = Len(a) /\ g \in Seq(ST) /\ Len(g) = Len(b)
      /\ h \in Seq(ST) /\ Len(h) = Len(a) + Len(b)
  BY <1>1, HeldType
<1>3. /\ \A i \in 1..Len(a) : f[i] = NodesAt(a[i], Reading)
      /\ \A i \in 1..Len(b) : g[i] = NodesAt(b[i], Reading)
      /\ \A i \in 1..(Len(a) + Len(b)) : h[i] = NodesAt(c[i], Reading)
  BY <1>1 DEF HeldBy
<1> HIDE DEF f, g, h, ST
<1>4. /\ f \o g \in Seq(ST) /\ Len(f \o g) = Len(a) + Len(b)
      /\ \A i \in 1..Len(a) : (f \o g)[i] = f[i]
      /\ \A i \in 1..Len(b) : (f \o g)[Len(a) + i] = g[i]
  <2>1. f \in Seq(ST) /\ g \in Seq(ST)
    BY <1>2
  <2>2. /\ f \o g \in Seq(ST) /\ Len(f \o g) = Len(f) + Len(g)
        /\ \A i \in 1..Len(f) : (f \o g)[i] = f[i]
        /\ \A i \in 1..Len(g) : (f \o g)[Len(f) + i] = g[i]
    BY <2>1, TagsJoined
  <2> QED
    BY <1>2, <2>2
<1>5. ASSUME NEW i \in 1..(Len(a) + Len(b)) PROVE h[i] = (f \o g)[i]
  <2>1. CASE i \in 1..Len(a)
    BY <1>1, <1>3, <1>4, <2>1
  <2>2. CASE i \notin 1..Len(a)
    <3>1. i - Len(a) \in 1..Len(b) /\ i = Len(a) + (i - Len(a))
      BY <1>1, <2>2
    <3> DEFINE k == i - Len(a)
    <3>2. c[i] = b[k] /\ (f \o g)[i] = g[k] /\ g[k] = NodesAt(b[k], Reading)
      BY <1>1, <1>3, <1>4, <3>1
    <3> QED
      BY <1>3, <3>2
  <2> QED
    BY <2>1, <2>2
<1>6. h = f \o g
  BY <1>2, <1>4, <1>5, SeqEqual
<1>7. FlattenSeq(f \o g) = FlattenSeq(f) \o FlattenSeq(g)
  BY <1>2, FlattenConcat DEF ST
<1> QED
  BY <1>6, <1>7 DEF Held, HeldBy, f, g, h, c

\* A single item holds what it holds.
LEMMA HeldOne ==
    ASSUME NEW item \in WorkItem
    PROVE  Held(<<item>>) = NodesAt(item, Reading)
<1> DEFINE l == <<item>>
           t == NodesAt(item, Reading)
<1>1. DOMAIN l = 1..1 /\ l[1] = item
  OBVIOUS
<1> HIDE DEF l
<1>2. HeldBy(l) = [i \in 1..1 |-> NodesAt(l[i], Reading)]
  BY <1>1, Zenon DEF HeldBy
<1>3. \A i \in 1..1 : NodesAt(l[i], Reading) = t
  BY <1>1
<1>4. t \in Seq(Tag)
  BY NodesAtType
<1> HIDE DEF t
<1>5. HeldBy(l) = [i \in 1..1 |-> t]
  BY <1>2, <1>3
<1>6. HeldBy(l) = <<t>>
  BY <1>5
<1>7. FlattenSeq(<<t>>) = t
  BY <1>4, FlattenOne
<1> QED
  BY <1>6, <1>7 DEF Held, HeldBy, l, t

\* No work holds no nodes.
LEMMA HeldNone == Held(<<>>) = <<>>
<1>1. HeldBy(<<>>) = <<>>
  BY DEF HeldBy
<1> QED
  BY <1>1, FlattenEmpty DEF Held, HeldBy

\* Work that is made of texts holds what these hold.
LEMMA HeldTexts ==
    ASSUME NEW texts \in Seq(DOMAIN Reading)
    PROVE  Texts(texts) \in Seq(WorkItem) /\ Held(Texts(texts)) = TextsHold(texts)
<1> DEFINE w == Texts(texts)
<1>1. /\ DOMAIN w = DOMAIN texts
      /\ \A i \in DOMAIN texts : w[i] = [kind |-> "text", text |-> texts[i]]
      /\ w = [i \in DOMAIN texts |-> w[i]]
  BY DEF Texts
<1>2. \A i \in DOMAIN texts : w[i] \in WorkItem /\ NodesAt(w[i], Reading) = Reading[texts[i]]
  <2> SUFFICES ASSUME NEW i \in DOMAIN texts
               PROVE  w[i] \in WorkItem /\ NodesAt(w[i], Reading) = Reading[texts[i]]
    OBVIOUS
  <2>1. texts[i] \in DOMAIN Reading
    OBVIOUS
  <2> HIDE DEF w
  <2>2. w[i] = [kind |-> "text", text |-> texts[i]]
    BY <1>1
  <2>3. w[i] \in WorkItem
    BY <2>1, <2>2 DEF WorkItem
  <2>4. w[i].kind = "text" /\ w[i].text = texts[i]
    BY <2>2
  <2>5. NodesAt(w[i], Reading) = Reading[texts[i]]
    BY <2>4 DEF NodesAt
  <2> QED
    BY <2>3, <2>5
<1> HIDE DEF w
<1>3. w \in Seq(WorkItem)
  BY <1>1, <1>2, MappedSeq
<1>4. HeldBy(w) = [i \in DOMAIN texts |-> Reading[texts[i]]]
  BY <1>1, <1>2 DEF HeldBy
<1> QED
  BY <1>3, <1>4 DEF Held, HeldBy, TextsHold, w

\* Entries whose type can stand before a name.
Entries == {e \in SourceEntry : TypeWord(e.type) \in Word}

\* They are nodes.
LEMMA EntriesAreNodes == \A e \in Entries : IsNode(e)
BY DEF Entries, SourceEntry, IsNode

\* A text is what it is read as.
LEMMA YamlRead ==
    ASSUME NEW text \in DOMAIN Reading
    PROVE  LET known == Filtered(text.yaml, {i \in DOMAIN text.yaml : text.yaml[i].type \in YamlTypes})
           IN  /\ AreNodes(YamlNodes(text)) /\ TagsOf(YamlNodes(text)) = TagsOf(known)
               /\ YamlNodes(text) = <<>> <=> known = <<>>
<1> DEFINE P == {i \in DOMAIN text.yaml : text.yaml[i].type \in YamlTypes}
           known == Filtered(text.yaml, P)
<1>1. text.yaml \in Seq(SourceEntry)
  BY TextsAreTyped DEF SourceText
<1>2. \A i \in DOMAIN text.yaml : TypeWord(text.yaml[i].type) \in Word
  BY WordsAreKnown
<1>3. text.yaml \in Seq(Entries)
  <2>1. \A i \in 1..Len(text.yaml) : text.yaml[i] \in Entries
    BY <1>1, <1>2 DEF Entries
  <2> QED
    BY <1>1, <2>1
<1>4. YamlNodes(text) = [i \in DOMAIN known |-> Proxy(known[i])]
  BY DEF YamlNodes
<1> HIDE DEF P
<1>5. known \in Seq(Entries)
  BY <1>3, FilteredType
<1> HIDE DEF known
<1>6. AreNodes(known)
  BY <1>5, EntriesAreNodes DEF AreNodes
<1>7. /\ AreNodes(YamlNodes(text)) /\ TagsOf(YamlNodes(text)) = TagsOf(known)
      /\ YamlNodes(text) = <<>> <=> known = <<>>
  BY <1>4, <1>6, ProxiesAre
<1> QED
  BY <1>7 DEF known, P

\* The same of a JSON subscription.
LEMMA JsonRead ==
    ASSUME NEW text \in DOMAIN Reading
    PROVE  /\ AreNodes(JsonNodes(text))
           /\ TagsOf(JsonNodes(text)) = TagsOf([i \in DOMAIN text.json |-> [text.json[i] EXCEPT !.type = "SS"]])
<1> DEFINE ns == [i \in DOMAIN text.json |-> [text.json[i] EXCEPT !.type = "SS"]]
           S == {[e EXCEPT !.type = "SS"] : e \in SourceEntry}
<1>1. text.json \in Seq(SourceEntry)
  BY TextsAreTyped DEF SourceText
<1>2. \A n \in S : IsNode(n)
  <2> SUFFICES ASSUME NEW e \in SourceEntry PROVE IsNode([e EXCEPT !.type = "SS"])
    OBVIOUS
  <2> DEFINE n == [e EXCEPT !.type = "SS"]
  <2>1. DOMAIN e = {"id", "type", "group", "remark", "port", "age"} /\ e.remark \in Remark
    BY DEF SourceEntry
  <2>2. DOMAIN n = DOMAIN e /\ n.remark = e.remark /\ n.type = "SS"
    BY <2>1
  <2> HIDE DEF n
  <2>3. IsNode(n)
    BY <2>1, <2>2, WordsAreKnown DEF IsNode
  <2> QED
    BY <2>3 DEF n
<1>3. \A i \in DOMAIN text.json : ns[i] \in S
  <2>1. \A i \in DOMAIN text.json : text.json[i] \in SourceEntry
    BY <1>1
  <2> HIDE DEF S
  <2>2. \A e \in SourceEntry : [e EXCEPT !.type = "SS"] \in S
    BY DEF S
  <2> QED
    BY <2>1, <2>2
<1>4. DOMAIN ns = DOMAIN text.json /\ ns = [i \in DOMAIN text.json |-> ns[i]]
  OBVIOUS
<1> HIDE DEF S
<1>5. JsonNodes(text) = [i \in DOMAIN ns |-> Proxy(ns[i])]
  BY DEF JsonNodes
<1> HIDE DEF ns
<1>6. ns \in Seq(S)
  BY <1>1, <1>3, <1>4, MappedSeq
<1>7. AreNodes(ns)
  BY <1>2, <1>6 DEF AreNodes
<1>8. AreNodes(JsonNodes(text)) /\ TagsOf(JsonNodes(text)) = TagsOf(ns)
  BY <1>5, <1>7, ProxiesAre
<1> QED
  BY <1>8 DEF ns

\* A text gives nodes or the work of reading its items, and these are what it holds.
LEMMA TextRead ==
    ASSUME NEW text \in DOMAIN Reading
    PROVE  /\ YamlNodes(text) # <<>> =>
                 AreNodes(YamlNodes(text)) /\ TagsOf(YamlNodes(text)) = Reading[text]
           /\ YamlNodes(text) = <<>> /\ text.json # <<>> =>
                 AreNodes(JsonNodes(text)) /\ TagsOf(JsonNodes(text)) = Reading[text]
           /\ YamlNodes(text) = <<>> /\ text.json = <<>> =>
                 text.items \in Seq(WorkItem) /\ Held(text.items) = Reading[text]
<1> DEFINE known == Filtered(text.yaml, {i \in DOMAIN text.yaml : text.yaml[i].type \in YamlTypes})
           json == [i \in DOMAIN text.json |-> [text.json[i] EXCEPT !.type = "SS"]]
<1>1. /\ AreNodes(YamlNodes(text)) /\ TagsOf(YamlNodes(text)) = TagsOf(known)
      /\ YamlNodes(text) = <<>> <=> known = <<>>
  BY YamlRead
<1>2. AreNodes(JsonNodes(text)) /\ TagsOf(JsonNodes(text)) = TagsOf(json)
  BY JsonRead
<1>3. Reading[text] = IF known # <<>> THEN TagsOf(known) ELSE IF text.json # <<>> THEN TagsOf(json)
                      ELSE Held(text.items)
  BY ReadingIs, Zenon DEF NodesWith, Held
<1>4. text.items \in Seq(WorkItem)
  <2> DEFINE items == text.items
  <2>1. items \in Seq(SourceItem)
    BY TextsAreTyped DEF SourceText
  <2>2. \A i \in DOMAIN items : items[i].kind = "link" /\ items[i].valid => TypeWord(items[i].node.type) \in Word
    BY WordsAreKnown
  <2>3. \A i \in DOMAIN items : items[i] \in SourceItem
    BY <2>1
  <2>4. \A i \in DOMAIN items : items[i] \in WorkItem
    BY <2>2, <2>3 DEF WorkItem
  <2> HIDE DEF items
  <2>5. items \in Seq(WorkItem)
    BY <2>1, <2>4
  <2> QED
    BY <2>5 DEF items
<1> HIDE DEF known, json
<1> QED
  BY <1>1, <1>2, <1>3, <1>4

-----------------------------------------------------------------------------
\* While sources are read: the nodes that were found and what the rest holds are what
\* the sources hold.
Parsing ==
    stage = "parse" =>
        /\ AreNodes(nodes) /\ done = <<>> /\ todo \in Seq(WorkItem)
        /\ TagsOf(nodes) \o Held(todo) = InSources

\* The sources hold what the texts in them hold.
LEMMA InSourcesType == ASSUME job \in Jobs PROVE InSources \in Seq(Tag) /\ InSources = TextsHold(job.sources)
BY TextsAreTyped, TextsHoldTags DEF InSources, TextsHold

\* The first item gives way to what was found in it and the work it brings.
LEMMA ReadKeeps ==
    ASSUME Parsing, stage = "parse", todo # <<>>, NEW found, AreNodes(found), NEW work \in Seq(WorkItem),
           TagsOf(found) \o Held(work) = NodesAt(Head(todo), Reading), Read(found, work)
    PROVE  Parsing'
<1> DEFINE h == Head(todo)
           t == Tail(todo)
           T == Seq(Tag)
           a == TagsOf(nodes)
           b == TagsOf(found)
           c == Held(work)
           d == Held(t)
<1>1. todo \in Seq(WorkItem) /\ AreNodes(nodes) /\ a \o Held(todo) = InSources
  BY DEF Parsing
<1>2. h \in WorkItem /\ t \in Seq(WorkItem) /\ todo = <<h>> \o t /\ <<h>> \in Seq(WorkItem)
  BY <1>1
<1>3. /\ nodes' = nodes \o found /\ todo' = work \o t /\ stage' = stage /\ done' = done /\ job' = job
  BY DEF Read, WorkFirst
<1> HIDE DEF h, t
<1>4. AreNodes(nodes') /\ TagsOf(nodes') = a \o b
  BY <1>1, <1>3, NodesJoined
<1>5. todo' \in Seq(WorkItem)
  BY <1>2, <1>3
<1>6. Held(todo') = c \o d
  BY <1>2, <1>3, HeldConcat
<1>7. Held(todo) = (b \o c) \o d
  <2>1. Held(todo) = Held(<<h>>) \o d
    BY <1>2, HeldConcat
  <2>2. Held(<<h>>) = NodesAt(h, Reading)
    BY <1>2, HeldOne
  <2> QED
    BY <2>1, <2>2 DEF h
<1>8. (a \o b) \o (c \o d) = a \o ((b \o c) \o d)
  <2>1. c \in Seq(Tag) /\ d \in Seq(Tag)
    BY <1>2, HeldType
  <2>2. \A ns : AreNodes(ns) => \E S : TagsOf(ns) \in Seq(S)
    BY TagsAre DEF AreNodes
  <2>3. PICK S : a \in Seq(S)
    BY <1>1, <2>2
  <2>4. PICK R : b \in Seq(R)
    BY <2>2
  <2> DEFINE U == (S \cup R) \cup Tag
  <2>5. a \in Seq(U) /\ b \in Seq(U) /\ c \in Seq(U) /\ d \in Seq(U)
    <3>1. \A V, W, s : s \in Seq(V) /\ V \subseteq W => s \in Seq(W)
      OBVIOUS
    <3>2. S \subseteq U /\ R \subseteq U /\ Tag \subseteq U
      OBVIOUS
    <3> HIDE DEF a, b, c, d, U
    <3> QED
      BY <2>1, <2>3, <2>4, <3>1, <3>2, Zenon
  <2> HIDE DEF U, a, b, c, d
  <2>6. IsTriple(U, b, c, d)
    BY <2>5 DEF IsTriple
  <2>7. c \o d \in Seq(U) /\ (b \o c) \o d = b \o (c \o d)
    <3>1. c \o d \in Seq(U)
      BY <2>5, ConcatAt
    <3>2. (b \o c) \o d = b \o (c \o d)
      BY <2>6, ConcatThree
    <3> QED
      BY <3>1, <3>2
  <2>8. IsTriple(U, a, b, c \o d)
    BY <2>5, <2>7 DEF IsTriple
  <2>9. (a \o b) \o (c \o d) = a \o (b \o (c \o d))
    BY <2>8, ConcatThree
  <2> QED
    BY <2>7, <2>9, Zenon
<1> HIDE DEF a, b, c, d
<1>9. InSources' = InSources
  BY <1>3 DEF InSources
<1>10. TagsOf(nodes') \o Held(todo') = InSources
  BY <1>1, <1>4, <1>6, <1>7, <1>8
<1>11. done' = <<>>
  BY <1>3 DEF Parsing
<1> QED
  BY <1>4, <1>5, <1>9, <1>10, <1>11 DEF Parsing

\* Lists of whatever.
IsList(ns) == \E S : ns \in Seq(S)

\* Lists of nodes are lists.
LEMMA NodesAreList == ASSUME NEW ns, AreNodes(ns) PROVE IsList(ns)
BY DEF AreNodes, IsList

\* The tags of a list are a list of the same length.
LEMMA ListTags == ASSUME NEW ns, IsList(ns) PROVE IsList(TagsOf(ns)) /\ Len(TagsOf(ns)) = Len(ns)
BY TagsAre DEF IsList

\* Two lists put together...
LEMMA ListsJoined ==
    ASSUME NEW a, NEW b, IsList(a), IsList(b)
    PROVE  IsList(a \o b) /\ TagsOf(a \o b) = TagsOf(a) \o TagsOf(b)
<1>1. PICK S : a \in Seq(S)
  BY DEF IsList
<1>2. PICK R : b \in Seq(R)
  BY DEF IsList
<1> DEFINE U == S \cup R
<1>3. a \in Seq(U) /\ b \in Seq(U)
  BY <1>1, <1>2
<1> HIDE DEF U
<1>4. a \o b \in Seq(U)
  BY <1>3
<1> QED
  BY <1>3, <1>4, TagsConcat DEF IsList

\* ...and three.
LEMMA ListsThree ==
    ASSUME NEW a, NEW b, NEW c, IsList(a), IsList(b), IsList(c)
    PROVE  (a \o b) \o c = a \o (b \o c)
<1>1. PICK S : a \in Seq(S)
  BY DEF IsList
<1>2. PICK R : b \in Seq(R)
  BY DEF IsList
<1>3. PICK Q : c \in Seq(Q)
  BY DEF IsList
<1> DEFINE U == S \cup R \cup Q
<1>4. a \in Seq(U) /\ b \in Seq(U) /\ c \in Seq(U)
  BY <1>1, <1>2, <1>3
<1> HIDE DEF U
<1>5. IsTriple(U, a, b, c)
  BY <1>4 DEF IsTriple
<1> QED
  BY <1>5, ConcatThree

AreTagged(a, b, c) ==
    /\ TagsOf((a \o b) \o c) = TagsOf(a) \o (TagsOf(b) \o TagsOf(c))
    /\ TagsOf(a \o (b \o c)) = TagsOf(a) \o (TagsOf(b) \o TagsOf(c))

\* Three lists are tagged like their parts, whichever two are put together first.
LEMMA TagsOfThree ==
    ASSUME NEW a, NEW b, NEW c, IsList(a), IsList(b), IsList(c)
    PROVE  AreTagged(a, b, c)
<1> DEFINE z == b \o c
<1>1. IsList(z) /\ TagsOf(z) = TagsOf(b) \o TagsOf(c) /\ (a \o b) \o c = a \o z
  BY ListsJoined, ListsThree, SMTT(30)
<1> HIDE DEF z
<1>2. TagsOf(a \o z) = TagsOf(a) \o TagsOf(z)
  BY <1>1, ListsJoined
<1> QED
  BY <1>1, <1>2, Zenon DEF z, AreTagged

\* A single element is a list.
LEMMA OneIsList == ASSUME NEW n PROVE IsList(<<n>>)
<1> DEFINE S == {n}
<1>1. <<n>> \in Seq(S)
  OBVIOUS
<1> HIDE DEF S
<1> QED
  BY <1>1 DEF IsList

\* So is none, which adds nothing to others.
LEMMA EmptyIsList == IsList(<<>>) /\ \A ns : IsList(ns) => <<>> \o ns = ns /\ ns \o <<>> = ns
<1> DEFINE S == {}
<1>1. <<>> \in Seq(S)
  OBVIOUS
<1> HIDE DEF S
<1>2. \A ns : IsList(ns) => <<>> \o ns = ns /\ ns \o <<>> = ns
  BY ConcatEmptySeq DEF IsList
<1> QED
  BY <1>1, <1>2 DEF IsList

\* The first node of a list and the others.
LEMMA FirstNode ==
    ASSUME NEW ns, IsList(ns), ns # <<>>
    PROVE  IsList(Tail(ns)) /\ ns = <<Head(ns)>> \o Tail(ns)
<1>1. PICK S : ns \in Seq(S)
  BY DEF IsList
<1>2. Tail(ns) \in Seq(S) /\ ns = <<Head(ns)>> \o Tail(ns)
  BY <1>1
<1> QED
  BY <1>2 DEF IsList

\* In a list of nodes each of both is one.
LEMMA FirstIsNode ==
    ASSUME NEW ns, AreNodes(ns), ns # <<>>
    PROVE  IsNode(Head(ns)) /\ AreNodes(Tail(ns))
<1>1. PICK S : ns \in Seq(S) /\ \A n \in S : IsNode(n)
  BY DEF AreNodes
<1>2. Tail(ns) \in Seq(S) /\ Head(ns) \in S
  BY <1>1
<1> QED
  BY <1>1, <1>2 DEF AreNodes

\* One more at the end.
LEMMA AppendedList ==
    ASSUME NEW d, IsList(d), NEW n
    PROVE  IsList(Append(d, n)) /\ Append(d, n) = d \o <<n>> /\ Len(Append(d, n)) = Len(d) + 1
           /\ Len(d) \in Nat
<1>1. PICK S : d \in Seq(S)
  BY DEF IsList
<1> DEFINE U == S \cup {n}
<1>2. d \in Seq(U) /\ n \in U
  BY <1>1
<1> HIDE DEF U
<1>3. Append(d, n) \in Seq(U) /\ Append(d, n) = d \o <<n>> /\ Len(Append(d, n)) = Len(d) + 1 /\ Len(d) \in Nat
  BY <1>2
<1> QED
  BY <1>3 DEF IsList

\* The first node passes from the one list to the other, and is known by the same.
LEMMA Passes ==
    ASSUME NEW d, IsList(d), NEW ns, IsList(ns), ns # <<>>, NEW n, TagOf(n) = TagOf(Head(ns))
    PROVE  /\ IsList(Append(d, n)) /\ IsList(Tail(ns))
           /\ TagsOf(Append(d, n) \o Tail(ns)) = TagsOf(d \o ns)
<1> DEFINE y == <<n>>
           x == <<Head(ns)>>
           t == Tail(ns)
<1>1. IsList(t) /\ ns = x \o t
  BY FirstNode
<1>2. IsList(Append(d, n)) /\ Append(d, n) = d \o y
  BY AppendedList
<1>3. IsList(x) /\ IsList(y)
  BY OneIsList
<1>4. TagsOf(x) = TagsOf(y)
  BY TagsOfOne
<1> HIDE DEF x, y, t
<1>5. AreTagged(d, y, t) /\ AreTagged(d, x, t)
  BY <1>1, <1>3, TagsOfThree
<1> QED
  BY <1>1, <1>2, <1>4, <1>5, Zenon DEF t, AreTagged

\* It stays, changed.
LEMMA Rewritten ==
    ASSUME NEW d, IsList(d), NEW ns, IsList(ns), ns # <<>>, NEW n, TagOf(n) = TagOf(Head(ns))
    PROVE  TagsOf(d \o (<<n>> \o Tail(ns))) = TagsOf(d \o ns)
<1> DEFINE y == <<n>>
           x == <<Head(ns)>>
           t == Tail(ns)
<1>1. IsList(t) /\ ns = x \o t
  BY FirstNode
<1>2. IsList(x) /\ IsList(y)
  BY OneIsList
<1>3. TagsOf(x) = TagsOf(y)
  BY TagsOfOne
<1> HIDE DEF x, y, t
<1>4. AreTagged(d, y, t) /\ AreTagged(d, x, t)
  BY <1>1, <1>2, TagsOfThree
<1> QED
  BY <1>1, <1>3, <1>4, Zenon DEF y, t, AreTagged

\* It goes.
LEMMA Dropped ==
    ASSUME NEW d, IsList(d), NEW ns, IsList(ns), ns # <<>>
    PROVE  TagsOf(d \o Tail(ns)) \in Sub(TagsOf(d \o ns))
<1> DEFINE x == <<Head(ns)>>
           t == Tail(ns)
           g == TagOf(Head(ns))
<1>1. IsList(t) /\ ns = x \o t
  BY FirstNode
<1>2. IsList(x) /\ TagsOf(x) = <<g>>
  BY OneIsList, TagsOfOne
<1> HIDE DEF x, t, g
<1>3. TagsOf(d \o t) = TagsOf(d) \o TagsOf(t)
  BY <1>1, ListsJoined
<1>4. TagsOf(d \o (x \o t)) = TagsOf(d) \o (<<g>> \o TagsOf(t))
  <2>1. AreTagged(d, x, t)
    BY <1>1, <1>2, TagsOfThree
  <2> QED
    BY <1>2, <2>1, Zenon DEF AreTagged
<1>5. PICK S : TagsOf(d) \in Seq(S)
  BY ListTags DEF IsList
<1>6. PICK R : TagsOf(t) \in Seq(R)
  BY <1>1, ListTags DEF IsList
<1> DEFINE U == S \cup R \cup {g}
<1>7. TagsOf(d) \in Seq(U) /\ TagsOf(t) \in Seq(U) /\ g \in U
  BY <1>5, <1>6
<1> HIDE DEF U
<1>8. TagsOf(d) \o TagsOf(t) \in Sub(TagsOf(d) \o (<<g>> \o TagsOf(t)))
  BY <1>7, SubDrop
<1> QED
  BY <1>1, <1>3, <1>4, <1>8 DEF t

-----------------------------------------------------------------------------
\* Nodes go through the stages.

\* A node that is given a remark is still known by the same.
LEMMA RemarkGiven ==
    ASSUME NEW n, IsNode(n), NEW remark \in Remark
    PROVE  IsNode(WithRemark(n, remark)) /\ TagOf(WithRemark(n, remark)) = TagOf(n)
           /\ WithRemark(n, remark).remark = remark
BY DEF IsNode, WithRemark, TagOf

\* So is one that is given its type...
LEMMA TypedIsNode ==
    ASSUME NEW n, IsNode(n)
    PROVE  IsNode(Typed(n)) /\ TagOf(Typed(n)) = TagOf(n)
<1> DEFINE remark == <<TypeWord(n.type)>> \o n.remark
<1>1. remark \in Remark
  BY RemarkFront DEF IsNode
<1> HIDE DEF remark
<1>2. IsNode(WithRemark(n, remark)) /\ TagOf(WithRemark(n, remark)) = TagOf(n)
  BY <1>1, RemarkGiven
<1>3. Typed(n) = WithRemark(n, remark) \/ Typed(n) = n
  BY DEF Typed, remark
<1> QED
  BY <1>2, <1>3

\* ...an emoji...
LEMMA AdornedIsNode ==
    ASSUME IsNode(Node), NEW emoji \in Word
    PROVE  IsNode(Adorned(emoji)) /\ TagOf(Adorned(emoji)) = TagOf(Node)
<1> DEFINE remark == <<emoji>> \o Node.remark
<1>1. remark \in Remark
  BY RemarkFront DEF IsNode
<1>2. Adorned(emoji) = Typed(WithRemark(Node, remark))
  BY DEF Adorned
<1> HIDE DEF remark
<1>3. IsNode(WithRemark(Node, remark)) /\ TagOf(WithRemark(Node, remark)) = TagOf(Node)
  BY <1>1, RemarkGiven
<1> QED
  BY <1>2, <1>3, TypedIsNode

\* ...or whatever the request gives to it (apply_convert_options).
LEMMA PreparedIsNode ==
    ASSUME NEW n, IsNode(n), job \in Jobs
    PROVE  IsNode(Prepared(n)) /\ TagOf(Prepared(n)) = TagOf(n)
<1> DEFINE bare == IF Options.removeEmoji THEN WithoutEmoji(n.remark) ELSE n.remark
           remark == RenamedByAll(bare, Options.rename)
           R == [match : Word, replace : Word]
<1>1. bare \in Remark
  BY RemarkFront DEF IsNode
<1>2. Options.rename \in Seq(R) /\ \A r \in R : r.replace \in Word
  BY WordsAreKnown DEF Options
<1>3. Prepared(n) = [n EXCEPT !.group = IF Options.group # "" THEN Options.group ELSE @, !.remark = remark]
  BY DEF Prepared
<1> HIDE DEF bare, R
<1>4. remark \in Remark
  BY <1>1, <1>2, RenamedByAllType
<1> HIDE DEF remark
<1>5. /\ DOMAIN Prepared(n) = DOMAIN n
      /\ Prepared(n).id = n.id /\ Prepared(n).type = n.type /\ Prepared(n).remark = remark
  BY <1>3 DEF IsNode
<1> QED
  BY <1>4, <1>5 DEF IsNode, TagOf

\* A selection of nodes.
LEMMA NodesSelected ==
    ASSUME NEW ns, AreNodes(ns), NEW P
    PROVE  /\ AreNodes(Filtered(ns, P))
           /\ TagsOf(Filtered(ns, P)) = Filtered(TagsOf(ns), P)
           /\ TagsOf(Filtered(ns, P)) \in Sub(TagsOf(ns))
<1>1. PICK S : ns \in Seq(S) /\ \A n \in S : IsNode(n)
  BY DEF AreNodes
<1>2. Filtered(ns, P) \in Seq(S) /\ TagsOf(Filtered(ns, P)) = Filtered(TagsOf(ns), P)
  BY <1>1, FilteredType, TagsFiltered
<1> QED
  BY <1>1, <1>2, SubAny DEF AreNodes

\* Another order of nodes is another order of what they are known by.
LEMMA NodesShuffled ==
    ASSUME NEW ns, AreNodes(ns), NEW ms, NEW p, IsShuffle(ms, ns, p), ms = [i \in DOMAIN ns |-> ms[i]]
    PROVE  AreNodes(ms) /\ SameItems(TagsOf(ms), TagsOf(ns))
<1>1. PICK S : ns \in Seq(S) /\ \A n \in S : IsNode(n)
  BY DEF AreNodes
<1> DEFINE D == DOMAIN ns
<1>2. \A i \in D : ns[i] \in S
  BY <1>1
<1>3. p \in [D -> D] /\ DOMAIN ms = D /\ \A i \in D : ms[i] = ns[p[i]]
  BY DEF IsShuffle, Bijection, Injection
<1>4. \A i \in D : ms[i] \in S
  BY <1>2, <1>3
<1> HIDE DEF D
<1>5. ms \in Seq(S)
  BY <1>1, <1>3, <1>4, MappedSeq DEF D
<1>6. DOMAIN TagsOf(ms) = D /\ DOMAIN TagsOf(ns) = D
  BY <1>1, <1>3, <1>5, TagsAre DEF D
<1>7. /\ \A i \in D : TagsOf(ns)[i] = TagOf(ns[i])
      /\ \A i \in D : TagsOf(ms)[i] = TagOf(ms[i])
  BY <1>1, <1>3, <1>5, TagsAre DEF D
<1>8. IsShuffle(TagsOf(ms), TagsOf(ns), p)
  BY <1>3, <1>6, <1>7 DEF IsShuffle, D
<1>9. PICK R : TagsOf(ns) \in Seq(R)
  BY <1>1, TagsAre
<1> QED
  BY <1>1, <1>5, <1>8, <1>9, SameShuffled DEF AreNodes

\* When there is no work left, the nodes are all that there is.
LEMMA NodesHold ==
    ASSUME NEW found, AreNodes(found)
    PROVE  <<>> \in Seq(WorkItem) /\ TagsOf(found) \o Held(<<>>) = TagsOf(found)
<1>1. PICK S : TagsOf(found) \in Seq(S)
  BY TagsAre DEF AreNodes
<1> DEFINE a == TagsOf(found)
<1> HIDE DEF a
<1>2. a \o <<>> = a
  BY <1>1, ConcatEmptySeq DEF a
<1>3. <<>> \in Seq(WorkItem)
  OBVIOUS
<1> QED
  BY <1>2, <1>3, HeldNone DEF a

\* When there are no nodes yet, all is in the work.
LEMMA WorkHolds ==
    ASSUME NEW work \in Seq(WorkItem)
    PROVE  TagsOf(<<>>) \o Held(work) = Held(work)
<1> DEFINE h == Held(work)
<1>1. h \in Seq(Tag)
  BY HeldType
<1> HIDE DEF h
<1>2. <<>> \o h = h
  BY <1>1, ConcatEmptySeq
<1> QED
  BY <1>2, TagsOfNone DEF h

\* At first everything is still to be read.
LEMMA ParsingStarts == Init => Parsing
<1> SUFFICES ASSUME Init PROVE Parsing
  OBVIOUS
<1>1. job \in Jobs /\ todo = Texts(job.sources) /\ nodes = <<>> /\ done = <<>>
  BY DEF Init
<1>2. todo \in Seq(WorkItem) /\ Held(todo) = TextsHold(job.sources)
  BY <1>1, TextsAreTyped, HeldTexts
<1>3. TagsOf(nodes) \o Held(todo) = InSources
  BY <1>1, <1>2, InSourcesType, WorkHolds
<1> QED
  BY <1>1, <1>2, <1>3, NoNodes DEF Parsing

\* Whatever is read is found, or the conversion has failed.
LEMMA ParsingStep == Parsing /\ Checked /\ [Next]_vars => Parsing'
<1> SUFFICES ASSUME Parsing, Checked, [Next]_vars PROVE Parsing'
  OBVIOUS
<1>1. CASE UNCHANGED vars
  BY <1>1 DEF vars, Parsing, InSources
<1>2. CASE ParseText
  <2> DEFINE text == Head(todo).text
  <2>1. stage = "parse" /\ todo # <<>> /\ Head(todo).kind = "text"
    BY <1>2 DEF ParseText
  <2>2. todo \in Seq(WorkItem)
    BY <2>1 DEF Parsing
  <2>3. Head(todo) \in WorkItem
    BY <2>1, <2>2
  <2>4. text \in DOMAIN Reading
    BY <2>1, <2>3 DEF WorkItem, SourceItem
  <2>5. NodesAt(Head(todo), Reading) = Reading[text]
    BY <2>1 DEF NodesAt
  <2>6. \/ YamlNodes(text) # <<>> /\ Read(YamlNodes(text), <<>>)
        \/ YamlNodes(text) = <<>> /\ text.json # <<>> /\ Read(JsonNodes(text), <<>>)
        \/ YamlNodes(text) = <<>> /\ text.json = <<>> /\ Read(<<>>, text.items)
    BY <1>2, Zenon DEF ParseText
  <2> HIDE DEF text
  <2>7. CASE YamlNodes(text) # <<>> /\ Read(YamlNodes(text), <<>>)
    <3>1. AreNodes(YamlNodes(text)) /\ TagsOf(YamlNodes(text)) = Reading[text]
      BY <2>4, <2>7, TextRead
    <3>2. TagsOf(YamlNodes(text)) \o Held(<<>>) = NodesAt(Head(todo), Reading) /\ <<>> \in Seq(WorkItem)
      BY <2>5, <3>1, NodesHold
    <3> QED
      BY <2>1, <2>7, <3>1, <3>2, ReadKeeps
  <2>8. CASE YamlNodes(text) = <<>> /\ text.json # <<>> /\ Read(JsonNodes(text), <<>>)
    <3>1. AreNodes(JsonNodes(text)) /\ TagsOf(JsonNodes(text)) = Reading[text]
      BY <2>4, <2>8, TextRead
    <3>2. TagsOf(JsonNodes(text)) \o Held(<<>>) = NodesAt(Head(todo), Reading) /\ <<>> \in Seq(WorkItem)
      BY <2>5, <3>1, NodesHold
    <3> QED
      BY <2>1, <2>8, <3>1, <3>2, ReadKeeps
  <2>9. CASE YamlNodes(text) = <<>> /\ text.json = <<>> /\ Read(<<>>, text.items)
    <3>1. text.items \in Seq(WorkItem) /\ Held(text.items) = Reading[text]
      BY <2>4, <2>9, TextRead
    <3>2. TagsOf(<<>>) \o Held(text.items) = NodesAt(Head(todo), Reading)
      BY <2>5, <3>1, WorkHolds
    <3> QED
      BY <2>1, <2>9, <3>1, <3>2, NoNodes, ReadKeeps
  <2> QED
    BY <2>6, <2>7, <2>8, <2>9
<1>3. CASE ParseLink
  <2> DEFINE node == Head(todo).node
  <2>1. stage = "parse" /\ todo # <<>> /\ Head(todo).kind = "link"
    BY <1>3 DEF ParseLink
  <2>2. todo \in Seq(WorkItem)
    BY <2>1 DEF Parsing
  <2>3. Head(todo) \in WorkItem
    BY <2>1, <2>2
  <2>4. CASE ~Head(todo).valid
    <3>1. stage' = "failed"
      BY <1>3, <2>4, Zenon DEF ParseLink, Fail
    <3> QED
      BY <3>1 DEF Parsing
  <2>5. CASE Head(todo).valid
    <3>1. Read(<<Proxy(node)>>, <<>>)
      BY <1>3, <2>5, Zenon DEF ParseLink
    <3>2. IsNode(node)
      BY <2>1, <2>3, <2>5 DEF WorkItem, SourceItem, SourceEntry, IsNode
    <3>3. NodesAt(Head(todo), Reading) = TagsOf(<<node>>)
      BY <2>1, <2>5 DEF NodesAt
    <3>4. AreNodes(<<Proxy(node)>>) /\ TagsOf(<<Proxy(node)>>) = TagsOf(<<node>>)
      BY <3>2, ProxyIs, OneNode, TagsOfOne
    <3> HIDE DEF node
    <3>5. TagsOf(<<Proxy(node)>>) \o Held(<<>>) = NodesAt(Head(todo), Reading) /\ <<>> \in Seq(WorkItem)
      BY <3>3, <3>4, NodesHold
    <3> QED
      BY <2>1, <3>1, <3>4, <3>5, ReadKeeps
  <2> QED
    BY <2>4, <2>5
<1>4. CASE ParseOther
  <2> DEFINE texts == Head(todo).decoded
  <2>1. stage = "parse" /\ todo # <<>> /\ Head(todo).kind = "other" /\ Read(<<>>, Texts(texts))
    BY <1>4 DEF ParseOther
  <2>2. todo \in Seq(WorkItem)
    BY <2>1 DEF Parsing
  <2>3. Head(todo) \in WorkItem
    BY <2>1, <2>2
  <2>4. texts \in Seq(DOMAIN Reading)
    BY <2>1, <2>3 DEF WorkItem, SourceItem
  <2>5. NodesAt(Head(todo), Reading) = TextsHold(texts)
    BY <2>1 DEF NodesAt, TextsHold
  <2> HIDE DEF texts
  <2>6. Texts(texts) \in Seq(WorkItem) /\ Held(Texts(texts)) = TextsHold(texts)
    BY <2>4, HeldTexts
  <2>7. TagsOf(<<>>) \o Held(Texts(texts)) = NodesAt(Head(todo), Reading)
    BY <2>5, <2>6, WorkHolds
  <2> QED
    BY <2>1, <2>6, <2>7, NoNodes, ReadKeeps
<1>5. CASE EndParse
  <2>1. stage' # "parse"
    BY <1>5 DEF EndParse, Fail
  <2> QED
    BY <2>1 DEF Parsing
<1>6. CASE ScriptFails
  <2>1. stage' # "parse"
    BY <1>6 DEF ScriptFails, Fail
  <2> QED
    BY <2>1 DEF Parsing
<1>7. CASE ~(ParseText \/ ParseLink \/ ParseOther \/ EndParse \/ ScriptFails) /\ Next
  <2>1. stage' # "parse"
    BY <1>7, Zenon DEF Next, FilterNode, EndFilter, Prefer, RenameByRule, RenamedNode, EndRename, Select, Prepare, AdornByRule,
       Unadorned, EndAdorn, SortByScript, StartExport, NameTaken, NameFree, WriteDocument, Fail, Advance, Rewrite, Through
  <2> QED
    BY <2>1 DEF Parsing
<1> QED
  BY <1>1, <1>2, <1>3, <1>4, <1>5, <1>6, <1>7

\* What a filter may leave, said of lists.
LEMMA LeftIs ==
    ASSUME NEW S, NEW list \in Seq(S), NEW l
    PROVE  l \in LeftOf(list) <=> IF Filtering THEN l \in Sub(list) ELSE l = list
<1>1. CASE Filtering
  BY <1>1 DEF LeftOf, Sub
<1>2. CASE ~Filtering
  <2>1. Filtered(list, DOMAIN list) = list
    BY FilteredAll
  <2>2. l \in LeftOf(list) <=> l = Filtered(list, DOMAIN list)
    BY <1>2 DEF LeftOf
  <2> QED
    BY <1>2, <2>1, <2>2
<1> QED
  BY <1>1, <1>2

\* It may leave everything.
LEMMA LeftSelf == ASSUME NEW S, NEW list \in Seq(S) PROVE list \in LeftOf(list)
BY LeftIs, SubSelf

\* More of it is left out.
LEMMA LeftLess ==
    ASSUME NEW S, NEW list \in Seq(S), NEW l \in LeftOf(list), NEW k,
           IF Filtering THEN k \in Sub(l) ELSE k = l
    PROVE  k \in LeftOf(list)
BY LeftIs, SubTrans

\* It leaves elements of the list.
LEMMA LeftType == ASSUME NEW S, NEW list \in Seq(S), NEW l \in LeftOf(list) PROVE l \in Seq(S)
BY LeftIs, SubType

\* A list that is, but for its order, what lists of another kind leave.
Accounts(l, lefts) == \E left \in lefts : IF Options.sort THEN SameItems(l, left) ELSE l = left

\* It is so of the elements of a set if it is so of all.
LEMMA AccountsOf ==
    ASSUME NEW S, NEW list \in Seq(S), NEW l \in Seq(S), Accounts(l, LeftOf(list)), NEW T
    PROVE  Accounts(Of(l, T), LeftOf(Of(list, T)))
<1>1. PICK left \in LeftOf(list) : IF Options.sort THEN SameItems(l, left) ELSE l = left
  BY DEF Accounts
<1>2. left \in Seq(S) /\ IF Filtering THEN left \in Sub(list) ELSE left = list
  BY LeftIs, LeftType
<1>3. Of(list, T) \in Seq(S)
  BY OfType
<1>4. Of(left, T) \in LeftOf(Of(list, T))
  BY <1>2, <1>3, SubOf, LeftIs
<1>5. IF Options.sort THEN SameItems(Of(l, T), Of(left, T)) ELSE Of(l, T) = Of(left, T)
  BY <1>1, <1>2, SameOf
<1> QED
  BY <1>4, <1>5 DEF Accounts

\* What is exported, of what the sources hold: the nodes of these types.
CanExport(tag) == tag.type \in Supported(job.target)
Wanted == Filtered(InSources, {i \in DOMAIN InSources : CanExport(InSources[i])})
AllLeft == LeftOf(InSources)
WantedLeft == LeftOf(Wanted)
AllRead == \A i \in DOMAIN InSources : InSources[i].read

\* The nodes of the types that the target supports, of all nodes that are left.
LEMMA ExportedAccount ==
    ASSUME job \in Jobs, NEW ns, AreNodes(ns), Accounts(TagsOf(ns), AllLeft)
    PROVE  LET exported == Filtered(ns, {i \in DOMAIN ns : ns[i].type \in Supported(job.target)})
           IN  AreNodes(exported) /\ Accounts(TagsOf(exported), WantedLeft)
<1> DEFINE P == {i \in DOMAIN ns : ns[i].type \in Supported(job.target)}
           tags == TagsOf(ns)
<1>1. PICK S : ns \in Seq(S)
  BY DEF AreNodes
<1> DEFINE TS == {TagOf(n) : n \in S}
           U == TS \cup Tag
           T == {t \in U : CanExport(t)}
<1>2. tags \in Seq(TS) /\ DOMAIN tags = DOMAIN ns /\ \A i \in DOMAIN ns : tags[i] = TagOf(ns[i])
  BY <1>1, TagsAre
<1>3. InSources \in Seq(Tag)
  BY InSourcesType
<1>4. \A V, s : s \in Seq(V) /\ V \subseteq U => s \in Seq(U)
  OBVIOUS
<1>5. TS \subseteq U /\ Tag \subseteq U
  OBVIOUS
<1> HIDE DEF TS, U
<1>6. tags \in Seq(U) /\ InSources \in Seq(U)
  BY <1>2, <1>3, <1>4, <1>5
<1>7. (\A i \in DOMAIN tags : tags[i] \in U) /\ (\A i \in DOMAIN InSources : InSources[i] \in U)
  BY <1>6
<1>8. P = {i \in DOMAIN tags : tags[i] \in T}
  BY <1>2, <1>7 DEF CanExport, TagOf
<1>9. Filtered(tags, P) = Of(tags, T)
  BY <1>8 DEF Of
<1>10. {i \in DOMAIN InSources : CanExport(InSources[i])} = {i \in DOMAIN InSources : InSources[i] \in T}
  BY <1>7
<1>11. Wanted = Of(InSources, T)
  BY <1>10 DEF Of, Wanted
<1> HIDE DEF P, T, tags
<1>12. Accounts(Of(tags, T), LeftOf(Of(InSources, T)))
  BY <1>6, AccountsOf DEF AllLeft, tags
<1>13. AreNodes(Filtered(ns, P)) /\ TagsOf(Filtered(ns, P)) = Filtered(tags, P)
  BY NodesSelected DEF tags
<1> QED
  BY <1>9, <1>11, <1>12, <1>13 DEF P, WantedLeft

-----------------------------------------------------------------------------
\* Between reading and export.
PassingStages == {"filter", "prefer", "rename", "select", "adorn", "sort"}

\* What is done and still to do is what the filters left, and after the export of those
\* that the target supports, sorted or not.
Kept ==
    /\ stage \notin {"parse", "failed"} => AllRead
    /\ stage \in PassingStages => AreNodes(nodes) /\ AreNodes(done) /\ TagsOf(done \o nodes) \in AllLeft
    /\ stage \in {"prefer", "select", "sort", "export"} => done = <<>>
    /\ stage = "sort" => Options.sort
    /\ stage = "export" => AreNodes(nodes) /\ Accounts(TagsOf(nodes), AllLeft)
    /\ stage = "name" => AreNodes(nodes) /\ IsList(done) /\ Accounts(TagsOf(done \o nodes), WantedLeft)
    /\ stage = "done" => Accounts(TagsOf(done), WantedLeft)

\* The texts of the conversion are what they were.
LEMMA Unmoved ==
    ASSUME job' = job
    PROVE  /\ Options' = Options /\ Settings' = Settings /\ InSources' = InSources /\ AllRead' = AllRead
           /\ Filtering' = Filtering /\ AllLeft' = AllLeft /\ Wanted' = Wanted /\ WantedLeft' = WantedLeft
           /\ \A a, b : Accounts(a, b)' <=> Accounts(a, b)
BY DEF Options, Settings, InSources, AllRead, Filtering, AllLeft, Wanted, WantedLeft, CanExport, LeftOf, Accounts

\* A node goes on within a stage.
LEMMA GoesOn ==
    ASSUME Kept, job' = job, stage' = stage, stage \in {"filter", "rename", "adorn"},
           AreNodes(nodes'), AreNodes(done'), TagsOf(done' \o nodes') \in AllLeft
    PROVE  Kept'
<1>1. AllRead' /\ AllLeft' = AllLeft
  BY Unmoved DEF Kept
<1> QED
  BY <1>1 DEF Kept, PassingStages

\* Nothing is said of the first state.
LEMMA KeptStarts == Init => Kept
BY DEF Init, Kept, PassingStages

\* Without a filter nothing asks for nodes to be left out.
LEMMA FilteringIs ==
    ASSUME Checked
    PROVE  /\ stage = "filter" => Filtering
           /\ ~Filtering => Settings.include = <<>> /\ Settings.exclude = <<>>
                            /\ Options.include = <<>> /\ Options.exclude = <<>>
BY DEF Checked, Filtering


\* When there is nothing more to read, all that the sources hold was read.
LEMMA KeptParsed ==
    ASSUME Parsing, Kept, Checked, EndParse
    PROVE  Kept'
<1>1. stage = "parse" /\ todo = <<>> /\ job' = job
  BY DEF EndParse, Fail
<1>2. CASE stage' = "failed"
  BY <1>2 DEF Kept, PassingStages
<1>3. CASE stage' # "failed"
  <2>1. stage' \in {"filter", "prefer"} /\ nodes' = nodes /\ done' = done
    BY <1>3 DEF EndParse, Fail
  <2>2. AreNodes(nodes) /\ done = <<>> /\ TagsOf(nodes) \o Held(<<>>) = InSources
    BY <1>1 DEF Parsing
  <2>3. TagsOf(nodes) = InSources
    BY <2>2, NodesHold
  <2>4. AllRead
    <3>1. PICK S : nodes \in Seq(S)
      BY <2>2 DEF AreNodes
    <3>2. \A i \in DOMAIN InSources : InSources[i] = TagOf(nodes[i])
      BY <2>3, <3>1, TagsAre
    <3> QED
      BY <3>2 DEF AllRead, TagOf
  <2>5. done \o nodes = nodes
    BY <2>2, NodesAreList, EmptyIsList
  <2>6. TagsOf(done \o nodes) \in AllLeft
    BY <2>3, <2>5, InSourcesType, LeftSelf DEF Checked, AllLeft
  <2>7. AllRead' /\ AllLeft' = AllLeft
    BY <1>1, <2>4, Unmoved
  <2> QED
    BY <2>1, <2>2, <2>6, <2>7, NoNodes DEF Kept, PassingStages
<1> QED
  BY <1>2, <1>3

\* The filter of the settings lets a node stay or go.
LEMMA KeptFiltered ==
    ASSUME Kept, Checked, FilterNode
    PROVE  Kept'
<1>1. /\ stage = "filter" /\ nodes # <<>> /\ job' = job /\ stage' = stage
      /\ nodes' = Tail(nodes) /\ done' \in {done, Append(done, Node)}
  BY DEF FilterNode
<1>2. AreNodes(nodes) /\ AreNodes(done) /\ TagsOf(done \o nodes) \in AllLeft
  BY <1>1 DEF Kept, PassingStages
<1>3. IsNode(Node) /\ AreNodes(Tail(nodes)) /\ IsList(nodes) /\ IsList(done)
  BY <1>1, <1>2, FirstIsNode, NodesAreList DEF Node
<1>4. CASE done' = done
  <2>1. TagsOf(done \o Tail(nodes)) \in Sub(TagsOf(done \o nodes))
    BY <1>1, <1>3, Dropped
  <2>2. TagsOf(done \o Tail(nodes)) \in AllLeft
    BY <1>1, <1>2, <2>1, FilteringIs, InSourcesType, LeftLess DEF Checked, AllLeft
  <2> QED
    BY <1>1, <1>2, <1>3, <1>4, <2>2, GoesOn
<1>5. CASE done' = Append(done, Node)
  <2>1. TagsOf(done' \o nodes') = TagsOf(done \o nodes)
    BY <1>1, <1>3, <1>5, Passes DEF Node
  <2>2. AreNodes(done')
    <3>1. Append(done, Node) = done \o <<Node>>
      BY <1>3, AppendedList
    <3>2. AreNodes(<<Node>>)
      BY <1>3, OneNode
    <3> QED
      BY <1>2, <1>5, <3>1, <3>2, NodesJoined
  <2> QED
    BY <1>1, <1>2, <1>3, <2>1, <2>2, GoesOn
<1> QED
  BY <1>1, <1>4, <1>5

\* The stage is over.
LEMMA KeptAdvanced ==
    ASSUME Kept, EndFilter \/ EndRename
    PROVE  Kept'
<1>1. /\ stage \in {"filter", "rename"} /\ stage' \in {"prefer", "select"} /\ job' = job
      /\ nodes = <<>> /\ nodes' = done /\ done' = <<>>
  BY DEF EndFilter, EndRename, Advance
<1>2. AreNodes(nodes) /\ AreNodes(done) /\ TagsOf(done \o nodes) \in AllLeft /\ AllRead
  BY <1>1 DEF Kept, PassingStages
<1>3. done' \o nodes' = done \o nodes
  BY <1>1, <1>2, NodesAreList, EmptyIsList
<1>4. AllRead' /\ AllLeft' = AllLeft
  BY <1>1, <1>2, Unmoved
<1> QED
  BY <1>1, <1>2, <1>3, <1>4, NoNodes DEF Kept, PassingStages

\* Patterns leave out some nodes, and none if there is no pattern.
LEMMA KeptSelected ==
    ASSUME Kept, Checked, Prefer \/ Select
    PROVE  Kept'
<1>1. PICK P : /\ stage \in {"prefer", "select"} /\ stage' \in {"rename", "adorn"} /\ job' = job /\ done' = done
               /\ nodes' = Filtered(nodes, P)
               /\ ~Filtering => \A i \in DOMAIN nodes : i \in P
  <2>1. CASE Prefer
    <3> DEFINE include == ByRemark(Settings.include)
               exclude == ByRemark(Settings.exclude)
               P == {i \in DOMAIN nodes :
                        /\ include # <<>> => \E k \in DOMAIN include : MatcherMatches(include[k], nodes[i])
                        /\ \A k \in DOMAIN exclude : ~MatcherMatches(exclude[k], nodes[i])}
    <3>1. nodes' = Filtered(nodes, P)
      BY <2>1, Zenon DEF Prefer, Selected
    <3>2. ~Filtering => include = <<>> /\ exclude = <<>>
      <4>1. ByRemark(<<>>) = <<>>
        BY DEF ByRemark
      <4> QED
        BY <4>1, FilteringIs
    <3>3. ~Filtering => \A i \in DOMAIN nodes : i \in P
      BY <3>2
    <3> HIDE DEF P
    <3> QED
      BY <2>1, <3>1, <3>3 DEF Prefer
  <2>2. CASE Select
    <3> DEFINE include == Options.include
               exclude == Options.exclude
               P == {i \in DOMAIN nodes :
                        /\ include # <<>> => \E k \in DOMAIN include : MatcherMatches(include[k], nodes[i])
                        /\ \A k \in DOMAIN exclude : ~MatcherMatches(exclude[k], nodes[i])}
    <3>1. nodes' = Filtered(nodes, P)
      BY <2>2, Zenon DEF Select, Selected
    <3>2. ~Filtering => include = <<>> /\ exclude = <<>>
      BY FilteringIs
    <3>3. ~Filtering => \A i \in DOMAIN nodes : i \in P
      BY <3>2
    <3> HIDE DEF P
    <3> QED
      BY <2>2, <3>1, <3>3 DEF Select
  <2> QED
    BY <2>1, <2>2
<1>2. AreNodes(nodes) /\ TagsOf(done \o nodes) \in AllLeft /\ AllRead /\ done = <<>>
  BY <1>1 DEF Kept, PassingStages
<1>3. AreNodes(nodes') /\ TagsOf(nodes') \in Sub(TagsOf(nodes))
  BY <1>1, <1>2, NodesSelected
<1>4. done \o nodes = nodes /\ done' \o nodes' = nodes'
  BY <1>1, <1>2, <1>3, NodesAreList, EmptyIsList
<1>5. ~Filtering => nodes' = nodes
  <2>1. PICK S : nodes \in Seq(S)
    BY <1>2 DEF AreNodes
  <2> QED
    BY <1>1, <2>1, FilteredAll
<1>6. TagsOf(nodes') \in AllLeft
  BY <1>2, <1>3, <1>4, <1>5, InSourcesType, LeftLess DEF Checked, AllLeft
<1>7. AllRead' /\ AllLeft' = AllLeft
  BY <1>1, <1>2, Unmoved
<1> QED
  BY <1>1, <1>2, <1>3, <1>4, <1>6, <1>7, NoNodes DEF Kept, PassingStages

\* A rule changes the first node, or the node is through.
LEMMA KeptRewritten ==
    ASSUME Kept, stage \in {"rename", "adorn"}, nodes # <<>>,
           NEW node, IsNode(node), TagOf(node) = TagOf(Node), Rewrite(node)
    PROVE  Kept'
<1>1. nodes' = <<node>> \o Tail(nodes) /\ job' = job /\ stage' = stage /\ done' = done
  BY DEF Rewrite
<1>2. AreNodes(nodes) /\ AreNodes(done) /\ TagsOf(done \o nodes) \in AllLeft
  BY DEF Kept, PassingStages
<1>3. AreNodes(Tail(nodes)) /\ IsList(nodes) /\ IsList(done)
  BY <1>2, FirstIsNode, NodesAreList
<1>4. AreNodes(nodes')
  BY <1>1, <1>3, OneNode, NodesJoined
<1>5. TagsOf(done \o (<<node>> \o Tail(nodes))) = TagsOf(done \o nodes)
  BY <1>3, Rewritten DEF Node
<1>6. TagsOf(done' \o nodes') \in AllLeft
  BY <1>1, <1>2, <1>5
<1> QED
  BY <1>1, <1>2, <1>4, <1>6, GoesOn

\* A node that is through stands behind those before it.
LEMMA KeptThrough ==
    ASSUME Kept, stage \in {"rename", "adorn"}, nodes # <<>>,
           NEW node, IsNode(node), TagOf(node) = TagOf(Node), NEW next, Through(node, next)
    PROVE  Kept'
<1>1. nodes' = Tail(nodes) /\ job' = job /\ stage' = stage /\ done' = Append(done, node)
  BY DEF Through
<1>2. AreNodes(nodes) /\ AreNodes(done) /\ TagsOf(done \o nodes) \in AllLeft
  BY DEF Kept, PassingStages
<1>3. AreNodes(Tail(nodes)) /\ IsList(nodes) /\ IsList(done)
  BY <1>2, FirstIsNode, NodesAreList
<1>4. AreNodes(done')
  <2>1. Append(done, node) = done \o <<node>>
    BY <1>3, AppendedList
  <2>2. AreNodes(<<node>>)
    BY OneNode
  <2> QED
    BY <1>1, <1>2, <2>1, <2>2, NodesJoined
<1>5. TagsOf(Append(done, node) \o Tail(nodes)) = TagsOf(done \o nodes)
  BY <1>3, Passes DEF Node
<1>6. TagsOf(done' \o nodes') \in AllLeft
  BY <1>1, <1>2, <1>5
<1> QED
  BY <1>1, <1>3, <1>4, <1>6, GoesOn

\* The first node of these stages.
LEMMA FirstPassing ==
    ASSUME Kept, stage \in PassingStages, nodes # <<>>
    PROVE  IsNode(Node) /\ Node.remark \in Remark
BY FirstIsNode DEF Kept, Node, IsNode

\* Rules of the settings give other remarks.
LEMMA KeptRenamed ==
    ASSUME Kept, Checked, RenameByRule \/ RenamedNode
    PROVE  Kept'
<1>1. stage = "rename" /\ nodes # <<>>
  BY DEF RenameByRule, RenamedNode
<1>2. IsNode(Node) /\ Node.remark \in Remark
  BY <1>1, FirstPassing DEF PassingStages
<1>3. CASE RenamedNode
  <2>1. Through(Node, 1)
    BY <1>3 DEF RenamedNode
  <2> QED
    BY <1>1, <1>2, <2>1, KeptThrough
<1>4. CASE RenameByRule
  <2>1. PICK remark : remark \in Remark /\ Rewrite(WithRemark(Node, remark))
    <3> DEFINE r == Settings.rename[rule]
    <3>1. rule \in DOMAIN Settings.rename
      BY <1>4 DEF RenameByRule
    <3>2. CASE r.script
      <4>1. \E remark \in ScriptRemarks \cup {Node.remark} : Rewrite(WithRemark(Node, remark))
        BY <1>4, <3>2, Zenon DEF RenameByRule
      <4> QED
        BY <1>2, <4>1, WordsAreKnown
    <3>3. CASE ~r.script
      <4>1. Rewrite(WithRemark(Node, Renamed(Node.remark, r)))
        BY <1>4, <3>3, Zenon DEF RenameByRule
      <4>2. r.replace \in Word
        BY <3>1, <3>3, WordsAreKnown DEF Checked, Settings
      <4> HIDE DEF r
      <4> QED
        BY <1>2, <4>1, <4>2, RenamedType
    <3> QED
      BY <3>2, <3>3
  <2> DEFINE node == WithRemark(Node, remark)
  <2>2. IsNode(node) /\ TagOf(node) = TagOf(Node)
    BY <1>2, <2>1, RemarkGiven
  <2> HIDE DEF node
  <2> QED
    BY <1>1, <2>1, <2>2, KeptRewritten DEF node
<1> QED
  BY <1>3, <1>4

\* So do the options of the request.
LEMMA KeptAdorned ==
    ASSUME Kept, Checked, Prepare \/ AdornByRule \/ Unadorned
    PROVE  Kept'
<1>1. stage = "adorn" /\ nodes # <<>>
  BY DEF Prepare, AdornByRule, Unadorned
<1>2. IsNode(Node) /\ Node.remark \in Remark /\ job \in Jobs
  BY <1>1, FirstPassing DEF PassingStages, Checked
<1>3. CASE Prepare
  <2>1. Rewrite(Prepared(Node))
    BY <1>3 DEF Prepare
  <2> QED
    BY <1>1, <1>2, <2>1, PreparedIsNode, KeptRewritten
<1>4. CASE Unadorned
  <2>1. Through(Typed(Node), 0)
    BY <1>4 DEF Unadorned
  <2> QED
    BY <1>1, <1>2, <2>1, TypedIsNode, KeptThrough
<1>5. CASE AdornByRule
  <2>1. Rewrite(Node) \/ \E emoji \in Word : Through(Adorned(emoji), 0)
    <3> DEFINE r == EmojiRules[rule]
    <3>1. rule \in DOMAIN EmojiRules
      BY <1>5 DEF AdornByRule
    <3>2. CASE r.script
      <4>1. Rewrite(Node) \/ \E emoji \in Emojis : Through(Adorned(emoji), 0)
        BY <1>5, <3>2, Zenon DEF AdornByRule
      <4> QED
        BY <4>1, WordsAreKnown
    <3>3. CASE ~r.script
      <4>1. Rewrite(Node) \/ Through(Adorned(r.replace), 0)
        BY <1>5, <3>3, Zenon DEF AdornByRule
      <4>2. EmojiRules = <<>> \/ EmojiRules \in {Options.emoji, Settings.emoji}
        BY DEF EmojiRules
      <4>3. r.replace \in Word
        BY <1>2, <3>1, <3>3, <4>2, WordsAreKnown DEF Settings, Options
      <4> HIDE DEF r
      <4> QED
        BY <4>1, <4>3
    <3> QED
      BY <3>2, <3>3
  <2>2. CASE Rewrite(Node)
    BY <1>1, <1>2, <2>2, KeptRewritten
  <2>3. CASE \E emoji \in Word : Through(Adorned(emoji), 0)
    <3>1. PICK emoji \in Word : Through(Adorned(emoji), 0)
      BY <2>3
    <3> DEFINE node == Adorned(emoji)
    <3>2. IsNode(node) /\ TagOf(node) = TagOf(Node)
      BY <1>2, AdornedIsNode
    <3> HIDE DEF node
    <3> QED
      BY <1>1, <3>1, <3>2, KeptThrough DEF node
  <2> QED
    BY <2>1, <2>2, <2>3
<1> QED
  BY <1>3, <1>4, <1>5

\* Before the export, nodes are sorted or they are as they were.
LEMMA KeptSorted ==
    ASSUME Kept, Checked, EndAdorn
    PROVE  Kept'
<1>1. stage = "adorn" /\ nodes = <<>> /\ done' = <<>> /\ job' = job
  BY DEF EndAdorn
<1>2. AreNodes(done) /\ TagsOf(done \o nodes) \in AllLeft /\ AllRead
  BY <1>1 DEF Kept, PassingStages
<1>3. done \o nodes = done
  BY <1>1, <1>2, NodesAreList, EmptyIsList
<1>4. AllRead' /\ AllLeft' = AllLeft /\ Options' = Options
  BY <1>1, <1>2, Unmoved
<1>5. TagsOf(done) \in AllLeft
  BY <1>2, <1>3
<1>6. CASE Options.sort /\ Settings.sortScript
  <2>1. stage' = "sort" /\ nodes' = done
    BY <1>6 DEF EndAdorn
  <2>2. done' \o nodes' = done
    BY <1>1, <1>2, <2>1, NodesAreList, EmptyIsList
  <2> QED
    BY <1>1, <1>2, <1>4, <1>5, <1>6, <2>1, <2>2, NoNodes DEF Kept, PassingStages
<1>7. CASE ~(Options.sort /\ Settings.sortScript)
  <2>1. stage' = "export" /\ nodes' = IF Options.sort THEN Sorted(done) ELSE done
    BY <1>7 DEF EndAdorn
  <2>2. AreNodes(nodes') /\ Accounts(TagsOf(nodes'), AllLeft)
    <3>1. CASE Options.sort
      <4>1. PICK S : done \in Seq(S) /\ \A n \in S : IsNode(n)
        BY <1>2 DEF AreNodes
      <4>2. \A i \in DOMAIN done : done[i].remark \in Remark
        BY <4>1 DEF IsNode
      <4>3. PICK p : IsShuffle(Sorted(done), done, p)
        BY <4>1, <4>2, SortedShuffles
      <4>4. Sorted(done) = [i \in DOMAIN done |-> Sorted(done)[i]]
        BY DEF Sorted
      <4> DEFINE sorted == Sorted(done)
      <4> HIDE DEF sorted
      <4>5. AreNodes(sorted) /\ SameItems(TagsOf(sorted), TagsOf(done))
        BY <1>2, <4>3, <4>4, NodesShuffled DEF sorted
      <4>6. nodes' = sorted
        BY <2>1, <3>1 DEF sorted
      <4> QED
        BY <1>5, <3>1, <4>5, <4>6 DEF Accounts
    <3>2. CASE ~Options.sort
      BY <1>2, <1>5, <2>1, <3>2 DEF Accounts
    <3> QED
      BY <3>1, <3>2
  <2>3. Accounts(TagsOf(nodes), AllLeft)'
    BY <1>4, <2>2 DEF Accounts
  <2> QED
    BY <1>1, <1>4, <2>1, <2>2, <2>3 DEF Kept, PassingStages
<1> QED
  BY <1>6, <1>7

\* A script sorts into any order.
LEMMA KeptShuffled ==
    ASSUME Kept, SortByScript
    PROVE  Kept'
<1>1. stage = "sort" /\ stage' = "export" /\ job' = job /\ done' = done
  BY DEF SortByScript
<1>2. PICK order \in Bijection(DOMAIN nodes, DOMAIN nodes) : nodes' = [i \in DOMAIN nodes |-> nodes[order[i]]]
  BY Zenon DEF SortByScript
<1>3. AreNodes(nodes) /\ TagsOf(done \o nodes) \in AllLeft /\ AllRead /\ done = <<>> /\ Options.sort
  BY <1>1 DEF Kept, PassingStages
<1>4. done \o nodes = nodes
  BY <1>3, NodesAreList, EmptyIsList
<1> DEFINE ms == [i \in DOMAIN nodes |-> nodes[order[i]]]
<1>5. IsShuffle(ms, nodes, order)
  BY BijectionShuffles
<1>6. ms = [i \in DOMAIN nodes |-> ms[i]]
  OBVIOUS
<1> HIDE DEF ms
<1>7. AreNodes(ms) /\ SameItems(TagsOf(ms), TagsOf(nodes))
  BY <1>3, <1>5, <1>6, NodesShuffled
<1>8. nodes' = ms
  BY <1>2 DEF ms
<1>9. AllRead' /\ AllLeft' = AllLeft /\ Options' = Options
  BY <1>1, <1>3, Unmoved
<1>10. Accounts(TagsOf(ms), AllLeft)
  BY <1>3, <1>4, <1>7 DEF Accounts
<1>11. Accounts(TagsOf(nodes), AllLeft)'
  BY <1>8, <1>9, <1>10 DEF Accounts
<1> QED
  BY <1>1, <1>3, <1>7, <1>8, <1>9, <1>11 DEF Kept, PassingStages

\* The types of the target are selected.
LEMMA KeptExported ==
    ASSUME Kept, Checked, StartExport
    PROVE  Kept'
<1> DEFINE exported == Filtered(nodes, {i \in DOMAIN nodes : nodes[i].type \in Supported(job.target)})
<1>1. stage = "export" /\ stage' = "name" /\ job' = job /\ done' = done /\ nodes' = exported
  BY DEF StartExport
<1>2. AreNodes(nodes) /\ Accounts(TagsOf(nodes), AllLeft) /\ AllRead /\ done = <<>>
  BY <1>1 DEF Kept
<1>3. AreNodes(exported) /\ Accounts(TagsOf(exported), WantedLeft)
  BY <1>2, ExportedAccount DEF Checked
<1> HIDE DEF exported
<1>4. done' \o nodes' = exported
  BY <1>1, <1>2, <1>3, NodesAreList, EmptyIsList
<1>5. AllRead' /\ WantedLeft' = WantedLeft /\ Options' = Options
  BY <1>1, <1>2, Unmoved
<1>6. Accounts(TagsOf(done \o nodes), WantedLeft)'
  BY <1>3, <1>4, <1>5 DEF Accounts
<1> QED
  BY <1>1, <1>2, <1>3, <1>5, <1>6, EmptyIsList DEF Kept, PassingStages

\* A node gets its name.
LEMMA KeptNamed ==
    ASSUME Kept, NameFree
    PROVE  Kept'
<1> DEFINE node == WithRemark(Node, Candidate)
<1>1. /\ stage = "name" /\ stage' = stage /\ job' = job /\ nodes # <<>>
      /\ nodes' = Tail(nodes) /\ done' = Append(done, node)
  BY DEF NameFree
<1>2. AreNodes(nodes) /\ IsList(done) /\ Accounts(TagsOf(done \o nodes), WantedLeft) /\ AllRead
  BY <1>1 DEF Kept
<1>3. TagOf(node) = TagOf(Head(nodes))
  BY DEF TagOf, WithRemark, Node
<1> HIDE DEF node
<1>4. AreNodes(nodes') /\ IsList(nodes)
  BY <1>1, <1>2, FirstIsNode, NodesAreList
<1>5. IsList(done') /\ TagsOf(done' \o nodes') = TagsOf(done \o nodes)
  BY <1>1, <1>2, <1>3, <1>4, Passes
<1>6. AllRead' /\ WantedLeft' = WantedLeft /\ Options' = Options
  BY <1>1, <1>2, Unmoved
<1>7. Accounts(TagsOf(done \o nodes), WantedLeft)'
  BY <1>2, <1>5, <1>6 DEF Accounts
<1> QED
  BY <1>1, <1>4, <1>5, <1>6, <1>7 DEF Kept, PassingStages

\* The document is written when all have theirs.
LEMMA KeptWritten ==
    ASSUME Kept, WriteDocument
    PROVE  Kept'
<1>1. stage = "name" /\ nodes = <<>> /\ job' = job /\ done' = done /\ stage' \in {"done", "failed"}
  BY DEF WriteDocument, Fail
<1>2. IsList(done) /\ Accounts(TagsOf(done \o nodes), WantedLeft) /\ AllRead
  BY <1>1 DEF Kept
<1>3. done \o nodes = done
  BY <1>1, <1>2, EmptyIsList
<1>4. AllRead' /\ WantedLeft' = WantedLeft /\ Options' = Options
  BY <1>1, <1>2, Unmoved
<1>5. Accounts(TagsOf(done), WantedLeft)'
  BY <1>1, <1>2, <1>3, <1>4 DEF Accounts
<1> QED
  BY <1>1, <1>4, <1>5 DEF Kept, PassingStages

\* No step loses a node.
LEMMA KeptStep == Kept /\ Parsing /\ Checked /\ [Next]_vars => Kept'
<1> SUFFICES ASSUME Kept, Parsing, Checked, [Next]_vars PROVE Kept'
  OBVIOUS
<1>1. CASE UNCHANGED vars \/ NameTaken
  <2>1. stage' = stage /\ nodes' = nodes /\ done' = done /\ job' = job
    BY <1>1 DEF vars, NameTaken
  <2>2. /\ AllRead' <=> AllRead
        /\ AllLeft' = AllLeft /\ WantedLeft' = WantedLeft /\ Options' = Options
    BY <2>1, Unmoved
  <2>3. /\ Accounts(TagsOf(nodes), AllLeft)' <=> Accounts(TagsOf(nodes), AllLeft)
        /\ Accounts(TagsOf(done), WantedLeft)' <=> Accounts(TagsOf(done), WantedLeft)
        /\ Accounts(TagsOf(done \o nodes), WantedLeft)' <=> Accounts(TagsOf(done \o nodes), WantedLeft)
    BY <2>1, <2>2 DEF Accounts
  <2> QED
    BY <2>1, <2>2, <2>3 DEF Kept
<1>2. CASE ParseText \/ ParseLink \/ ParseOther
  <2>1. stage' \in {"parse", "failed"}
    BY <1>2 DEF ParseText, ParseLink, ParseOther, Read, Fail
  <2> QED
    BY <2>1 DEF Kept, PassingStages
<1>3. CASE ScriptFails
  <2>1. stage' = "failed"
    BY <1>3 DEF ScriptFails, Fail
  <2> QED
    BY <2>1 DEF Kept, PassingStages
<1>4. CASE EndParse
  BY <1>4, KeptParsed
<1>5. CASE FilterNode
  BY <1>5, KeptFiltered
<1>6. CASE EndFilter \/ EndRename
  BY <1>6, KeptAdvanced
<1>7. CASE Prefer \/ Select
  BY <1>7, KeptSelected
<1>8. CASE RenameByRule \/ RenamedNode
  BY <1>8, KeptRenamed
<1>9. CASE Prepare \/ AdornByRule \/ Unadorned
  BY <1>9, KeptAdorned
<1>10. CASE EndAdorn
  BY <1>10, KeptSorted
<1>11. CASE SortByScript
  BY <1>11, KeptShuffled
<1>12. CASE StartExport
  BY <1>12, KeptExported
<1>13. CASE NameFree
  BY <1>13, KeptNamed
<1>14. CASE WriteDocument
  BY <1>14, KeptWritten
<1> QED
  BY <1>1, <1>2, <1>3, <1>4, <1>5, <1>6, <1>7, <1>8, <1>9, <1>10, <1>11, <1>12, <1>13, <1>14 DEF Next

\* Numbers are written differently.
NumeralsDiffer == \A i, j \in Nat : Numeral(i) = Numeral(j) => i = j

\* The name that the first node is tried with.
NameFor(k) == IF k = 1 THEN Dashed(Node.remark) ELSE Append(Dashed(Node.remark), Numeral(k))

\* Different numbers make different names.
LEMMA NamesDiffer ==
    ASSUME NumeralsDiffer, Node.remark \in Remark, NEW i \in Nat, NEW j \in Nat, NameFor(i) = NameFor(j)
    PROVE  i = j
<1> DEFINE remark == Node.remark
           name == Dashed(remark)
           S == {name[n] : n \in DOMAIN remark}
           a == Numeral(i)
           b == Numeral(j)
<1>1. DOMAIN remark = 1..Len(remark) /\ Len(remark) \in Nat
  BY DEF Remark
<1>2. name = [n \in DOMAIN remark |-> name[n]]
  BY DEF Dashed
<1> HIDE DEF name, remark
<1>3. name \in Seq(S) /\ Len(name) \in Nat
  BY <1>1, <1>2
<1> HIDE DEF S, a, b
<1>4. name # Append(name, a) /\ name # Append(name, b)
  BY <1>3
<1>5. Append(name, a) = Append(name, b) => a = b
  BY <1>3
<1>6. a = b => i = j
  BY DEF NumeralsDiffer, a, b
<1>7. /\ NameFor(i) = IF i = 1 THEN name ELSE Append(name, a)
      /\ NameFor(j) = IF j = 1 THEN name ELSE Append(name, b)
  BY DEF NameFor, name, remark, a, b
<1> HIDE DEF NameFor
<1> QED
  BY <1>4, <1>5, <1>6, <1>7

\* So many names are not all in use.
LEMMA NamesUsed ==
    ASSUME NumeralsDiffer, Node.remark \in Remark, IsList(done), NEW n \in Nat,
           \A k \in 1..n : NameFor(k) \in UsedNames
    PROVE  n <= Len(done)
<1> DEFINE D == DOMAIN done
           f == [k \in 1..n |-> CHOOSE i \in D : done[i].remark = NameFor(k)]
<1>1. Len(done) \in Nat /\ D = 1..Len(done)
  BY DEF IsList
<1>2. \A k \in 1..n : f[k] \in D /\ done[f[k]].remark = NameFor(k)
  BY DEF UsedNames
<1> HIDE DEF D
<1>3. f \in [1..n -> D]
  BY <1>2
<1>4. \A i, j \in 1..n : f[i] = f[j] => i = j
  <2> HIDE DEF f
  <2> QED
    BY <1>2, NamesDiffer
<1>5. f \in Injection(1..n, D)
  <2> HIDE DEF f
  <2> QED
    BY <1>3, <1>4 DEF Injection, IsInjective
<1> HIDE DEF f
<1>6. IsFiniteSet(D) /\ Cardinality(D) = Len(done)
  BY <1>1, FS_Interval, SMTT(30)
<1>7. Cardinality(1..n) = n
  BY FS_Interval
<1>8. Cardinality(1..n) <= Cardinality(D)
  BY <1>5, <1>6, FS_Injection
<1> QED
  BY <1>6, <1>7, <1>8

\* The names with lower numbers are all in use.
Numbered ==
    /\ IsList(done) /\ suffix \in Nat /\ suffix >= 1 /\ suffix <= Len(done) + 1
    /\ stage \notin {"name", "done", "failed"} => suffix = 1
    /\ stage = "name" => \A k \in 1..(suffix - 1) : NameFor(k) \in UsedNames

\* At first no name is tried.
LEMMA NumberedStarts == Init => Numbered
BY EmptyIsList DEF Init, Numbered

\* A name is tried only if those with lower numbers are in use, so that one of the
\* first Len(done) + 1 is free.
LEMMA NumberedStep == NumeralsDiffer /\ Numbered /\ Kept /\ [Next]_vars => Numbered'
<1> SUFFICES ASSUME NumeralsDiffer, Numbered, Kept, [Next]_vars PROVE Numbered'
  OBVIOUS
<1>1. IsList(done) /\ suffix \in Nat /\ suffix >= 1 /\ suffix <= Len(done) + 1 /\ Len(done) \in Nat
  BY DEF Numbered, IsList
<1>2. CASE NameTaken
  <2>1. /\ stage = "name" /\ stage' = stage /\ nodes # <<>> /\ nodes' = nodes /\ done' = done
        /\ Candidate \in UsedNames /\ suffix' = suffix + 1
    BY <1>2 DEF NameTaken, NameIsTaken
  <2>2. Candidate = NameFor(suffix)
    BY DEF Candidate, NameFor
  <2>3. \A k \in 1..suffix : NameFor(k) \in UsedNames
    <3>1. \A k \in 1..(suffix - 1) : NameFor(k) \in UsedNames
      BY <2>1 DEF Numbered
    <3>2. \A k \in 1..suffix : k = suffix \/ k \in 1..(suffix - 1)
      BY <1>1
    <3> QED
      BY <2>1, <2>2, <3>1, <3>2
  <2>4. Node.remark \in Remark
    BY <2>1, FirstIsNode DEF Kept, Node, IsNode
  <2>5. suffix <= Len(done)
    BY <1>1, <2>3, <2>4, NamesUsed
  <2>6. \A k \in 1..(suffix' - 1) : NameFor(k)' \in UsedNames'
    <3>1. suffix' - 1 = suffix
      BY <1>1, <2>1
    <3>2. \A k : NameFor(k)' = NameFor(k)
      BY <2>1 DEF NameFor, Node
    <3>3. UsedNames' = UsedNames
      BY <2>1 DEF UsedNames
    <3> QED
      BY <2>3, <3>1, <3>2, <3>3
  <2>7. suffix' \in Nat /\ suffix' >= 1 /\ suffix' <= Len(done') + 1
    BY <1>1, <2>1, <2>5
  <2> QED
    BY <1>1, <2>1, <2>6, <2>7 DEF Numbered
<1>3. CASE suffix' = 1 /\ IsList(done')
  <2>1. 1 \in Nat /\ 1 >= 1 /\ 1 <= Len(done') + 1 /\ 1..(1 - 1) = {}
    BY <1>3 DEF IsList
  <2> QED
    BY <1>3, <2>1 DEF Numbered
<1>4. CASE suffix' = suffix /\ done' = done /\ stage' \in {"done", "failed"}
  BY <1>1, <1>4 DEF Numbered
<1>5. CASE UNCHANGED vars
  BY <1>5 DEF vars, Numbered, NameFor, Node, UsedNames
<1>6. ASSUME stage \notin {"name", "done", "failed"} PROVE suffix = 1
  BY <1>6 DEF Numbered
<1>7. CASE ParseText \/ ParseLink \/ ParseOther \/ EndParse
  BY <1>1, <1>3, <1>6, <1>7 DEF ParseText, ParseLink, ParseOther, Read, EndParse, Fail
<1>8. CASE ScriptFails
  BY <1>4, <1>8 DEF ScriptFails, Fail
<1>9. CASE FilterNode
  BY <1>1, <1>3, <1>6, <1>9, AppendedList DEF FilterNode
<1>10. CASE EndFilter \/ EndRename
  BY <1>3, <1>6, <1>10, EmptyIsList DEF EndFilter, EndRename, Advance
<1>11. CASE Prefer \/ Select
  BY <1>1, <1>3, <1>6, <1>11 DEF Prefer, Select
<1>12. CASE RenameByRule \/ RenamedNode
  <2>1. stage = "rename" /\ suffix' = suffix /\ (done' = done \/ \E node : done' = Append(done, node))
    BY <1>12, Zenon DEF RenameByRule, RenamedNode, Rewrite, Through
  <2> QED
    BY <1>1, <1>3, <1>6, <2>1, AppendedList
<1>13. CASE Prepare \/ AdornByRule \/ Unadorned
  <2>1. stage = "adorn" /\ suffix' = suffix /\ (done' = done \/ \E node : done' = Append(done, node))
    BY <1>13, Zenon DEF Prepare, AdornByRule, Unadorned, Rewrite, Through
  <2> QED
    BY <1>1, <1>3, <1>6, <2>1, AppendedList
<1>14. CASE EndAdorn
  BY <1>3, <1>6, <1>14, EmptyIsList DEF EndAdorn
<1>15. CASE SortByScript
  BY <1>1, <1>3, <1>6, <1>15 DEF SortByScript
<1>16. CASE StartExport
  BY <1>1, <1>3, <1>16 DEF StartExport
<1>17. CASE NameFree
  BY <1>1, <1>3, <1>17, AppendedList DEF NameFree
<1>18. CASE WriteDocument
  BY <1>4, <1>18 DEF WriteDocument, Fail
<1> QED
  BY <1>2, <1>5, <1>7, <1>8, <1>9, <1>10, <1>11, <1>12, <1>13, <1>14, <1>15, <1>16, <1>17, <1>18 DEF Next

\* This is what has to be shown.
LEMMA NothingHolds == Checked /\ Kept /\ Numbered => NothingLost
<1> SUFFICES ASSUME Checked, Kept, Numbered PROVE NothingLost
  OBVIOUS
<1>1. suffix <= Len(done) + 1
  BY DEF Numbered
<1>2. ASSUME stage = "done"
      PROVE  AllRead /\ \E left \in WantedLeft : IF Options.sort THEN SameItems(TagsOf(done), left) ELSE TagsOf(done) = left
  BY <1>2 DEF Kept, Accounts
<1>3. Wanted = Filtered(InSources, {i \in DOMAIN InSources : InSources[i].type \in Supported(job.target)})
  BY DEF Wanted, CanExport
<1> HIDE DEF Wanted
<1> QED
  BY <1>1, <1>2, <1>3 DEF NothingLost, WantedLeft, AllRead

\* Nothing is lost on the way, whatever texts are read, settings and options apply and
\* scripts answer: a conversion that succeeds has read every link of every source and
\* exports each node that its target supports as often as the sources hold it, unless
\* a filter left it out, and in their order unless it sorts; and a node finds a free
\* name among as many as there are names already.  Provided that numerals differ
\* (parse_subscription_source, convert_subscription_with_settings, export_nodes,
\* make_unique_remarks).
THEOREM NothingIsLost == ASSUME NumeralsDiffer PROVE Spec => []NothingLost
<1>1. Init => Checked /\ Parsing /\ Kept /\ Numbered
  <2>1. Init => Checked
    BY DEF Init, Checked
  <2> QED
    BY <2>1, ParsingStarts, KeptStarts, NumberedStarts
<1>2. Checked /\ Parsing /\ Kept /\ Numbered /\ [Next]_vars => (Checked /\ Parsing /\ Kept /\ Numbered)'
  BY CheckedStep, ParsingStep, KeptStep, NumberedStep
<1>3. Checked /\ Parsing /\ Kept /\ Numbered => NothingLost
  BY NothingHolds
<1> QED
  BY <1>1, <1>2, <1>3, PTL DEF Spec
=============================================================================
