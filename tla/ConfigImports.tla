--------------------------- MODULE ConfigImports ---------------------------
(***************************************************************************)
(* Import lines of a configuration text, and one round of replacing them   *)
(* (import_refs, expand_imports_with in subconverter-core/src/config.rs).  *)
(* The server and the Worker repeat rounds up to a limit, the command line *)
(* makes a single one.                                                     *)
(*                                                                         *)
(* A text is a sequence of lines.  Of a line the model keeps what the code *)
(* looks at:                                                               *)
(*   text   no import: `key=value`, `- item`                               *)
(*   skip   blank, or a comment                                            *)
(*   bare   `!!import:ref`, an entry of a list file                        *)
(*   ini    `key=!!import:ref`                                             *)
(*   yaml   `- import: ref`                                                *)
(*   toml   `import = "ref"`                                               *)
(*   head   a YAML key which opens a list, `rename_node:`                  *)
(*   open   `[[table]]`                                                    *)
(*   sect   `[section]`                                                    *)
(***************************************************************************)
EXTENDS Naturals, Sequences, SequencesExt

CONSTANTS
  References,  \* names a text may import
  TableFiles   \* those that tables import

ASSUME TablesAreFiles == TableFiles \subseteq References

Heads == {"custom_proxy_group", "rename_node", "rulesets", "emojis", "rules"}

Plain(kind)        == [kind |-> kind]
Importing(kind, r) == [kind |-> kind, ref |-> r]
Heading(list)      == [kind |-> "head", list |-> list]

Line == {Plain(k) : k \in {"text", "skip", "open", "sect"}}
        \cup {Importing(k, r) : k \in {"bare", "ini", "yaml"}, r \in References}
        \cup {Importing("toml", r) : r \in TableFiles}
        \cup {Heading(h) : h \in Heads}

-----------------------------------------------------------------------------

\* A table's block runs from `[[table]]` to the next line that starts with a bracket.
Brackets(t, i) == {j \in 1..i : t[j].kind \in {"open", "sect"}}
BlockStart(t, i) == IF Brackets(t, i) = {} THEN 0 ELSE Max(Brackets(t, i))

InBlock(t, i) == BlockStart(t, i) # 0 /\ t[BlockStart(t, i)].kind = "open"

\* Lines of the block of line i which name an import.
BlockImports(t, i) ==
    {j \in DOMAIN t : t[j].kind = "toml" /\ InBlock(t, j) /\ BlockStart(t, j) = BlockStart(t, i)}

\* Lines outside of tables that import.
LineImports(t) == {i \in DOMAIN t : t[i].kind \in {"ini", "yaml"} /\ ~InBlock(t, i)}

TableImports(t) == {i \in DOMAIN t : t[i].kind = "toml" /\ InBlock(t, i)}

\* What a round loads: each file once, and all imports of a table.
ImportRefs(t) == {t[i].ref : i \in LineImports(t) \cup TableImports(t)}

-----------------------------------------------------------------------------

\* The list a YAML import stands in, found by looking back over what was put out.
HeadsOf(out, lists) == {i \in DOMAIN out : out[i].kind = "head" /\ out[i].list \in lists}

YamlContext(out) ==
    LET rules  == HeadsOf(out, {"rules"})
        emojis == HeadsOf(out, {"emojis"})
        isEmoji(i) == \E e \in emojis : e > i \/ e < Max(rules)
        hits   == HeadsOf(out, {"custom_proxy_group", "rename_node", "rulesets"})
                  \cup {i \in rules : isEmoji(i)}
    IN  IF hits = {} THEN "unknown" ELSE out[Max(hits)].list

\* `key=` is put before every line of an imported list: an entry that imports
\* becomes an import of the next round, any other import line a plain value.
IniLine(l) == IF l.kind = "bare" THEN Importing("ini", l.ref) ELSE Plain("text")

IniLines(file) ==
    FlattenSeq([i \in DOMAIN file |-> IF file[i].kind = "skip" THEN <<>> ELSE <<IniLine(file[i])>>])

\* In a known list only the entries of that list are kept, elsewhere each line
\* is quoted; an import inside the file is lost or quoted in either case.
YamlLines(context, file) ==
    LET Kept(l) == IF context = "unknown" THEN l.kind # "skip" ELSE l.kind = "text"
    IN  FlattenSeq([i \in DOMAIN file |-> IF Kept(file[i]) THEN <<Plain("text")>> ELSE <<>>])

\* A table with an import is replaced by its first import's file, the rest is dropped.
ExpandTable(t, files, out, i) ==
    LET imports == BlockImports(t, i) IN
    IF imports = {} THEN Append(out, t[i])
    ELSE IF t[i].kind = "open" THEN out \o files[t[Min(imports)].ref] ELSE out

ExpandLine(t, files, out, i) ==
    IF InBlock(t, i) THEN ExpandTable(t, files, out, i)
    ELSE CASE t[i].kind = "ini"  -> out \o IniLines(files[t[i].ref])
           [] t[i].kind = "yaml" -> out \o YamlLines(YamlContext(out), files[t[i].ref])
           [] OTHER              -> Append(out, t[i])

ExpandImports(t, files) ==
    LET expanded[i \in 0..Len(t)] ==
            IF i = 0 THEN <<>> ELSE ExpandLine(t, files, expanded[i - 1], i)
    IN  expanded[Len(t)]

-----------------------------------------------------------------------------

\* What a text goes on to import, told from how it was itself brought in: a text
\* on its own or in the place of a table keeps its imports, a list behind an INI
\* key keeps its entries, a list inside YAML keeps nothing.
Inclusion == [how : {"ini", "yaml", "table"}, ref : References]

FirstOfTable(t, i) == \A j \in BlockImports(t, i) : i <= j

Includes(t) ==
    {[how |-> t[i].kind, ref |-> t[i].ref] : i \in LineImports(t)}
    \cup {[how |-> "table", ref |-> t[i].ref] :
             i \in {j \in TableImports(t) : FirstOfTable(t, j)}}

IncludedBy(inc, files) ==
    LET t == files[inc.ref] IN
    CASE inc.how = "ini"   -> {[how |-> "ini", ref |-> t[i].ref] :
                                  i \in {j \in DOMAIN t : t[j].kind = "bare"}}
      [] inc.how = "table" -> Includes(t)
      [] OTHER             -> {}

\* Files that can be read.  What a table imports stands on its own, as the files in
\* base/ do: all that it imports is behind a line with a bracket.
OnItsOwn(t) == \A i \in DOMAIN t : t[i].kind \in {"ini", "yaml", "toml"} => BlockStart(t, i) # 0

ImportFiles(files) ==
    /\ DOMAIN files \subseteq References
    /\ \A r \in DOMAIN files :
          files[r] \in Seq(Line) /\ (r \in TableFiles => OnItsOwn(files[r]))

\* The inclusions met n levels below a text.
Level(t, files, depth) ==
    LET level[n \in 0..depth] ==
            IF n = 0 THEN Includes(t)
            ELSE UNION {IncludedBy(inc, files) : inc \in level[n - 1]}
    IN  level
=============================================================================
