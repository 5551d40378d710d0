----------------------------- MODULE Conversion -----------------------------
(***************************************************************************)
(* One conversion: convert_subscription_with_settings of convert.rs, from  *)
(* the texts of the sources to the document.  Scripts of the settings are  *)
(* called node by node; what they answer and when is not the program's to  *)
(* say, but all of them together have one time limit.  Options are those   *)
(* after apply_settings_defaults_to_options (module SettingsLayers).       *)
(***************************************************************************)
EXTENDS Documents

CONSTANTS
  Jobs,          \* conversions that are asked for
  Reading,       \* of each text, the nodes that it holds
  ScriptTime,    \* the time limit of scripts
  ScriptRemarks  \* what rename and getEmoji may answer, "" excepted

ASSUME ScriptTimePositive == ScriptTime \in Nat \ {0}

\* Rules that come with a request are never scripts (parse_emoji_rules).
ASSUME RequestRulesPlain ==
    \A j \in Jobs : \A i \in DOMAIN j.options.emoji : ~j.options.emoji[i].script

\* Texts, what they hold, and the words of all names there can be.
SourceEntry ==
    [id : STRING, type : STRING, group : STRING, remark : Remark, port : Nat, age : STRING]
SourceItem ==
    [kind : {"link"}, valid : {TRUE}, node : SourceEntry] \cup [kind : {"link"}, valid : {FALSE}]
        \cup [kind : {"other"}, decoded : Seq(DOMAIN Reading)]
SourceText == [yaml : Seq(SourceEntry), json : Seq(SourceEntry), items : Seq(SourceItem)]
TypeWord(type) == "[" \o type \o "]"

ASSUME TextsAreTyped ==
    /\ DOMAIN Reading \subseteq SourceText
    /\ \A j \in Jobs : j.sources \in Seq(DOMAIN Reading)

ASSUME WordsAreKnown ==
    /\ TypeWord("SS") \in Word
    /\ \A text \in DOMAIN Reading :
          /\ \A i \in DOMAIN text.yaml : TypeWord(text.yaml[i].type) \in Word
          /\ \A i \in DOMAIN text.items :
                text.items[i].kind = "link" /\ text.items[i].valid => TypeWord(text.items[i].node.type) \in Word
    /\ ScriptRemarks \subseteq Remark /\ Emojis \subseteq Word
    /\ \A j \in Jobs :
          /\ j.options.rename \in Seq([match : Word, replace : Word])
          /\ \A i \in DOMAIN j.settings.rename : ~j.settings.rename[i].script => j.settings.rename[i].replace \in Word
          /\ \A rules \in {j.options.emoji, j.settings.emoji} :
                \A i \in DOMAIN rules : ~rules[i].script => rules[i].replace \in Word

ASSUME SettingsAreTyped ==
    \A j \in Jobs :
       /\ j.settings.groups \in Seq(ProxyGroupConfig)
       /\ j.settings.rulesets \in Seq(RulesetConfig)
       /\ j.settings.textBase \in Seq(BaseLine)

VARIABLES
  job,     \* the conversion
  stage,
  todo,    \* texts and links still to be read
  nodes,   \* nodes still to go through the stage
  done,    \* nodes that went through it
  rule,    \* the next rule for the first node
  now,     \* time that scripts took
  suffix,  \* the next suffix to try for the first node; 1 stands for none
  doc      \* the document, or why there is none

vars == <<job, stage, todo, nodes, done, rule, now, suffix, doc>>

Settings == job.settings
Options == job.options
Node == Head(nodes)

Texts(sources) == [i \in DOMAIN sources |-> [kind |-> "text", text |-> sources[i]]]

Init ==
    /\ job \in Jobs
    /\ stage = "parse" /\ todo = Texts(job.sources)
    /\ nodes = <<>> /\ done = <<>> /\ rule = 1 /\ now = 0 /\ suffix = 1
    /\ doc = [why |-> "unfinished"]

Fail(why) ==
    /\ stage' = "failed" /\ doc' = [why |-> why]
    /\ UNCHANGED <<job, todo, nodes, done, rule, suffix>>

\* A stage is over when its last node is through.
Advance(from, to) ==
    /\ stage = from /\ nodes = <<>>
    /\ stage' = to /\ nodes' = done /\ done' = <<>>
    /\ UNCHANGED <<job, todo, rule, now, suffix, doc>>

-----------------------------------------------------------------------------
\* Reading the sources (parse_subscription_source).

ProviderOf(type) ==
    CASE type = "VMESS" -> "V2RayProvider"
      [] type \in {"HTTP", "HTTPS"} -> "HTTPProvider"
      [] type = "SOCKS5" -> "SocksProvider"
      [] type = "SS" -> "SSProvider"
      [] type = "SSR" -> "SSRProvider"
      [] type = "TROJAN" -> "TrojanProvider"
      [] OTHER -> "OtherProvider"

Proxy(entry) == [entry EXCEPT !.group = IF @ = "" THEN ProviderOf(entry.type) ELSE @]

\* Entries of other types are left out.
YamlTypes == {"SS", "SSR", "VMESS", "TROJAN", "SNELL", "HTTP", "SOCKS5", "WIREGUARD",
              "HYSTERIA", "HYSTERIA2"}
YamlNodes(text) ==
    LET known == Filtered(text.yaml, {i \in DOMAIN text.yaml : text.yaml[i].type \in YamlTypes})
    IN  [i \in DOMAIN known |-> Proxy(known[i])]

\* All servers of a JSON subscription are Shadowsocks.
JsonNodes(text) == [i \in DOMAIN text.json |-> Proxy([text.json[i] EXCEPT !.type = "SS"])]

\* Were the work that one item brings done after all others...
WorkLast(work, rest) == rest \o work
\* ...but it is done before the next item.
WorkFirst(work, rest) == work \o rest

Read(found, work) ==
    /\ nodes' = nodes \o found
    /\ todo' = WorkFirst(work, Tail(todo))
    /\ UNCHANGED <<job, stage, done, rule, now, suffix, doc>>

\* A text is a Clash configuration, a JSON subscription or a list of links: the
\* first of them that has nodes.
ParseText ==
    /\ stage = "parse" /\ todo # <<>> /\ Head(todo).kind = "text"
    /\ LET text == Head(todo).text IN
       IF YamlNodes(text) # <<>> THEN Read(YamlNodes(text), <<>>)
       ELSE IF text.json # <<>> THEN Read(JsonNodes(text), <<>>)
       ELSE Read(<<>>, text.items)

ParseLink ==
    /\ stage = "parse" /\ todo # <<>> /\ Head(todo).kind = "link"
    /\ IF Head(todo).valid THEN Read(<<Proxy(Head(todo).node)>>, <<>>)
       ELSE Fail("parse") /\ UNCHANGED now

\* What is no link may be base64 of a text, and is left out otherwise.
ParseOther ==
    /\ stage = "parse" /\ todo # <<>> /\ Head(todo).kind = "other"
    /\ Read(<<>>, Texts(Head(todo).decoded))

ScriptsRequested ==
    \/ Settings.filterScript \/ Settings.sortScript \/ Settings.streamScript
    \/ \E i \in DOMAIN Settings.rename : Settings.rename[i].script
    \/ \E i \in DOMAIN Settings.emoji : Settings.emoji[i].script

EndParse ==
    /\ stage = "parse" /\ todo = <<>>
    /\ IF nodes = <<>> THEN Fail("no nodes") /\ UNCHANGED now
       ELSE IF ScriptsRequested /\ ~job.authorized THEN Fail("forbidden") /\ UNCHANGED now
       ELSE /\ stage' = IF Settings.filterScript THEN "filter" ELSE "prefer"
            /\ UNCHANGED <<job, todo, nodes, done, rule, now, suffix, doc>>

-----------------------------------------------------------------------------
\* Scripts (quickjs_call).  The limits are made once, before the first of them.

\* Each stage has the whole limit for itself.
DeadlinePerStage == IF stage = "filter" THEN ScriptTime ELSE 2 * ScriptTime
Deadline == ScriptTime

\* It answers within the limit, at once or after a while...
ScriptAnswers == now < Deadline /\ now' \in {now, now + 1}

EmojiRules ==
    IF ~Options.addEmoji THEN <<>> ELSE IF Options.emoji # <<>> THEN Options.emoji ELSE Settings.emoji

Calling ==
    \/ stage = "filter" /\ nodes # <<>>
    \/ stage = "rename" /\ nodes # <<>> /\ rule \in DOMAIN Settings.rename /\ Settings.rename[rule].script
    \/ stage = "adorn" /\ nodes # <<>> /\ rule \in DOMAIN EmojiRules /\ EmojiRules[rule].script
    \/ stage = "sort" /\ Len(nodes) > 1

\* ...or it throws, is stopped at the limit, or is not called any more.
ScriptFails ==
    /\ Calling
    /\ now' \in IF now < Deadline THEN {now, Deadline} ELSE {now}
    /\ Fail(IF now' < Deadline THEN "script" ELSE "timeout")

\* The filter says of each node whether it stays.
FilterNode ==
    /\ stage = "filter" /\ nodes # <<>> /\ ScriptAnswers
    /\ nodes' = Tail(nodes) /\ done' \in {done, Append(done, Node)}
    /\ UNCHANGED <<job, stage, todo, rule, suffix, doc>>

EndFilter == Advance("filter", "prefer")

-----------------------------------------------------------------------------
\* What the settings want of nodes (apply_node_preferences).

Prefer ==
    /\ stage = "prefer" /\ stage' = "rename" /\ rule' = 1
    /\ nodes' = Selected(nodes, ByRemark(Settings.include), ByRemark(Settings.exclude))
    /\ UNCHANGED <<job, todo, done, now, suffix, doc>>

WithRemark(node, remark) ==
    [id |-> node.id, type |-> node.type, group |-> node.group, remark |-> remark,
     port |-> node.port, age |-> node.age]

\* The first node is through: it leaves as `node`.
Through(node, next) ==
    /\ done' = Append(done, node) /\ nodes' = Tail(nodes) /\ rule' = next
    /\ UNCHANGED <<job, stage, todo, suffix, doc>>

\* One rule was applied to the first node.
Rewrite(node) ==
    /\ nodes' = <<node>> \o Tail(nodes) /\ rule' = rule + 1
    /\ UNCHANGED <<job, stage, todo, done, suffix, doc>>

RenameByRule ==
    /\ stage = "rename" /\ nodes # <<>> /\ rule \in DOMAIN Settings.rename
    /\ LET r == Settings.rename[rule] IN
       IF r.script
         THEN ScriptAnswers /\ \E remark \in ScriptRemarks \cup {Node.remark} :
                                  Rewrite(WithRemark(Node, remark))
       ELSE Rewrite(WithRemark(Node, Renamed(Node.remark, r))) /\ UNCHANGED now

RenamedNode ==
    /\ stage = "rename" /\ nodes # <<>> /\ rule \notin DOMAIN Settings.rename
    /\ Through(Node, 1) /\ UNCHANGED now

EndRename == Advance("rename", "select")

-----------------------------------------------------------------------------
\* What the request wants of them, as they are named now (apply_convert_options).

Select ==
    /\ stage = "select" /\ stage' = "adorn" /\ rule' = 0
    /\ nodes' = Selected(nodes, Options.include, Options.exclude)
    /\ UNCHANGED <<job, todo, done, now, suffix, doc>>

\* First its group, its old emoji and the renaming of the request...
Prepared(node) ==
    LET bare == IF Options.removeEmoji THEN WithoutEmoji(node.remark) ELSE node.remark
    IN  [node EXCEPT !.group = IF Options.group # "" THEN Options.group ELSE @,
                     !.remark = RenamedByAll(bare, Options.rename)]

Prepare ==
    /\ stage = "adorn" /\ nodes # <<>> /\ rule = 0
    /\ Rewrite(Prepared(Node)) /\ UNCHANGED now

\* ...then the emoji of the first rule that gives one, and its type.
Typed(node) ==
    IF Options.appendType THEN WithRemark(node, <<TypeWord(node.type)>> \o node.remark) ELSE node

Adorned(emoji) == Typed(WithRemark(Node, <<emoji>> \o Node.remark))

AdornByRule ==
    /\ stage = "adorn" /\ nodes # <<>> /\ rule \in DOMAIN EmojiRules
    /\ LET r == EmojiRules[rule] IN
       IF r.script
         THEN /\ ScriptAnswers
              /\ \/ Rewrite(Node)
                 \/ \E emoji \in Emojis : Through(Adorned(emoji), 0)
       ELSE /\ IF EmojiApplies(Node.remark, r) THEN Through(Adorned(r.replace), 0) ELSE Rewrite(Node)
            /\ UNCHANGED now

Unadorned ==
    /\ stage = "adorn" /\ nodes # <<>> /\ rule > Len(EmojiRules)
    /\ Through(Typed(Node), 0) /\ UNCHANGED now

EndAdorn ==
    /\ stage = "adorn" /\ nodes = <<>> /\ done' = <<>>
    /\ IF Options.sort /\ Settings.sortScript THEN stage' = "sort" /\ nodes' = done
       ELSE stage' = "export" /\ nodes' = IF Options.sort THEN Sorted(done) ELSE done
    /\ UNCHANGED <<job, todo, rule, now, suffix, doc>>

\* The comparisons of a script make any order.
SortByScript ==
    /\ stage = "sort"
    /\ IF Len(nodes) > 1 THEN ScriptAnswers ELSE UNCHANGED now
    /\ \E order \in Bijection(DOMAIN nodes, DOMAIN nodes) : nodes' = [i \in DOMAIN nodes |-> nodes[order[i]]]
    /\ stage' = "export"
    /\ UNCHANGED <<job, todo, done, rule, suffix, doc>>

-----------------------------------------------------------------------------
\* Names and export (export_nodes, make_unique_remarks).

StartExport ==
    /\ stage = "export" /\ stage' = "name" /\ suffix' = 1
    /\ nodes' = Filtered(nodes, {i \in DOMAIN nodes : nodes[i].type \in Supported(job.target)})
    /\ UNCHANGED <<job, todo, done, rule, now, doc>>

UsedNames == {done[i].remark : i \in DOMAIN done}
Candidate ==
    IF suffix = 1 THEN Dashed(Node.remark) ELSE Append(Dashed(Node.remark), Numeral(suffix))
\* A name with a suffix is not looked up again.
NameIsTakenOnce == suffix = 1 /\ Candidate \in UsedNames
NameIsTaken == Candidate \in UsedNames

NameTaken ==
    /\ stage = "name" /\ nodes # <<>> /\ NameIsTaken
    /\ suffix' = suffix + 1
    /\ UNCHANGED <<job, stage, todo, nodes, done, rule, now, doc>>

NameFree ==
    /\ stage = "name" /\ nodes # <<>> /\ ~NameIsTaken
    /\ done' = Append(done, WithRemark(Node, Candidate)) /\ nodes' = Tail(nodes) /\ suffix' = 1
    /\ UNCHANGED <<job, stage, todo, rule, now, doc>>

WriteDocument ==
    /\ stage = "name" /\ nodes = <<>>
    /\ IF BrokenBase(job) THEN Fail("base") /\ UNCHANGED now
       ELSE /\ stage' = "done" /\ doc' = Export(job, done)
            /\ UNCHANGED <<job, todo, nodes, done, rule, now, suffix>>

Next ==
    \/ ParseText \/ ParseLink \/ ParseOther \/ EndParse
    \/ ScriptFails
    \/ FilterNode \/ EndFilter
    \/ Prefer \/ RenameByRule \/ RenamedNode \/ EndRename
    \/ Select \/ Prepare \/ AdornByRule \/ Unadorned \/ EndAdorn \/ SortByScript
    \/ StartExport \/ NameTaken \/ NameFree \/ WriteDocument

Spec == Init /\ [][Next]_vars

-----------------------------------------------------------------------------

Stages == {"parse", "filter", "prefer", "rename", "select", "adorn", "sort", "export", "name",
           "done", "failed"}

\* The variables have their types, and the scripts of a conversion never take
\* longer than their one limit in all (ScriptLimits, quickjs_call).
TypeOK ==
    /\ stage \in Stages
    /\ rule \in Nat /\ now \in 0..ScriptTime /\ suffix \in Nat \ {0}
    /\ stage \notin {"done", "failed"} => doc = [why |-> "unfinished"]

\* No script is called for a request that is not allowed to run scripts, in
\* whichever place of the settings it stands (ensure_scripts_allowed).
ScriptsAuthorized == Calling \/ now > 0 => job.authorized

\* As soon as nodes have their final names no two have the same
\* (make_unique_remarks).
UniqueNames ==
    stage \in {"name", "done"} =>
        \A i, j \in DOMAIN done : done[i].remark = done[j].remark => i = j

-----------------------------------------------------------------------------
\* The nodes that the sources hold, in their order, which have to be read as far as
\* they are links: a reading of parse_subscription_source that knows nothing of the
\* steps.
TagsOf(list) == [i \in DOMAIN list |-> [read |-> TRUE, id |-> list[i].id, type |-> list[i].type]]
Tag == [read : {TRUE}, id : STRING, type : STRING] \cup [read : {FALSE}]

NodesAt(item, reading) ==
    CASE item.kind = "text"  -> reading[item.text]
      [] item.kind = "link"  -> IF item.valid THEN TagsOf(<<item.node>>) ELSE <<[read |-> FALSE]>>
      [] item.kind = "other" -> FlattenSeq([i \in DOMAIN item.decoded |-> reading[item.decoded[i]]])
NodesWith(text, reading) ==
    LET known == Filtered(text.yaml, {i \in DOMAIN text.yaml : text.yaml[i].type \in YamlTypes})
    IN  IF known # <<>> THEN TagsOf(known)
        ELSE IF text.json # <<>> THEN TagsOf([i \in DOMAIN text.json |-> [text.json[i] EXCEPT !.type = "SS"]])
        ELSE FlattenSeq([i \in DOMAIN text.items |-> NodesAt(text.items[i], reading)])

\* What a text holds follows from what the texts in it hold, which are shorter than it.
ASSUME ReadingIs ==
    /\ Reading \in [DOMAIN Reading -> Seq(Tag)]
    /\ \A text \in DOMAIN Reading : Reading[text] = NodesWith(text, Reading)

InSources == FlattenSeq([i \in DOMAIN job.sources |-> Reading[job.sources[i]]])

\* What a filter leaves of a list: nothing is gone if there is none.
Filtering ==
    \/ Settings.filterScript \/ Settings.include # <<>> \/ Settings.exclude # <<>>
    \/ Options.include # <<>> \/ Options.exclude # <<>>
LeftOf(list) ==
    {Filtered(list, places) : places \in IF Filtering THEN SUBSET DOMAIN list ELSE {DOMAIN list}}

Occurrences(list, x) == Cardinality({i \in DOMAIN list : list[i] = x})
SameItems(list, other) ==
    \A x \in Range(list) \cup Range(other) : Occurrences(list, x) = Occurrences(other, x)

\* Nothing is lost on the way: a conversion that succeeds has read every link of
\* every source, and exports each node that its target supports as often as the
\* sources hold it, unless a filter of the settings or the request left it out, and in
\* the order of the sources, unless it sorts them; nor does a node wait for its name
\* longer than there are names (parse_subscription_source,
\* convert_subscription_with_settings, make_unique_remarks).
NothingLost ==
    /\ suffix <= Len(done) + 1
    /\ stage = "done" =>
        LET CanExport(i) == InSources[i].type \in Supported(job.target)
            wanted == Filtered(InSources, {i \in DOMAIN InSources : CanExport(i)})
        IN  /\ \A i \in DOMAIN InSources : InSources[i].read
            /\ \E left \in LeftOf(wanted) :
                  IF Options.sort THEN SameItems(TagsOf(done), left) ELSE TagsOf(done) = left

-----------------------------------------------------------------------------
\* What the document defines and names, in whichever format it is; of a text, what
\* a reader finds in the three sections of its format.
InSections ==
    FlattenSeq([k \in 1..3 |-> Under(doc.lines, SectionTitles(job.target)[k])])
Defined ==
    IF "lines" \notin DOMAIN doc THEN doc
    ELSE LET lines == InSections
             That(is) == Filtered(lines, {i \in DOMAIN lines : lines[i].is = is})
             proxies == That("proxy")
         IN  [proxies |-> [i \in DOMAIN proxies |-> proxies[i].name],
              groups |-> That("group"), rules |-> That("rule"), providers |-> <<>>]

BuiltIn == {Name("DIRECT"), Name("REJECT")}
NamesIn(document) ==
    Range(document.proxies) \cup {document.groups[i].name : i \in DOMAIN document.groups} \cup BuiltIn

\* Settings whose groups and rulesets name only groups they define.
OwnGroups ==
    IF Settings.groups = <<>> THEN {Name("Proxy")}
    ELSE {Settings.groups[i].name : i \in DOMAIN Settings.groups}
Coherent ==
    /\ \A i \in DOMAIN Settings.rulesets : Settings.rulesets[i].group \in OwnGroups \cup BuiltIn
    /\ Settings.rulesets = <<>> => Name("Proxy") \in OwnGroups
    /\ \A i \in DOMAIN Settings.groups : \A k \in DOMAIN Settings.groups[i].proxies :
          LET m == Settings.groups[i].proxies[k]
          IN  m.by = "name" => m.value \in OwnGroups \cup BuiltIn

\* A base that has each of the sections that are merged into it once or not at all.
Base == Settings.textBase
Once(config, title) == \A i, j \in Openings(config, title) : i = j
EachOnce == \A title \in Range(SectionTitles(job.target)) : Once(Base, title)

\* No node has the name of a proxy that the program itself puts into the document.
OwnNames ==
    CASE job.target = "singbox" -> Range(OwnOutbounds)
      [] job.target \in {"surge", "surfboard"} -> {Name("DIRECT")}
      [] OTHER -> {}
NoOwnNames == \A i \in DOMAIN done : done[i].remark \notin OwnNames

\* Surge before version 4 is left out: its group names the nodes that surge_version
\* leaves without a line.
Resolvable ==
    /\ stage = "done" /\ Coherent /\ NoOwnNames
    /\ job.target \in TextTargets => EachOnce
    /\ job.target = "surge" => job.version = 4

\* Whatever sources, filters, renamings and targets do to the nodes, each proxy of
\* a document has a name of its own, and groups and rules name only what the
\* document defines, provided that the settings do so themselves, that no node
\* has a name of the program's own and that a text base does not have a section
\* twice (export_nodes, export_clash, merge_singbox_base, text_rules).
ReferencesResolve ==
    Resolvable =>
        LET document == Defined
            names == NamesIn(document)
        IN  /\ IsInjective(document.proxies)
            /\ \A i \in DOMAIN document.groups : Range(document.groups[i].members) \subseteq names
            /\ \A i \in DOMAIN document.rules : document.rules[i].to \in names

\* Merging into a base that has each of the sections once or not at all: a reader
\* finds under every title what the base had there and then what was generated, or
\* only that where the original is overwritten, and the rest as it was
\* (apply_text_rule_base, append_to_section, replace_section).
Merging ==
    stage = "done" /\ job.target \in TextTargets /\ ~Options.nodelist /\ Headers(Base) # {} /\ EachOnce

SectionsMerged ==
    Merging =>
        LET generated == Generated(job, done)
            Overwritten(title) == Settings.overwrite /\ title \notin NodeTitles
        IN  \A title \in TitlesOf(Base) \cup TitlesOf(generated) :
               Under(doc.lines, title) =
                   IF Overwritten(title) /\ Under(generated, title) # <<>> THEN Under(generated, title)
                   ELSE Under(Base, title) \o Under(generated, title)

-----------------------------------------------------------------------------
\* README.md: "managed Clash `rule-providers` backed by `/getruleset` when
\* `expand=false`".
RuleProvidersListed ==
    stage = "done" /\ job.target \in ClashTargets =>
        \A i \in DOMAIN doc.rules :
           doc.rules[i].match = "provider" =>
               \E k \in DOMAIN doc.providers : doc.providers[k].name = doc.rules[i].provider
=============================================================================
