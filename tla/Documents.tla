----------------------------- MODULE Documents -----------------------------
(***************************************************************************)
(* What the exporters of convert.rs put together from the nodes, the       *)
(* groups and the rulesets: proxies, groups and rules that name each other,*)
(* for Clash, sing-box, the text formats and lists of links.  How a node   *)
(* is written down in each format is left out, where it is left out of a   *)
(* format is not.                                                          *)
(***************************************************************************)
EXTENDS NodeNames, TextSections

Name(word) == <<word>>
NamesOf(nodes) == [i \in DOMAIN nodes |-> nodes[i].remark]

\* What the settings say of groups and rulesets.
Member ==
    [by : {"all"}] \cup [by : {"name"}, value : Seq(STRING)] \cup [by : {"group", "word"}, value : STRING]
ProxyGroupConfig == [name : Seq(STRING), proxies : Seq(Member)]
RulesetConfig ==
    [how : {"final", "geoip", "domain", "other"}, group : Seq(STRING)]
    \cup [how : {"list"}, group : Seq(STRING), managed : BOOLEAN, file : STRING]

-----------------------------------------------------------------------------
\* Which nodes a target can express.
ClashTargets == {"clash", "clashr"}
Supported(target) ==
    CASE target \in ClashTargets \cup {"singbox"} ->
            {"SS", "SSR", "VMESS", "TROJAN", "SNELL", "HTTP", "HTTPS", "SOCKS5",
             "WIREGUARD", "HYSTERIA", "HYSTERIA2"}
      [] target \in {"ss", "sssub", "ssd"} -> {"SS"}
      [] target = "ssr"    -> {"SSR"}
      [] target = "v2ray"  -> {"VMESS"}
      [] target = "trojan" -> {"TROJAN"}
      [] target = "mixed"  -> {"SS", "SSR", "VMESS", "TROJAN"}
      [] target = "surge"  -> {"SS", "VMESS", "TROJAN", "SNELL", "SOCKS5", "HTTP", "HTTPS"}
      [] target \in {"surfboard", "quan", "quanx", "loon"} ->
            {"SS", "VMESS", "TROJAN", "SOCKS5", "HTTP", "HTTPS"}
      [] target = "mellow" -> {"SS", "VMESS", "TROJAN"}

\* An SSR node is "clashr" if only ClashR knows its cipher.
Deprecated(node, target, filter) ==
    /\ filter
    /\ \/ node.type \in {"SS", "SSR"} /\ node.age = "deprecated"
       \/ node.type = "SSR" /\ node.age = "clashr" /\ target # "clashr"

ForClash(nodes, target, filter) ==
    Filtered(nodes, {i \in DOMAIN nodes : ~Deprecated(nodes[i], target, filter)})

-----------------------------------------------------------------------------
\* Groups.

MembersOf(m, nodes) ==
    LET InGroup == {i \in DOMAIN nodes : nodes[i].group = m.value}
        WithWord == {i \in DOMAIN nodes : Has(nodes[i].remark, m.value)}
    IN  CASE m.by = "name"  -> <<m.value>>
          [] m.by = "all"   -> NamesOf(nodes)
          [] m.by = "group" -> NamesOf(Filtered(nodes, InGroup))
          [] m.by = "word"  -> NamesOf(Filtered(nodes, WithWord))

\* Only repetitions in a row are removed.
Deduplicated(names) == Filtered(names, {i \in DOMAIN names : i = 1 \/ names[i] # names[i - 1]})

ExpandGroupRules(rules, nodes) ==
    Deduplicated(FlattenSeq([i \in DOMAIN rules |-> MembersOf(rules[i], nodes)]))

\* A group that would be empty has all nodes.
ExpandedGroup(group, nodes) ==
    LET members == ExpandGroupRules(group.proxies, nodes)
    IN  [name |-> group.name, members |-> IF members = <<>> THEN NamesOf(nodes) ELSE members]

DefaultGroup(nodes) == <<[name |-> Name("Proxy"), members |-> NamesOf(nodes)]>>

ProxyGroups(groups, nodes) ==
    IF groups = <<>> THEN DefaultGroup(nodes)
    ELSE [i \in DOMAIN groups |-> ExpandedGroup(groups[i], nodes)]

-----------------------------------------------------------------------------
\* Clash: rules, and the providers of those that stay lists.

UseRuleProvider(r, job) ==
    r.how = "list" /\ r.managed /\ ~job.options.expand /\ job.settings.prefix

ProviderName(r) == Name(r.file)

ClashRule(r, job) ==
    CASE r.how = "final"  -> [match |-> "all", to |-> r.group]
      [] r.how \in {"geoip", "domain", "other"} -> [match |-> "inline", to |-> r.group]
      [] r.how = "list"   -> IF UseRuleProvider(r, job)
                               THEN [match |-> "provider", provider |-> ProviderName(r), to |-> r.group]
                             ELSE [match |-> "path", to |-> r.group]

ClashRules(job) ==
    LET rulesets == job.settings.rulesets
    IN  IF rulesets = <<>> THEN <<[match |-> "all", to |-> Name("Proxy")]>>
        ELSE [i \in DOMAIN rulesets |-> ClashRule(rulesets[i], job)]

\* A provider gets a new name where the name is taken; the rules keep theirs.
FreshProvider(providers, r) ==
    LET used == {providers[i].name : i \in DOMAIN providers}
        Numbered(n) == Append(ProviderName(r), Numeral(n))
        n == Min({k \in 2..(Len(providers) + 2) : Numbered(k) \notin used})
    IN  Append(providers, [name |-> IF ProviderName(r) \in used THEN Numbered(n) ELSE ProviderName(r),
                           serves |-> r])

RuleProviders(job) ==
    LET rulesets == job.settings.rulesets
        Managed == {i \in DOMAIN rulesets : UseRuleProvider(rulesets[i], job)}
    IN  FoldLeft(FreshProvider, <<>>, Filtered(rulesets, Managed))

ClashDocument(job, nodes) ==
    LET kept == ForClash(nodes, job.target, job.options.filterDeprecated)
    IN  [proxies |-> NamesOf(kept), groups |-> ProxyGroups(job.settings.groups, kept),
         rules |-> ClashRules(job), providers |-> RuleProviders(job)]

\* A base that is a map gives way to the proxies, groups and rules, and keeps its
\* own providers.
MergeClashBase(doc, base) ==
    IF base.kind = "map" THEN [doc EXCEPT !.providers = base.providers] ELSE doc

OnlyProxies(names) == [proxies |-> names, groups |-> <<>>, rules |-> <<>>, providers |-> <<>>]

ExportClash(job, nodes) ==
    LET doc == ClashDocument(job, nodes)
    IN  IF job.options.nodelist THEN OnlyProxies(doc.proxies)
        ELSE MergeClashBase(doc, job.settings.clashBase)

-----------------------------------------------------------------------------
\* sing-box: outbounds of the program's own, of the nodes and of the groups; rules
\* only of the forms it can express.
OwnOutbounds == <<Name("DIRECT"), Name("REJECT"), Name("dns-out")>>

SingboxGroups(groups, nodes) ==
    ProxyGroups(groups, nodes)
        \o <<[name |-> Name("GLOBAL"), members |-> <<Name("DIRECT")>> \o NamesOf(nodes)]>>

SingboxRules(settings) ==
    LET Expressed(i) == settings.rulesets[i].how \in {"final", "geoip", "domain"}
        kept == Filtered(settings.rulesets, {i \in DOMAIN settings.rulesets : Expressed(i)})
    IN  <<[match |-> "inline", to |-> Name("GLOBAL")], [match |-> "inline", to |-> Name("DIRECT")],
          [match |-> "inline", to |-> Name("dns-out")]>>
            \o [i \in DOMAIN kept |-> [match |-> IF kept[i].how = "final" THEN "all" ELSE "inline",
                                       to |-> kept[i].group]]

ExportSingbox(job, nodes) ==
    IF job.options.nodelist \/ job.settings.jsonBase # "object" THEN OnlyProxies(NamesOf(nodes))
    ELSE [proxies |-> OwnOutbounds \o NamesOf(nodes),
          groups |-> SingboxGroups(job.settings.groups, nodes),
          rules |-> SingboxRules(job.settings), providers |-> <<>>]

-----------------------------------------------------------------------------
\* Text formats: three sections.

ProxyLine(name) == [is |-> "proxy", name |-> name]
GroupLine(name, members) == [is |-> "group", name |-> name, members |-> members]
RuleLine(to) == [is |-> "rule", to |-> to]
ProxyLines(nodes) == [i \in DOMAIN nodes |-> ProxyLine(nodes[i].remark)]
Either(lines, otherwise) == IF lines = <<>> THEN otherwise ELSE lines

\* Before version 4 Surge has no VMess and no Trojan: such a node gets no line.
SurgeLines(nodes, version) ==
    LET Written(node) == version = 4 \/ node.type \notin {"VMESS", "TROJAN"}
    IN  ProxyLines(Filtered(nodes, {i \in DOMAIN nodes : Written(nodes[i])}))

DirectLine(job) ==
    IF job.target \in {"surge", "surfboard"} /\ ~job.options.nodelist
      THEN <<ProxyLine(Name("DIRECT"))>> ELSE <<>>

NodeLines(job, nodes) ==
    DirectLine(job)
        \o (IF job.target = "surge" THEN SurgeLines(nodes, job.version) ELSE ProxyLines(nodes))

\* Quan and QuanX have the groups of the settings, each with all nodes; the others
\* one group, whatever the settings say.
GroupLines(job, nodes) ==
    LET groups == job.settings.groups
        names == NamesOf(nodes)
    IN  IF job.target \in {"quan", "quanx"} /\ groups # <<>>
          THEN [i \in DOMAIN groups |-> GroupLine(groups[i].name, names)]
        ELSE <<GroupLine(Name("Proxy"), names)>>

RuleLines(job) ==
    LET rulesets == IF job.target \in {"quan", "quanx"} THEN job.settings.rulesets ELSE <<>>
    IN  Either([i \in DOMAIN rulesets |-> RuleLine(rulesets[i].group)], <<RuleLine(Name("Proxy"))>>)

Section(title, lines) == <<Heading(title)>> \o Either(lines, <<Blank>>)

Generated(job, nodes) ==
    LET titles == SectionTitles(job.target)
        first == IF job.target = "quanx" THEN GroupLines(job, nodes) ELSE NodeLines(job, nodes)
        second == IF job.target = "quanx" THEN NodeLines(job, nodes)
                  ELSE IF job.target = "surfboard" THEN <<Blank>> \o GroupLines(job, nodes)
                  ELSE GroupLines(job, nodes)
    IN  Section(titles[1], first) \o <<Blank>> \o Section(titles[2], second) \o <<Blank>>
            \o Section(titles[3], RuleLines(job))

ExportText(job, nodes) ==
    LET generated == Generated(job, nodes)
    IN  IF job.options.nodelist THEN generated
        ELSE ApplyTextRuleBase(generated, job.settings.textBase, job.target, job.settings.overwrite)

-----------------------------------------------------------------------------
\* Lists of links, and of entries made from a base: a node each.
ExportLinks(nodes) == OnlyProxies(NamesOf(nodes))
ExportEntries(nodes) == OnlyProxies(NamesOf(nodes))

TextTargets == {"surge", "surfboard", "loon", "mellow", "quan", "quanx"}

Export(job, nodes) ==
    CASE job.target \in ClashTargets -> ExportClash(job, nodes)
      [] job.target = "singbox"      -> ExportSingbox(job, nodes)
      [] job.target \in TextTargets  -> [lines |-> ExportText(job, nodes)]
      [] job.target \in {"sssub", "ssd"} -> ExportEntries(nodes)
      [] OTHER                       -> ExportLinks(nodes)

\* A base that is not what its name says makes the conversion fail, if it is read.
BrokenBase(job) ==
    \/ job.target \in ClashTargets /\ ~job.options.nodelist /\ job.settings.clashBase.kind = "broken"
    \/ job.target = "singbox" /\ ~job.options.nodelist /\ job.settings.jsonBase = "broken"
    \/ job.target = "sssub" /\ job.settings.jsonBase = "broken"
=============================================================================
