---------------------------- MODULE MCConversion ----------------------------
(* Conversions of at most three nodes: one family of jobs for each of the     *)
(* questions (how sources are read, what scripts do, how names are made       *)
(* unique, what the documents hold).                                          *)
EXTENDS Conversion

MCWordOrder == <<"2", "3", "HK", "US", "X", "[HTTPS]", "[SNELL]", "[SSR]", "[SS]", "[TROJAN]",
                 "[VLESS]", "[VMESS]", "a", "a-b", "a=b", "b",
                 "flag-hk", "flag-us">>
MCEmojis == {"flag-hk", "flag-us"}
MCDashFor == "a=b" :> "a-b"
MCScriptRemarks == {<<"X">>}

-----------------------------------------------------------------------------
Entry(id, type, remark) ==
    [id |-> id, type |-> type, group |-> "", remark |-> remark, port |-> 443, age |-> "current"]
Link(id, type, remark) == [kind |-> "link", valid |-> TRUE, node |-> Entry(id, type, remark)]
BadLink == [kind |-> "link", valid |-> FALSE]
Text(yaml, json, items) == [yaml |-> yaml, json |-> json, items |-> items]
Noise == [kind |-> "other", decoded |-> <<>>]
Encoded(text) == [kind |-> "other", decoded |-> <<text>>]
Links(items) == Text(<<>>, <<>>, items)

Empty == [include |-> <<>>, exclude |-> <<>>, rename |-> <<>>, emoji |-> <<>>,
          filterScript |-> FALSE, sortScript |-> FALSE, streamScript |-> FALSE,
          groups |-> <<>>, rulesets |-> <<>>, prefix |-> TRUE, overwrite |-> FALSE,
          clashBase |-> [kind |-> "none"], jsonBase |-> "object", textBase |-> <<>>]
NoOptions == [include |-> <<>>, exclude |-> <<>>, group |-> "", removeEmoji |-> FALSE,
              rename |-> <<>>, addEmoji |-> FALSE, emoji |-> <<>>, appendType |-> FALSE,
              sort |-> FALSE, filterDeprecated |-> FALSE, nodelist |-> FALSE, expand |-> TRUE]
Job == [sources |-> <<>>, settings |-> Empty, options |-> NoOptions, authorized |-> TRUE,
        target |-> "clash", version |-> 4]

-----------------------------------------------------------------------------
\* How sources are read.
Yaml == Text(<<Entry("y1", "SS", <<"a">>), Entry("y2", "VLESS", <<"b">>), Entry("y3", "SNELL", <<"a">>)>>,
             <<>>, <<BadLink>>)
Unknown == Text(<<Entry("u1", "VLESS", <<"a">>)>>, <<>>, <<Link("u2", "HTTPS", <<"HK">>), Noise>>)
Json == Text(<<>>, <<Entry("j1", "", <<"b">>)>>, <<Noise>>)
Plain == Links(<<Link("p1", "SS", <<"a">>), Noise, Encoded(Yaml), Link("p2", "VMESS", <<"HK", "a">>)>>)
Deep == Links(<<Encoded(Links(<<Encoded(Unknown), Link("d1", "SSR", <<"b">>)>>)), Link("d2", "SS", <<"b">>)>>)
Bad == Links(<<Link("b1", "SS", <<"a">>), BadLink>>)
AllTexts == {Yaml, Unknown, Json, Plain, Deep, Bad, Links(<<Noise>>)}

Listed == {<<s>> : s \in AllTexts} \cup {<<s, t>> : s \in AllTexts, t \in AllTexts}

Filters ==
    {NoOptions, [NoOptions EXCEPT !.sort = TRUE],
     [NoOptions EXCEPT !.include = <<[by |-> "type", value |-> {"SS", "SSR"}, word |-> ""],
                                     [by |-> "group", value |-> {"SnellProvider"}, word |-> "a"]>>],
     [NoOptions EXCEPT !.exclude = <<[by |-> "port", word |-> "",
         value |-> <<[denied |-> TRUE, ports |-> {80}], [denied |-> FALSE, ports |-> {8080}]>>]>>]}

ParseJobs ==
    {[Job EXCEPT !.sources = s, !.target = t, !.options = o, !.settings = [Empty EXCEPT !.exclude = e]] :
        s \in Listed, t \in {"clash", "mixed", "ss"}, o \in Filters, e \in {<<>>, <<"HK">>}}

-----------------------------------------------------------------------------
\* What scripts do.
RenameRules == {<<>>, <<[script |-> FALSE, match |-> "a", replace |-> "HK"]>>, <<[script |-> TRUE]>>,
                <<[script |-> TRUE], [script |-> FALSE, match |-> "X", replace |-> "b"]>>}
EmojiTables == {<<>>, <<[script |-> FALSE, match |-> "HK", replace |-> "flag-hk"],
                        [script |-> FALSE, match |-> "b", replace |-> "flag-us"]>>,
                <<[script |-> TRUE], [script |-> FALSE, match |-> "X", replace |-> "flag-us"]>>}
ScriptSettings ==
    {[Empty EXCEPT !.filterScript = f, !.sortScript = s, !.streamScript = u, !.rename = r, !.emoji = e] :
        f \in BOOLEAN, s \in BOOLEAN, u \in BOOLEAN, r \in RenameRules, e \in EmojiTables}

ScriptJobs ==
    {[Job EXCEPT !.sources = <<Links(<<Link("s1", "SS", <<"flag-hk", "a">>), Link("s2", "SS", <<"b">>)>>)>>,
                 !.settings = s, !.options = o, !.authorized = a] :
        s \in ScriptSettings, a \in BOOLEAN,
        o \in {[NoOptions EXCEPT !.addEmoji = TRUE, !.removeEmoji = TRUE, !.sort = TRUE],
               [NoOptions EXCEPT !.addEmoji = TRUE]}}

-----------------------------------------------------------------------------
\* How names are made unique.
Remarks == {<<"a">>, <<"a", "2">>, <<"a=b">>, <<"a-b">>, <<"a-b", "2">>}
NameSources ==
    {<<Links(<<Link("n1", "SS", a), Link("n2", "VMESS", b), Link("n3", "SS", c)>>)>> :
        a \in Remarks, b \in Remarks, c \in Remarks}
Twice == [match |-> "a-b", replace |-> "a"]
NameJobs ==
    {[Job EXCEPT !.sources = s, !.target = t, !.options = o] :
        s \in NameSources, t \in {"clash", "ss", "surge"},
        o \in {NoOptions, [NoOptions EXCEPT !.rename = <<Twice>>],
               [NoOptions EXCEPT !.appendType = TRUE, !.sort = TRUE]}}

-----------------------------------------------------------------------------
\* What the documents hold.
Aged(link, age) == [link EXCEPT !.node.age = age]
Documented ==
    <<Links(<<Aged(Link("o1", "SS", <<"HK">>), "deprecated"), Link("o2", "VMESS", <<"HK">>),
              Aged(Link("o3", "SSR", <<"US">>), "clashr"), Link("o4", "TROJAN", <<"US">>)>>)>>

Group(name, proxies) == [name |-> Name(name), proxies |-> proxies]
Lit(name) == [by |-> "name", value |-> Name(name)]
GroupTables ==
    {<<>>,
     <<Group("Auto", <<[by |-> "word", value |-> "HK"], [by |-> "all"]>>), Group("Proxy", <<Lit("Auto")>>)>>,
     <<Group("Auto", <<[by |-> "group", value |-> "SSProvider"], Lit("DIRECT")>>)>>,
     <<Group("Auto", <<[by |-> "word", value |-> "b"]>>), Group("Other", <<Lit("Nowhere")>>)>>}

Rule(how, to) == [how |-> how, group |-> Name(to)]
List(file, managed, to) == [how |-> "list", group |-> Name(to), managed |-> managed, file |-> file]
RuleTables ==
    {<<>>,
     <<Rule("geoip", "DIRECT"), List("ads", TRUE, "REJECT"), Rule("final", "Auto")>>,
     <<List("ads", TRUE, "REJECT"), List("ads", TRUE, "Proxy"), List("cn", FALSE, "DIRECT"), Rule("other", "Proxy")>>}

Loose(text) == [is |-> "text", text |-> text]
TextBases ==
    {<<>>, <<Loose("t")>>,
     <<Heading("General"), Loose("g"), Blank>>,
     <<Loose("t"), Heading("Rule"), Loose("r"), Blank, Heading("General"), Loose("g"), Heading("Proxy"), Blank>>,
     <<Heading("policy"), Loose("p"), Heading("server_local"), Heading("filter_local"), Loose("f")>>,
     <<Heading("Proxy Group"), Heading("Endpoint"), Loose("e"), Heading("Proxy"), Heading("Endpoint"), Blank>>,
     <<Heading("TCP"), Loose("c"), Heading("POLICY"), Loose("q"), Blank, Heading("RoutingRule"), Loose("v")>>}

NodeLists == {NoOptions, [NoOptions EXCEPT !.nodelist = TRUE]}

ClashJobs ==
    {[Job EXCEPT !.sources = Documented, !.target = t, !.options = o,
                 !.settings = [Empty EXCEPT !.groups = g, !.rulesets = r, !.clashBase = b, !.prefix = m]] :
        t \in ClashTargets, g \in GroupTables, r \in RuleTables, m \in BOOLEAN,
        o \in NodeLists \cup {[NoOptions EXCEPT !.filterDeprecated = TRUE, !.expand = FALSE],
                             [NoOptions EXCEPT !.expand = FALSE]},
        b \in {[kind |-> "none"], [kind |-> "broken"], [kind |-> "map", providers |-> <<>>]}}

JsonJobs ==
    {[Job EXCEPT !.sources = Documented, !.target = t, !.options = o,
                 !.settings = [Empty EXCEPT !.groups = g, !.rulesets = r, !.jsonBase = j]] :
        t \in {"singbox", "sssub"}, g \in GroupTables, r \in RuleTables, o \in NodeLists,
        j \in {"none", "object", "broken"}}

TextJobs ==
    {[Job EXCEPT !.sources = Documented, !.target = t[1], !.version = t[2], !.options = o,
                 !.settings = [Empty EXCEPT !.groups = g, !.rulesets = r, !.textBase = b, !.overwrite = w]] :
        t \in {<<"surge", 3>>, <<"surge", 4>>, <<"surfboard", 4>>, <<"loon", 4>>, <<"mellow", 4>>,
               <<"quan", 4>>, <<"quanx", 4>>},
        o \in NodeLists, g \in GroupTables, r \in RuleTables, b \in TextBases, w \in BOOLEAN}

TargetJobs ==
    {[Job EXCEPT !.sources = Documented, !.target = t] :
        t \in {"ss", "ssd", "ssr", "v2ray", "trojan", "mixed"}}

MCJobs ==
    ParseJobs \cup ScriptJobs \cup NameJobs \cup TargetJobs \cup ClashJobs \cup JsonJobs \cup TextJobs

-----------------------------------------------------------------------------
\* What their texts hold: texts are nested at most twice in each other.
MaxNesting == 2
Within(texts) ==
    UNION {Range(text.items[i].decoded) : <<text, i>> \in
           {p \in texts \X (1..4) : p[2] \in DOMAIN p[1].items /\ p[1].items[p[2]].kind = "other"}}
MCTexts ==
    LET level[n \in 0..MaxNesting] ==
            IF n = 0 THEN UNION {Range(j.sources) : j \in MCJobs} ELSE Within(level[n - 1])
    IN  UNION {level[n] : n \in 0..MaxNesting}
MCReading ==
    LET reading[n \in 0..MaxNesting] ==
            [text \in MCTexts |-> NodesWith(text, IF n = 0 THEN [t \in MCTexts |-> <<>>] ELSE reading[n - 1])]
    IN  reading[MaxNesting]
=============================================================================
