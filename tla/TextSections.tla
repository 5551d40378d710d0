---------------------------- MODULE TextSections ----------------------------
(***************************************************************************)
(* How a generated text configuration is merged into the rule base of its  *)
(* target (apply_text_rule_base and what it calls).  A configuration is a  *)
(* sequence of lines; titles of sections are compared without their case.  *)
(***************************************************************************)
EXTENDS Lists, FiniteSets

Heading(title) == [is |-> "header", title |-> title]
Blank == [is |-> "blank"]
IsHeader(line) == line.is = "header"
NotBlank(line) == line # Blank

\* The lines of a base: of those with a text none is the program's.
BaseLine == [is : {"header"}, title : STRING] \cup [is : {"text"}, text : STRING] \cup {Blank}

Headers(config) == {i \in DOMAIN config : IsHeader(config[i])}
Openings(config, title) == {i \in DOMAIN config : config[i] = Heading(title)}
NextHeader(config, i) == Min({j \in Headers(config) : j > i} \cup {Len(config) + 1})

\* Without the empty lines around it.
Trimmed(lines) ==
    LET text == {i \in DOMAIN lines : NotBlank(lines[i])}
    IN  IF text = {} THEN <<>> ELSE SubSeq(lines, Min(text), Max(text))

\* The first section of that title.
SectionBody(config, title) ==
    LET i == Min(Openings(config, title))
    IN  IF Openings(config, title) = {} THEN <<>>
        ELSE Trimmed(SubSeq(config, i + 1, NextHeader(config, i) - 1))

\* An empty line goes first, unless there is one.
PushBody(last, body) == (IF NotBlank(last) THEN <<Blank>> ELSE <<>>) \o body

WithNewSection(config, title, body) ==
    (IF config # <<>> /\ NotBlank(Last(config)) THEN Append(config, Blank) ELSE config)
        \o <<Heading(title)>> \o body

\* The body goes to the end of the section that the title opens last.
AppendedLast(config, title, body) ==
    IF Openings(config, title) = {} THEN WithNewSection(config, title, PushBody(Heading(title), body))
    ELSE config \o PushBody(Last(config), body)

\* The body goes before the header that ends the section; a section at the end of
\* the file gets it only if no other did.
AppendToSection(config, title, body) ==
    LET ends == {NextHeader(config, i) : i \in Openings(config, title)}
        inner == ends \ {Len(config) + 1}
        places == IF inner # {} THEN inner ELSE ends
        At(i) == (IF i \in places THEN PushBody(config[i - 1], body) ELSE <<>>)
                 \o (IF i <= Len(config) THEN <<config[i]>> ELSE <<>>)
    IN  IF body = <<>> THEN config
        ELSE IF ends = {} THEN WithNewSection(config, title, PushBody(Heading(title), body))
        ELSE FlattenSeq([i \in 1..(Len(config) + 1) |-> At(i)])

ReplaceSection(config, title, body) ==
    LET replaced == UNION {(i + 1)..(NextHeader(config, i) - 1) : i \in Openings(config, title)}
        At(i) == IF i \in replaced THEN <<>>
                 ELSE IF config[i] = Heading(title) THEN <<config[i]>> \o body ELSE <<config[i]>>
    IN  IF Openings(config, title) = {} THEN WithNewSection(config, title, body)
        ELSE FlattenSeq([i \in DOMAIN config |-> At(i)])

\* The sections of each format, in the order they are merged; those that come
\* from the configuration alone are replaced where the original is overwritten.
SectionTitles(target) ==
    CASE target \in {"surge", "surfboard", "loon"} -> <<"Proxy", "Proxy Group", "Rule">>
      [] target = "mellow" -> <<"Endpoint", "EndpointGroup", "RoutingRule">>
      [] target = "quan"   -> <<"SERVER", "POLICY", "TCP">>
      [] target = "quanx"  -> <<"policy", "server_local", "filter_local">>

NodeTitles == {"Proxy", "Endpoint", "SERVER", "server_local"}

MergeSection(config, title, generated, overwrite) ==
    LET body == SectionBody(generated, title)
    IN  IF body = <<>> THEN config
        ELSE IF overwrite /\ title \notin NodeTitles THEN ReplaceSection(config, title, body)
        ELSE AppendToSection(config, title, body)

\* A base without any section is not one.
ApplyTextRuleBase(generated, base, target, overwrite) ==
    LET Ends == {i \in DOMAIN base : NotBlank(base[i])}
        titles == SectionTitles(target)
        Merge(config, k) == MergeSection(config, titles[k], generated, overwrite)
    IN  IF Headers(base) = {} THEN generated
        ELSE Merge(Merge(Merge(SubSeq(base, 1, Max(Ends)), 1), 2), 3)

-----------------------------------------------------------------------------
\* What a reader of the merged file finds under a title, anywhere in the file.
Under(config, title) ==
    LET Opened(i) == {j \in Headers(config) : j <= i}
    IN  Filtered(config, {i \in DOMAIN config :
                             /\ ~IsHeader(config[i]) /\ NotBlank(config[i])
                             /\ Opened(i) # {} /\ config[Max(Opened(i))] = Heading(title)})

TitlesOf(config) == {config[i].title : i \in Headers(config)}
=============================================================================
