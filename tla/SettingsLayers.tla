--------------------------- MODULE SettingsLayers ---------------------------
(***************************************************************************)
(* The settings a /sub request works with are put together from layers:     *)
(* built-in defaults, the pref file, the environment, the external          *)
(* configuration and the request (Settings::overlay and the parsers in      *)
(* crates/subconverter-core/src/config.rs, sub_with_target in routes.rs).   *)
(*                                                                         *)
(* Two readers look at a configuration text and need not agree.  A parser   *)
(* for the detected format yields a whole Settings value, defaults where it *)
(* found nothing; a scan of the lines, blind to format and section, says    *)
(* which fields the text mentions, and those are taken from that value.     *)
(*                                                                         *)
(* The model keeps of a value only the layers it comes from.                *)
(***************************************************************************)
EXTENDS FiniteSets

CONSTANTS
    Prefs,      \* pref files the server may start with
    Documents,  \* external configurations a request may be given
    EnvTokens   \* whether API_TOKEN is set: a set of booleans

Layers == {"default", "pref", "env", "external", "request"}

\* One field for each way the code treats a key.
Booleans == {"append_proxy_type", "filter_deprecated_nodes", "overwrite_original_rules"}
Lists    == {"rename_node", "rulesets", "custom_proxy_groups"}
Fields   == Booleans \cup Lists \cup {"clash_rule_base", "api_access_token"}

\* Fields of which a request can carry entries, and fields it can override.
RequestLists   == {"rulesets", "custom_proxy_groups"}
RequestOptions == {"append_proxy_type", "filter_deprecated_nodes"}

(***************************************************************************)
(* A document is what a person wrote: entries, in the notation of a format. *)
(*   line      `key = value` or `key: value` on a line under its section    *)
(*   nested    inside its section's line: a dotted key of TOML, a flow      *)
(*             mapping of YAML                                              *)
(*   table     a list as TOML tables, [[section.key]] or [[key]]            *)
(*   equals    a YAML line whose value contains '='                         *)
(*   brackets  a line whose value contains "[["                             *)
(***************************************************************************)
Sections == {"top", "common", "custom", "node_pref", "rulesets", "proxy_groups"}
Shapes == [ini  |-> {"line", "brackets"},
           toml |-> {"line", "nested", "table"},
           yaml |-> {"line", "nested", "equals", "brackets"}]
Formats == DOMAIN Shapes

Entry == [field : Fields, section : Sections,
          shape : {"line", "nested", "table", "equals", "brackets"}]

\* A section is written in one way, and `rulesets` is a list or a section.
Consistent(es) ==
    \A e, g \in es :
        /\ e.section = g.section /\ e.shape = "nested" => g.shape = "nested"
        /\ e.field = "rulesets" /\ e.section = "top" => g.section # "rulesets"

Document ==
    [format : Formats, entries : {es \in SUBSET Entry : Consistent(es)}]

Written(d) ==
    /\ d.format \in Formats
    /\ d.entries \subseteq Entry
    /\ Consistent(d.entries)
    /\ \A e \in d.entries :
          /\ e.shape \in Shapes[d.format]
          /\ d.format = "toml" => (e.shape = "table" <=> e.field \in Lists)

At(f, section, shape) == [field |-> f, section |-> section, shape |-> shape]
NoDocument == [format |-> "ini", entries |-> {}]

ASSUME DocumentsAssumption ==
    /\ \A d \in Prefs \cup Documents : Written(d)
    /\ NoDocument \in Documents
ASSUME EnvAssumption == EnvTokens \subseteq BOOLEAN

\* merge_request_config: the document, and behind it the request's own lines
\* under a section header of INI.
Text(d, added) == [doc |-> d, added |-> added]

-----------------------------------------------------------------------------
DefaultSettings == [f \in Fields |-> IF f \in Lists THEN {} ELSE {"default"}]

\* The sections in which each parser looks for a field.
IniSections ==
    [append_proxy_type        |-> {"common"},
     api_access_token         |-> {"common"},
     filter_deprecated_nodes  |-> {"node_pref"},
     overwrite_original_rules |-> {"rulesets", "custom"},
     clash_rule_base          |-> {"common", "custom", "top"},
     rename_node              |-> {"node_pref"},
     rulesets                 |-> {"rulesets", "custom"},
     custom_proxy_groups      |-> {"rulesets", "proxy_groups", "custom"}]

TomlSections ==
    [append_proxy_type        |-> {"common"},
     api_access_token         |-> {"common"},
     filter_deprecated_nodes  |-> {"node_pref"},
     overwrite_original_rules |-> {"rulesets", "top"},
     clash_rule_base          |-> {"common", "top"},
     rename_node              |-> {"node_pref"},
     rulesets                 |-> {"top"},
     custom_proxy_groups      |-> {"top"}]

YamlSections ==
    [append_proxy_type        |-> {"common"},
     api_access_token         |-> {"common"},
     filter_deprecated_nodes  |-> {"node_pref"},
     overwrite_original_rules |-> {"rulesets", "top"},
     clash_rule_base          |-> {"common", "top"},
     rename_node              |-> {"node_pref"},
     rulesets                 |-> {"rulesets", "top"},
     custom_proxy_groups      |-> {"proxy_groups", "top"}]

SectionsOf == [ini |-> IniSections, toml |-> TomlSections, yaml |-> YamlSections]

HasBrackets(d) == \E e \in d.entries : e.shape \in {"table", "brackets"}

\* A section header, or the key custom_proxy_group=, that INI is told by.
IniMarked(d) ==
    /\ d.format \in {"ini", "toml"}
    /\ \E e \in d.entries :
          /\ e.shape \in {"line", "brackets"}
          /\ \/ e.section \in {"common", "custom", "node_pref", "rulesets"}
             \/ e.field = "custom_proxy_groups" /\ d.format = "ini"

\* The name of a section, or one of the keys `rulesets:` and, for the groups
\* of a section that is not their own, `proxy_groups:`.
YamlMarked(d) ==
    /\ d.format = "yaml"
    /\ \E e \in d.entries :
          \/ e.section \in {"common", "node_pref", "rulesets", "proxy_groups"}
          \/ e.field = "rulesets"
          \/ e.field = "custom_proxy_groups" /\ e.section = "custom"

\* detect_and_parse: which parser a text is given to.  The request's lines
\* begin with [rulesets], a marker of INI.
DetectedFormat(t) ==
    IF HasBrackets(t.doc) THEN "toml"
    ELSE IF t.added # {} \/ IniMarked(t.doc) THEN "ini"
    ELSE IF YamlMarked(t.doc) THEN "yaml"
    ELSE "toml"

\* Whether that parser accepts the text.  INI lines are TOML when their values
\* are true or false; the lines of a request never are.
Parses(t) ==
    DetectedFormat(t) = "toml" =>
        /\ t.added = {}
        /\ \/ t.doc.format = "toml"
           \/ t.doc.entries = {}
           \/ /\ t.doc.format = "ini"
              /\ \A e \in t.doc.entries : e.field \in Booleans /\ e.shape = "line"

\* The parser finds a value for f among the entries.  The INI parser finds
\* nothing in lines of YAML, and no dotted keys.
Finds(t, f) ==
    LET format == DetectedFormat(t) IN
    \E e \in t.doc.entries :
        /\ e.field = f
        /\ e.section \in SectionsOf[format][f]
        /\ format = t.doc.format \/ (t.doc.format # "yaml" /\ e.shape = "line")

\* What parse returns: every field, those not found at their defaults.  Lists
\* in INI collect the lines of the document and of the request.
Parsed(t, layer) ==
    [f \in Fields |->
        (IF Finds(t, f) THEN {layer} ELSE DefaultSettings[f])
            \cup (IF f \in t.added THEN {"request"} ELSE {})]

\* A line of the document holds the key of f where the scan looks for it.
HasKey(d, f) ==
    \E e \in d.entries :
        /\ e.field = f
        /\ e.shape \in {"line", "brackets"}
        /\ d.format = "yaml" /\ f = "custom_proxy_groups" => e.section = "proxy_groups"

\* The header of a table, or a section whose name is the key of a list.
HasTable(d, f) ==
    \E e \in d.entries :
        \/ e.shape = "table" /\ e.field = f /\ f \in RequestLists
        \/ d.format = "yaml" /\ e.section = "rulesets" /\ f = "rulesets"
        \/ /\ d.format = "ini" /\ e.section = "proxy_groups"
           /\ f = "custom_proxy_groups"

\* Mutated form of Mentions: table headers are not looked at.
MentionsKeysOnly(t, f) == f \in t.added \/ HasKey(t.doc, f)

\* config_has_key_prefix and config_has_table: the text mentions f.
Mentions(t, f) == f \in t.added \/ HasKey(t.doc, f) \/ HasTable(t.doc, f)

\* Mutated form of Overlay: it starts from nothing, not from the base.
OverlayWithoutBase(t, base) ==
    [f \in {g \in Fields : Mentions(t, g)} |-> Parsed(t, "external")[f]]

\* Settings::overlay, for a text that parses.
Overlay(t, base) ==
    LET parsed == Parsed(t, "external") IN
    [f \in Fields |-> IF Mentions(t, f) THEN parsed[f] ELSE base[f]]

\* load_pref: the whole value the parser returns, or the defaults.
LoadPref(d) ==
    IF Parses(Text(d, {})) THEN Parsed(Text(d, {}), "pref") ELSE DefaultSettings

\* apply_env
ApplyEnv(s, hasToken) ==
    IF hasToken THEN [s EXCEPT !.api_access_token = {"env"}] ELSE s

-----------------------------------------------------------------------------
VARIABLES
    pref, env,  \* what the server was started with
    settings,   \* the settings of the server
    request,    \* the request being served
    effective,  \* the settings it is served with
    stage

vars == <<pref, env, settings, request, effective, stage>>

\* The configuration text of the request.
text == Text(request.doc, request.added)

\* The external configuration comes from the argument `config`, from the
\* setting default_external_config, or there is none.
Request == [config : {"none", "argument", "setting"}, doc : Documents,
            authorized : BOOLEAN,             \* valid token, or a trusted adapter
            added : SUBSET RequestLists,      \* `groups` and `ruleset`
            options : SUBSET RequestOptions]  \* `append_type` and `fdn`

NoRequest == [config |-> "none", doc |-> NoDocument, authorized |-> FALSE,
              added |-> {}, options |-> {}]

Init ==
    /\ pref \in Prefs
    /\ env \in EnvTokens
    /\ settings = ApplyEnv(LoadPref(pref), env)
    /\ request = NoRequest
    /\ effective = settings
    /\ stage = "idle"

\* A request arrives; its configuration is fetched and its imports expanded.
Accept ==
    /\ stage = "idle"
    /\ \E r \in Request :
          /\ r.config = "none" => r.doc = NoDocument
          /\ request' = r
    /\ stage' = "accepted"
    /\ UNCHANGED <<pref, env, settings, effective>>

\* config_is_trusted
Trusted(r) == r.config # "argument" \/ r.authorized

\* Mutated form of Layered: every configuration is trusted.
LayeredTrusting(r, s) ==
    IF ~Parses(Text(r.doc, r.added)) THEN s ELSE Overlay(Text(r.doc, r.added), s)

\* The settings s under the configuration of r.  A text that does not parse is
\* dropped without an error; an untrusted one does not change the token.
Layered(r, s) ==
    LET merged == Overlay(Text(r.doc, r.added), s) IN
    IF ~Parses(Text(r.doc, r.added)) THEN s
    ELSE IF Trusted(r) THEN merged
    ELSE [merged EXCEPT !.api_access_token = s.api_access_token]

Layer ==
    /\ stage = "accepted"
    /\ effective' = Layered(request, settings)
    /\ stage' = "layered"
    /\ UNCHANGED <<pref, env, settings, request>>

\* apply_settings_defaults_to_options: the request's options, where it has any.
Optioned(r, s) == [f \in Fields |-> IF f \in r.options THEN {"request"} ELSE s[f]]

Convert ==
    /\ stage = "layered"
    /\ effective' = Optioned(request, effective)
    /\ stage' = "converted"
    /\ UNCHANGED <<pref, env, settings, request>>

Answer ==
    /\ stage = "converted"
    /\ request' = NoRequest
    /\ effective' = settings
    /\ stage' = "idle"
    /\ UNCHANGED <<pref, env, settings>>

Next == Accept \/ Layer \/ Convert \/ Answer

Spec == Init /\ [][Next]_vars

-----------------------------------------------------------------------------
\* Types of the variables.
TypeOK ==
    /\ Written(pref) /\ env \in BOOLEAN
    /\ settings \in [Fields -> SUBSET Layers]
    /\ Written(request.doc)
    /\ request.config \in {"none", "argument", "setting"}
    /\ request.added \subseteq RequestLists
    /\ request.options \subseteq RequestOptions
    /\ effective \in [Fields -> SUBSET Layers]
    /\ stage \in {"idle", "accepted", "layered", "converted"}

\* Where the author of d put f, in whatever way its format's parser reads.
Sets(d, f) ==
    \E e \in d.entries : e.field = f /\ e.section \in SectionsOf[d.format][f]

(***************************************************************************)
(* The promise of README.md:49 and docs/MIGRATION.md:7: a field has the     *)
(* value of the last layer that sets it, and the lists of the external      *)
(* configuration and the request are put together.                          *)
(***************************************************************************)
FromExternal(r, f) == IF Sets(r.doc, f) THEN {"external"} ELSE {}
FromRequest(r, f) == IF f \in r.added \cup r.options THEN {"request"} ELSE {}
FromServer(f) ==
    IF f = "api_access_token" /\ env THEN {"env"}
    ELSE IF Sets(pref, f) THEN {"pref"} ELSE DefaultSettings[f]

Promised(r, f) ==
    IF f \in RequestOptions /\ FromRequest(r, f) # {} THEN FromRequest(r, f)
    ELSE IF f = "api_access_token" /\ ~Trusted(r) THEN FromServer(f)
    ELSE IF FromExternal(r, f) \cup FromRequest(r, f) # {}
         THEN FromExternal(r, f) \cup FromRequest(r, f)
    ELSE FromServer(f)

(***************************************************************************)
(* What a text has to be like for the parser to find what was written: each *)
(* entry is where both the format it was written in and the one it is taken *)
(* for look for it, and those are the same or it is a line that is both INI *)
(* and TOML.  Without the first, `overwrite_original_rules: false` in the   *)
(* section custom, as base/config/example_external_config.yml:3 has it,     *)
(* becomes the default, true; without the last, a request's groups turn a   *)
(* YAML text into INI, and what it sets becomes the default.                *)
(***************************************************************************)
Readable(t) ==
    /\ Parses(t)
    /\ \A e \in t.doc.entries :
          /\ e.section \in SectionsOf[t.doc.format][e.field]
          /\ e.section \in SectionsOf[DetectedFormat(t)][e.field]
          /\ \/ DetectedFormat(t) = t.doc.format
             \/ t.doc.format # "yaml" /\ e.shape = "line"

(***************************************************************************)
(* What it has to be like for the scan to see it too: keys on lines of      *)
(* their own or in tables that the scan knows, and nothing else that looks  *)
(* like a list.  Without the first, [[node_pref.rename_node]] and values    *)
(* with '=' in YAML leave the pref file's value in force; without the       *)
(* second, a section `rulesets:` of YAML that only holds other keys         *)
(* replaces the pref file's rulesets by none.                               *)
(***************************************************************************)
Scannable(t) ==
    \A e \in t.doc.entries :
        /\ e.shape = "line" \/ (e.shape = "table" /\ e.field \in RequestLists)
        /\ t.doc.format = "yaml" /\ e.section = "rulesets" => e.field = "rulesets"
        /\ t.doc.format = "yaml" /\ e.field = "custom_proxy_groups" => e.section # "top"

\* The layers have the documented priority, in every field, whenever the pref
\* file and the text of the request are Readable and the text is Scannable.
Priority ==
    stage = "converted" /\ Readable(Text(pref, {})) /\ Readable(text) /\ Scannable(text)
        => \A f \in Fields : effective[f] = Promised(request, f)

\* However a configuration is written, one that is not trusted leaves the
\* token as it is.
TokenProtected ==
    stage \in {"layered", "converted"} /\ ~Trusted(request)
        => effective["api_access_token"] = settings["api_access_token"]

-----------------------------------------------------------------------------
\* docs/MIGRATION.md:7, "request parameters over external config": the groups
\* and rulesets of a request are in force.  This is violated: behind TOML with
\* tables the text no longer parses, and all of it is dropped.
RequestOverExternal ==
    stage = "converted" => \A f \in request.added : "request" \in effective[f]
=============================================================================
