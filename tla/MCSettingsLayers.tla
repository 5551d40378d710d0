-------------------------- MODULE MCSettingsLayers --------------------------
(* Documents of at most two entries for the model checker. *)
EXTENDS SettingsLayers

\* The sections some parser looks in for f, and the one of the examples.
Places(f) == UNION {SectionsOf[format][f] : format \in Formats} \cup {"custom"}

MCEntries(format) ==
    {e \in Entry :
        /\ e.section \in Places(e.field)
        /\ e.shape \in Shapes[format]
        /\ format = "toml" => (e.shape = "table" <=> e.field \in Lists)
        \* no '=' and no "[[" in a boolean
        /\ e.shape \in {"equals", "brackets"} => e.field = "clash_rule_base"}

DocumentsOf(format) ==
    {d \in [format : {format},
            entries : {{}} \cup {{e, g} : e \in MCEntries(format), g \in MCEntries(format)}] :
        Consistent(d.entries)}

MCDocuments == UNION {DocumentsOf(format) : format \in Formats}

\* A pref file that sets every field, and none.
FullPref ==
    [format |-> "toml", entries |->
        {At("append_proxy_type", "common", "line"),
         At("api_access_token", "common", "line"),
         At("filter_deprecated_nodes", "node_pref", "line"),
         At("overwrite_original_rules", "top", "line"),
         At("clash_rule_base", "common", "line"),
         At("rename_node", "node_pref", "table"),
         At("rulesets", "top", "table"),
         At("custom_proxy_groups", "top", "table")}]

MCPrefs == {FullPref, NoDocument}

-----------------------------------------------------------------------------
\* base/config/example_external_config.toml and .yml, and no configuration.
ExampleToml ==
    [format |-> "toml", entries |->
        {At("overwrite_original_rules", "custom", "line"),
         At("clash_rule_base", "custom", "line"),
         At("custom_proxy_groups", "top", "table")}]
ExampleYaml ==
    [format |-> "yaml", entries |->
        {At("overwrite_original_rules", "custom", "line"),
         At("clash_rule_base", "custom", "line"),
         At("custom_proxy_groups", "custom", "line")}]
Examples == {NoDocument, ExampleToml, ExampleYaml}
=============================================================================
