----------------------------- MODULE MCRequest -----------------------------
(* Requests on a small instance: a few services and clients around each of    *)
(* the questions, and configurations of at most two lines that import.  What  *)
(* the adapters do around the core runs beside it: a behaviour is one of      *)
(* them, as `world` says, so that their states add up and do not multiply.    *)
EXTENDS SubRequest, GistUpload, EdgeFetch, CommandLine, TLC

VARIABLE world

Source(kind, name) == [kind |-> kind, name |-> name]
Http(name) == Source("http", name)
File(name) == Source("file", name)
Script(name) == Source("script", name)
Inline(name) == Source("inline", name)

-----------------------------------------------------------------------------
\* Files that bring each other in: chains behind every kind of line, files that
\* import themselves, and one that cannot be read.  Like the ones in base/, a file
\* for a table consists of tables.
Lists == {"leaf", "entry", "entries", "again", "gone"}
Tables == {"nested", "deep", "loop"}
MCReferences == Lists \cup Tables

MCFiles ==
    "leaf" :> <<Plain("text"), Plain("skip")>>
    @@ "entry" :> <<Importing("bare", "leaf"), Importing("ini", "leaf")>>
    @@ "entries" :> <<Importing("bare", "entry")>>
    @@ "again" :> <<Plain("text"), Importing("bare", "again")>>
    @@ "nested" :> <<Plain("open"), Plain("text"), Plain("sect"), Importing("ini", "entry")>>
    @@ "deep" :> <<Plain("open"), Importing("toml", "nested"), Importing("toml", "loop")>>
    @@ "loop" :> <<Plain("open"), Importing("toml", "loop")>>

MCLocalRefs == {"leaf", "entry"}

MCLines == {Plain("open"), Heading("rules")}
           \cup {Importing(k, r) : k \in {"ini", "yaml"}, r \in Lists}
           \cup {Importing("toml", r) : r \in Tables}
MCTexts == {<<>>} \cup {<<a>> : a \in MCLines} \cup {<<a, b>> : a \in MCLines, b \in MCLines}
           \cup {<<Plain("open"), a, b>> : a \in MCLines, b \in MCLines}

Config(name, place, syntax, sets, lines) ==
    [name |-> name, place |-> place, syntax |-> syntax, sets |-> sets, lines |-> lines, base |-> "leaf"]

ImportConfigs == {Config("imports", "inline", "ini", <<>>, t) : t \in MCTexts}

\* A client's configuration that sets all a client would want, and a default
\* one whose token the operator gave out.
Grants == [token |-> "client", apiMode |-> FALSE, outside |-> {}, skipFailed |-> TRUE,
           insert |-> TRUE, insertUrls |-> <<File("list")>>, script |-> ""]

DefaultConfig == Config("default", "local", "ini", [token |-> "default", defaultUrls |-> <<Http("a")>>], <<>>)

NamedConfigs ==
    {Config("grants", "http", syntax, Grants, <<>>) : syntax \in {"ini", "yaml", "toml", "broken"}}
    \cup {Config("importing", "http", "ini", Grants, <<Importing("ini", "leaf")>>)}
    \cup {Config("scripted", "inline", "ini", [script |-> "filter.js"], <<>>), DefaultConfig}

MCProfiles ==
    "own" :> [target |-> "clash", profile_token |-> "own", url |-> <<Http("a")>>, token |-> "service"]
    @@ "plain" :> [target |-> "clash", url |-> <<Http("b")>>]
    @@ "extra" :> [url |-> <<File("extra")>>]

-----------------------------------------------------------------------------
Service == [Defaults EXCEPT !.apiMode = FALSE, !.managed = TRUE]

Ask(args) == [path |-> "/sub", method |-> "GET", agent |-> "clash", names |-> <<>>, args |-> args]
Put(arg, values) == {<<>>} \cup {arg :> v : v \in values}

\* Who may do what.
GuardedServices ==
    {[Service EXCEPT !.token = t, !.apiMode = m, !.defaultConfig = c, !.outside = {"away"}] :
        t \in {"", "service"}, m \in BOOLEAN, c \in {DefaultConfig, Defaults.defaultConfig}}
GuardedRequests ==
    {Ask([target |-> "surge"] @@ t @@ c @@ u @@ p @@ g) :
        t \in Put("token", {"service", "client", "default"}),
        c \in Put("config", NamedConfigs),
        u \in Put("url", {<<Http("a"), File("near")>>, <<File("away")>>, <<Script("near"), Inline("i")>>}),
        p \in Put("upload", {TRUE}) \cup {"filter_script" :> "filter.js"},
        g \in Put("groups", {"g"})}

\* How sources are put together.
ListingServices ==
    {[Service EXCEPT !.token = "service", !.skipFailed = s, !.insert = i, !.prepend = p,
                     !.insertUrls = <<Http("x"), File("y")>>, !.defaultUrls = <<Http("d"), Inline("e")>>,
                     !.apiMode = m] : s \in BOOLEAN, i \in BOOLEAN, p \in BOOLEAN, m \in BOOLEAN}
ListingRequests ==
    {Ask([target |-> "clash"] @@ t @@ u @@ i @@ p @@ v) :
        t \in Put("token", {"service"}),
        u \in Put("url", {<<Http("a"), Inline("b"), Http("a"), Script("c")>>, <<Http("a")>>}),
        i \in Put("insert", BOOLEAN), p \in Put("prepend", BOOLEAN), v \in Put("ver", {"bad", "4"})}

\* How deep imports go.
ImportRequests ==
    {Ask([target |-> "clash", token |-> t, config |-> c, url |-> <<Inline("i")>>]) :
        t \in {"service", "client"}, c \in ImportConfigs}

\* What else is asked.
OtherRequests ==
    {[path |-> p, method |-> m, agent |-> a, names |-> n, args |-> g @@ t] :
        p \in {"/sub", "/sub2clashr", "/surge2clash", "/getruleset", "/getprofile", "/render",
               "/get", "/getlocal", "/nothing"},
        m \in {"GET", "HEAD"}, a \in {"surge", "v2ray", "pharos", "curl"},
        n \in {<<>>, <<"own">>, <<"plain">>, <<"own", "extra", "none">>, <<"none">>},
        t \in Put("token", {"service", "own"}),
        g \in {<<>>, [target |-> "auto", type |-> 1, url |-> <<Http("a")>>, path |-> File("near")],
               [type |-> 1, url |-> <<File("near")>>, path |-> File("away")]}}

MCOthers == {r \in OtherRequests : r.names # <<>> => r.path = "/getprofile"}

PlainService == [Service EXCEPT !.token = "service", !.outside = {"away"}]
PlainServices == {PlainService, [PlainService EXCEPT !.apiMode = TRUE]}

CasesOf(adapters, services, requests) ==
    [adapter : adapters, settings : services, request : requests]

MCCases ==
    CasesOf(Adapters, GuardedServices, GuardedRequests)
    \cup CasesOf({"server"}, ListingServices, ListingRequests)
    \cup CasesOf({"server"}, {PlainService}, ImportRequests)
    \cup CasesOf(Adapters, PlainServices, MCOthers)

-----------------------------------------------------------------------------
\* One behaviour is one of the programs; the others rest.
RequestRests == Asked([adapter |-> "worker", settings |-> PlainService, request |-> Ask(<<>>)]) /\ Fresh
EdgeRests ==
    /\ edge = [adapter |-> "cli", plainHttp |-> FALSE, privateNetwork |-> FALSE]
    /\ at = [scheme |-> "https", login |-> FALSE, host |-> "public"]
    /\ step = "cache" /\ hops = 0 /\ sent = <<>> /\ kv = FALSE /\ result = "none"
CliRests ==
    /\ cli = [program |-> "worker", text |-> <<>>]
    /\ pref = <<>> /\ stage = "pref" /\ rounds = 0 /\ offered = 1
    /\ rendered = <<>> /\ files = <<>> /\ printed = <<>>

MCInit ==
    \/ world = "core" /\ Init /\ GistInit /\ EdgeRests /\ CliRests
    \/ world = "gist" /\ RequestRests /\ GistInit /\ EdgeRests /\ CliRests
    \/ world = "edge" /\ RequestRests /\ GistInit /\ EdgeInit /\ CliRests
    \/ world = "cli" /\ RequestRests /\ GistInit /\ EdgeRests /\ CliInit

MCNext ==
    \/ world = "core" /\ Next /\ UNCHANGED <<world, gistVars, edgeVars, cliVars>>
    \/ world = "gist" /\ GistNext /\ UNCHANGED <<world, vars, edgeVars, cliVars>>
    \/ world = "edge" /\ EdgeNext /\ UNCHANGED <<world, vars, gistVars, cliVars>>
    \/ world = "cli" /\ CliNext /\ UNCHANGED <<world, vars, gistVars, edgeVars>>

MCSpec == MCInit /\ [][MCNext]_<<world, vars, gistVars, edgeVars, cliVars>>

\* The variables of the handler and of the adapters have their types.
MCTypeOK == TypeOK /\ GistTypeOK /\ EdgeTypeOK /\ CliTypeOK

\* Each of the three loops that expand imports, of the request's configuration, of
\* the Worker's and of the command line's pref file, ends where its limit says and
\* not a round earlier or later (expand_config_imports, load_settings,
\* read_config_file).
ImportsBounded == ImportDepth /\ PrefDepth

MCGeneratorTargets == <<"clash", "quan", "surge">>
=============================================================================
