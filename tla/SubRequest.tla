----------------------------- MODULE SubRequest -----------------------------
(***************************************************************************)
(* One request to the core: from its path and arguments to the answer      *)
(* (dispatch, sub_with_target, get_profile, get_ruleset, render_template   *)
(* in subconverter-core/src/routes.rs).  The three adapters run the same   *)
(* handler and differ in what they are able to do.                         *)
(*                                                                         *)
(* A request reads its configuration, replaces the imports in it, lays it  *)
(* over the service's settings, gathers its sources one after the other,   *)
(* converts, and may upload the result.  What a read or a fetch returns is *)
(* chosen when it happens; which text a name stands for is fixed.          *)
(***************************************************************************)
EXTENDS ConfigImports, FiniteSets

CONSTANTS
  Cases,         \* which adapter, under which settings, is asked what
  Profiles,      \* name -> arguments, for those that can be read
  Files,         \* reference -> text, for those that can be read
  LocalRefs,     \* references that are paths of local files
  MaxRounds      \* rounds of imports; 8 in the code

\* What a list's entry is, told by how it is written: a script, an address, a path,
\* or else the nodes themselves.
Kinds == {"script", "http", "file", "inline"}

SourceRef == [kind : Kinds, name : STRING]

\* The settings a request looks at, as they are by default.
Defaults == [token |-> "", apiMode |-> TRUE, skipFailed |-> FALSE, script |-> "", insert |-> FALSE,
             prepend |-> TRUE, insertUrls |-> <<>>, defaultUrls |-> <<>>, defaultConfig |-> [name |-> ""],
             managed |-> FALSE, outside |-> {}]

\* What a configuration sets, what it is, and what a request consists of.
IsSet(s) ==
    /\ DOMAIN s \subseteq DOMAIN Defaults
    /\ \A list \in DOMAIN s \cap {"insertUrls", "defaultUrls"} : s[list] \in Seq(SourceRef)

IsConfig(c) ==
    c.name # "" => c.lines \in Seq(Line) /\ c.place \in {"inline", "http", "local"} /\ IsSet(c.sets)

IsSettings(s) == DOMAIN s = DOMAIN Defaults /\ IsSet(s) /\ IsConfig(s.defaultConfig)

IsArguments(args) ==
    /\ "url" \in DOMAIN args => args["url"] \in Seq(SourceRef)
    /\ "config" \in DOMAIN args => IsConfig(args["config"])

IsRequest(r) ==
    /\ DOMAIN r = {"path", "method", "agent", "names", "args"}
    /\ r.names \in Seq(STRING) /\ IsArguments(r.args)

Adapters == {"server", "worker", "cli"}

ASSUME CasesAreRequests ==
    \A c \in Cases : c.adapter \in Adapters /\ IsSettings(c.settings) /\ IsRequest(c.request)
ASSUME ProfilesAreArguments == \A p \in DOMAIN Profiles : IsArguments(Profiles[p])
ASSUME FilesCanBeRead == ImportFiles(Files)
ASSUME MaxRoundsNat == MaxRounds \in Nat \ {0}

VARIABLES
  io,        \* what the adapter can do
  settings,  \* the service's settings
  req,       \* the request
  pc,        \* the step to take next
  text,      \* the configuration text, while its imports are replaced
  round,     \* rounds made
  eff,       \* the settings this request works with
  todo,      \* sources yet to resolve
  from,      \* the list they come from: "url" or "insert"
  got,       \* list -> sources resolved
  lost,      \* sources left out because they failed: list and place from its end
  effects,   \* what was done with the operator's powers
  answer     \* status and what the answer was made from

vars == <<io, settings, req, pc, text, round, eff, todo, from, got, lost, effects, answer>>

\* What no step changes, and what most steps leave alone.
steady == <<io, settings>>
sources == <<todo, from, got, lost>>

-----------------------------------------------------------------------------

\* What an adapter can do.  A server reads no file that a client names without a
\* token, the command line reads them all.
ServerCapabilities == {"config", "cache", "fetch routes", "local routes", "scripts", "gist"}
WorkerCapabilities == {}
CliCapabilities == {"trusted", "scripts"}

Capabilities(adapter) ==
    CASE adapter = "server" -> ServerCapabilities
      [] adapter = "worker" -> WorkerCapabilities
      [] adapter = "cli"    -> CliCapabilities

NoArg == "none"
Arg(name) == IF name \in DOMAIN req.args THEN req.args[name] ELSE NoArg
Has(name) == name \in DOMAIN req.args
Flag(name, default) == IF Has(name) THEN Arg(name) ELSE default

HasValidToken(s) == s.token # "" /\ Arg("token") = s.token
Trusted == "trusted" \in io
RequireLocalAccess == Trusted \/ HasValidToken(settings)

\* A local path must lie below an allowed root, unless the adapter trusts paths.
PathAllowed(s, name) == Trusted \/ name \notin s.outside

Effect(what, by) == [what |-> what, by |-> by]

\* Each error has its status.
BadRequest == 400
Forbidden == 403
Failed == 500
Unsupported == 501
BadGateway == 502

NoAnswer == [status |-> 0, why |-> "", from |-> <<>>]

\* The handler returns; a HEAD request is answered without what it asked for.
Reply(status, why, made) ==
    /\ pc' = "done"
    /\ answer' = [status |-> status, why |-> why,
                  from |-> IF req.method = "HEAD" THEN <<>> ELSE made]
    /\ UNCHANGED <<steady, req, text, round, eff, sources>>

Refuse(status, why) == Reply(status, why, <<>>) /\ UNCHANGED effects

-----------------------------------------------------------------------------

Asked(c) == io = Capabilities(c.adapter) /\ settings = c.settings /\ req = c.request

Fresh ==
    /\ pc = "dispatch"
    /\ text = <<>> /\ round = 0
    /\ eff = settings
    /\ todo = <<>> /\ from = "url"
    /\ got = [url |-> <<>>, insert |-> <<>>] /\ lost = {}
    /\ effects = {} /\ answer = NoAnswer

Init == (\E c \in Cases : Asked(c)) /\ Fresh

Targets == {"clash", "clashr", "surge", "surfboard", "mellow", "quan", "quanx", "loon",
            "mixed", "v2ray", "singbox"}

\* The target that "auto" stands for, told by the client's User-Agent.
Inferred ==
    CASE req.agent \in {"clash", "surge", "quanx", "quan", "loon", "surfboard"} -> req.agent
      [] req.agent \in {"kitsunebi", "qv2ray", "v2ray"} -> "v2ray"
      [] req.agent \in {"shadowrocket", "pharos", "potatso", "trojan-qt5"} -> "mixed"
      [] OTHER -> NoArg

Target ==
    CASE req.path = "/sub2clashr"  -> "clashr"
      [] req.path = "/surge2clash" -> "clash"
      [] OTHER -> IF Arg("target") = "auto" THEN Inferred ELSE Arg("target")

SubPaths == {"/sub", "/sub2clashr", "/surge2clash"}

AtDispatch(path) == pc = "dispatch" /\ req.path = path /\ req.method = "GET"

ParseTarget ==
    /\ pc = "dispatch" /\ req.path \in SubPaths
    /\ req.method = "GET" \/ req.path = "/sub"
    /\ IF Target \in Targets
         THEN /\ pc' = "config"
              /\ UNCHANGED <<steady, req, text, round, eff, sources, effects, answer>>
         ELSE Refuse(BadRequest, "target")

NotFound ==
    /\ pc = "dispatch"
    /\ \/ req.path \notin SubPaths \cup {"/getruleset", "/getprofile", "/render", "/get", "/getlocal"}
       \/ req.method = "HEAD" /\ req.path # "/sub"
    /\ Refuse(404, "route")

\* Where a list of sources is not asked for, one is.
Link == Head(Arg("url"))

\* Routes that fetch or read one document and hand it out.
GetRuleset ==
    /\ AtDispatch("/getruleset")
    /\ CASE ~Has("url") \/ ~Has("type") -> Refuse(BadRequest, "argument")
         [] Link.kind = "http" ->
              \/ Reply(200, "ok", <<Link>>) /\ UNCHANGED effects
              \/ Refuse(BadGateway, "fetch")
              \/ Refuse(BadRequest, "type")
         [] OTHER ->
              IF ~RequireLocalAccess \/ ~PathAllowed(settings, Link.name) THEN Refuse(Forbidden, "path")
              ELSE /\ effects' = effects \cup {Effect("read", "request")}
                   /\ \/ Reply(200, "ok", <<Link>>)
                      \/ Reply(Failed, "read", <<>>)
                      \/ Reply(BadRequest, "type", <<>>)

\* The template's path, its configuration and the files it includes are local.
RenderTemplate ==
    /\ AtDispatch("/render")
    /\ CASE ~RequireLocalAccess -> Refuse(Forbidden, "token")
         [] RequireLocalAccess /\ ~Has("path") -> Refuse(BadRequest, "argument")
         [] RequireLocalAccess /\ Has("path") ->
              IF ~PathAllowed(settings, Arg("path").name) THEN Refuse(Forbidden, "path")
              ELSE /\ effects' = effects \cup {Effect("read", "request")}
                   /\ \/ Reply(200, "ok", <<Arg("path")>>)
                      \/ Reply(Failed, "read", <<>>)

RawGet ==
    /\ AtDispatch("/get")
    /\ CASE "fetch routes" \notin io -> Refuse(Unsupported, "route")
         [] "fetch routes" \in io /\ settings.apiMode -> Refuse(404, "api mode")
         [] OTHER ->
              IF ~Has("url") THEN Refuse(BadRequest, "argument")
              ELSE \/ Reply(200, "ok", <<Link>>) /\ UNCHANGED effects
                   \/ Refuse(BadGateway, "fetch")

GetLocal ==
    /\ AtDispatch("/getlocal")
    /\ CASE "local routes" \notin io -> Refuse(Unsupported, "route")
         [] "local routes" \in io /\ settings.apiMode -> Refuse(404, "api mode")
         [] OTHER ->
              IF ~RequireLocalAccess THEN Refuse(Forbidden, "token")
              ELSE IF ~Has("path") THEN Refuse(BadRequest, "argument")
              ELSE IF ~PathAllowed(settings, Arg("path").name) THEN Refuse(Forbidden, "path")
              ELSE /\ effects' = effects \cup {Effect("read", "request")}
                   /\ \/ Reply(200, "ok", <<Arg("path")>>)
                      \/ Reply(Failed, "read", <<>>)

-----------------------------------------------------------------------------

\* A single profile may carry its own token; several need the service's.
ProfileToken ==
    LET first == Profiles[req.names[1]] IN
    IF Len(req.names) = 1 /\ "profile_token" \in DOMAIN first
      THEN Arg("token") = first["profile_token"]
      ELSE settings.token # "" /\ Arg("token") = settings.token

Without(args, names) == [a \in DOMAIN args \ names |-> args[a]]

\* What the upper one says goes before what the lower one says.
Over(upper, lower) ==
    [a \in DOMAIN upper \cup DOMAIN lower |-> IF a \in DOMAIN upper THEN upper[a] ELSE lower[a]]

\* Sources of further profiles are put after those of the first; one that
\* cannot be read is passed over.
MergedUrls ==
    FlattenSeq([i \in DOMAIN req.names |->
        LET p == req.names[i] IN
        IF p \in DOMAIN Profiles /\ "url" \in DOMAIN Profiles[p] THEN Profiles[p]["url"] ELSE <<>>])

ProfileArgs ==
    LET first == Profiles[req.names[1]] IN
    IF MergedUrls = <<>> THEN first ELSE Over([url |-> MergedUrls], first)


\* The profile's arguments under the client's own, the client's token not passed on.
GetProfile ==
    /\ AtDispatch("/getprofile")
    /\ CASE ~Has("token") \/ Len(req.names) = 0 -> Refuse(Forbidden, "token")
         [] OTHER ->
              IF req.names[1] \notin DOMAIN Profiles THEN Refuse(Failed, "profile")
              ELSE IF ~ProfileToken THEN Refuse(Forbidden, "token")
              ELSE /\ req' = [req EXCEPT !.path = "/sub", !.method = "GET",
                                         !.args = Over(Without(req.args, {"token"}),
                                                       Without(ProfileArgs, {"profile_token"}))]
                   /\ UNCHANGED <<steady, pc, text, round, eff, sources, effects, answer>>

-----------------------------------------------------------------------------

LocalAuthorized(s) == HasValidToken(s) \/ Trusted

\* The configuration: the client's, the operator's default, or none.
ConfigText == IF Has("config") THEN Arg("config") ELSE settings.defaultConfig
ConfigBy == IF Has("config") THEN "request" ELSE "operator"
ConfigAuthorized == ~Has("config") \/ LocalAuthorized(settings)

NoConfig == ConfigText.name = ""

\* A local text needs authority, an allowed path and a file; any other is
\* fetched, or is the text itself.
LoadErrors(place, name) ==
    CASE place = "inline" -> {}
      [] place = "http"   -> {BadGateway}
      [] place = "local"  -> IF ConfigAuthorized /\ PathAllowed(settings, name) THEN {Failed} ELSE {Forbidden}

LoadConfig ==
    /\ pc = "config"
    /\ IF NoConfig
         THEN /\ pc' = "overlay"
              /\ UNCHANGED <<steady, req, text, round, eff, sources, effects, answer>>
         ELSE LET c == ConfigText
                  errors == LoadErrors(c.place, c.name) IN
              \/ \E status \in errors : Refuse(status, "config")
              \/ /\ Forbidden \notin errors
                 /\ pc' = "imports" /\ text' = c.lines
                 /\ effects' = IF c.place = "local" THEN effects \cup {Effect("read", ConfigBy)} ELSE effects
                 /\ UNCHANGED <<steady, req, round, eff, sources, answer>>

\* One round of imports.  The round that would be one too many is refused
\* before it is known whether anything is left to import.
Unreadable == ImportRefs(text) \ DOMAIN Files
Denied == {r \in ImportRefs(text) \cap LocalRefs : ~(ConfigAuthorized /\ PathAllowed(settings, r))}

\* A limit that is looked at too late, or only when something is left.
LimitPassed == round > MaxRounds
LimitWithRest == round = MaxRounds /\ ImportRefs(text) # {}

LimitReached == round = MaxRounds

ExpandRound ==
    /\ pc = "imports"
    /\ IF LimitReached THEN Refuse(Failed, "recursion limit")
       ELSE IF ImportRefs(text) = {}
         THEN /\ pc' = "bases"
              /\ UNCHANGED <<steady, req, text, round, eff, sources, effects, answer>>
       ELSE IF Denied # {} THEN Refuse(Forbidden, "import")
       ELSE IF Unreadable # {} THEN Refuse(Failed, "import")
       ELSE /\ text' = ExpandImports(text, Files)
            /\ round' = round + 1
            /\ effects' = IF ImportRefs(text) \cap LocalRefs = {} THEN effects
                          ELSE effects \cup {Effect("read", ConfigBy)}
            /\ UNCHANGED <<steady, req, pc, eff, sources, answer>>

\* A rule base that a configuration names is read into it if that is possible,
\* and left as it is otherwise.
ResolveBases ==
    /\ pc = "bases" /\ pc' = "overlay"
    /\ LET c == ConfigText
           reads == /\ c.syntax # "broken" /\ c.base \in LocalRefs \cap DOMAIN Files
                    /\ ConfigAuthorized /\ PathAllowed(settings, c.base)
       IN  effects' = IF reads THEN effects \cup {Effect("read", ConfigBy)} ELSE effects
    /\ UNCHANGED <<steady, req, text, round, eff, sources, answer>>

\* Groups and rulesets of the request are put behind the configuration as INI.
\* A YAML text then reads as INI: what it sets is found by name and comes out as
\* the default.  A TOML text no longer parses, and none of it is used.
Sets ==
    LET c == ConfigText IN
    CASE NoConfig \/ c.syntax = "broken" -> <<>>
      [] OTHER -> IF ~Has("groups") \/ c.syntax = "ini" THEN c.sets
                  ELSE IF c.syntax = "toml" THEN <<>>
                  ELSE [k \in DOMAIN c.sets |-> Defaults[k]]

ConfigTrusted == ~Has("config") \/ HasValidToken(settings) \/ Trusted

\* A configuration nobody vouches for leaves the access settings alone.
ProtectedModes == {"apiMode", "outside"}
Protected == {"token", "apiMode", "outside"}

Overlaid ==
    LET sets == IF ConfigTrusted THEN Sets ELSE Without(Sets, Protected) IN Over(sets, settings)

OverlayConfig ==
    /\ pc = "overlay"
    /\ pc' = "scripts"
    /\ eff' = IF Has("filter_script") THEN [Overlaid EXCEPT !.script = Arg("filter_script")]
              ELSE Overlaid
    /\ UNCHANGED <<steady, req, text, round, sources, effects, answer>>

\* A script of the settings, or of the request, is read if it names a path.
ScriptsAuthorized == LocalAuthorized(settings)

ApiAuthorized == ~eff.apiMode \/ HasValidToken(eff)
InsertEnabled == Flag("insert", eff.insert) /\ eff.insertUrls # <<>>

Gather(list, links) ==
    /\ pc' = "sources" /\ from' = list /\ todo' = links
    /\ UNCHANGED <<steady, req, text, round, eff, got, lost, answer>>

BeginSources ==
    CASE Has("url") -> Gather("url", Arg("url"))
      [] ~Has("url") /\ ApiAuthorized /\ eff.defaultUrls # <<>> -> Gather("url", eff.defaultUrls)
      [] OTHER -> IF InsertEnabled THEN Gather("insert", eff.insertUrls)
                  ELSE Reply(BadRequest, "url", <<>>)

ResolveScripts ==
    /\ pc = "scripts"
    /\ CASE eff.script = "" -> BeginSources /\ UNCHANGED effects
         [] eff.script # "" /\ "scripts" \notin io -> Refuse(Unsupported, "script")
         [] OTHER ->
              IF ~ScriptsAuthorized THEN Refuse(Forbidden, "script")
              ELSE IF ~PathAllowed(eff, eff.script) THEN Refuse(Forbidden, "path")
              ELSE BeginSources /\ effects' = effects \cup {Effect("script", "request")}

-----------------------------------------------------------------------------

\* How a source turns out.  Files a client names need authority, and their
\* errors end the request; a list of the configuration is read without.
FileAuthorized == from = "insert" \/ LocalAuthorized(eff)

Outcomes(s) ==
    CASE s.kind = "http"   -> {200, BadGateway}
      [] s.kind = "inline" -> {200}
      [] s.kind = "file"   -> IF FileAuthorized /\ PathAllowed(eff, s.name) THEN {200, Failed}
                              ELSE {Forbidden}
      [] s.kind = "script" -> IF "scripts" \notin io THEN {Unsupported}
                              ELSE IF ScriptsAuthorized /\ PathAllowed(eff, s.name) THEN {200, Failed}
                              ELSE {Forbidden}

\* Only a failed link or script may be skipped.
Skippable(s) == eff.skipFailed /\ s.kind \in {"http", "script"}

SourceEffect(s) ==
    CASE s.kind = "file"   -> {Effect("read", IF from = "insert" THEN "list" ELSE "request")}
      [] s.kind = "script" -> {Effect("script", "request")}
      [] OTHER             -> {}

ResolveSource ==
    /\ pc = "sources" /\ todo # <<>>
    /\ \E status \in Outcomes(Head(todo)) :
         LET s == Head(todo) IN
         IF status # 200 /\ ~Skippable(s) THEN Refuse(status, "source")
         ELSE /\ todo' = Tail(todo)
              /\ got' = IF status = 200 THEN [got EXCEPT ![from] = Append(@, s)] ELSE got
              /\ lost' = IF status = 200 THEN lost ELSE lost \cup {<<from, Len(todo)>>}
              /\ effects' = IF status = 200 THEN effects \cup SourceEffect(s) ELSE effects
              /\ UNCHANGED <<steady, req, pc, text, round, eff, from, answer>>

InsertSources ==
    /\ pc = "sources" /\ todo = <<>> /\ from = "url"
    /\ IF InsertEnabled THEN Gather("insert", eff.insertUrls)
       ELSE pc' = "convert" /\ UNCHANGED <<steady, req, text, round, eff, sources, answer>>
    /\ UNCHANGED effects

InsertDone ==
    /\ pc = "sources" /\ todo = <<>> /\ from = "insert"
    /\ pc' = "convert"
    /\ UNCHANGED <<steady, req, text, round, eff, sources, effects, answer>>

PrependInsert == Flag("prepend", eff.prepend)

\* The setting is forgotten.
SourcesAppended == got.url \o got.insert

Sources == IF PrependInsert THEN got.insert \o got.url ELSE got.url \o got.insert

\* The checks before the conversion, and the conversion, which may fail.
Convert ==
    /\ pc = "convert"
    /\ CASE Sources = <<>> -> Refuse(BadRequest, "nodes")
         [] Sources # <<>> /\ Arg("ver") = "bad" -> Refuse(BadRequest, "ver")
         [] OTHER ->
              IF Flag("upload", FALSE) /\ "gist" \notin io THEN Refuse(Unsupported, "upload")
              ELSE IF Flag("upload", FALSE) /\ ~ScriptsAuthorized THEN Refuse(Forbidden, "upload")
              ELSE \/ Refuse(BadRequest, "convert")
                   \/ /\ pc' = "upload"
                      /\ UNCHANGED <<steady, req, text, round, eff, sources, effects, answer>>

\* The name the result gets in the gist, and whether its own address may be put
\* in front of it.
UploadName ==
    [target |-> Target,
     version |-> IF Target = "surge" THEN Arg("ver") ELSE NoArg,
     list |-> Target = "surge" /\ Flag("list", FALSE)]

WriteManagedUrl == Target \in {"surge", "surfboard", "mellow"}

\* Surge files that are not node lists say where they came from; a header tells
\* how often to come back.
ManagedPrefix == Target \in {"surge", "surfboard"} /\ ~Flag("list", FALSE) /\ settings.managed

Respond ==
    /\ pc = "upload"
    /\ IF Flag("upload", FALSE)
         THEN \/ /\ effects' = effects \cup {Effect("upload", "request")}
                 /\ Reply(200, IF ManagedPrefix THEN "managed" ELSE "ok", Sources)
              \/ /\ effects' \in {effects, effects \cup {Effect("upload", "request")}}
                 /\ Reply(Failed, "upload", <<>>)
         ELSE /\ UNCHANGED effects
              /\ Reply(200, IF ManagedPrefix THEN "managed" ELSE "ok", Sources)

Next ==
    \/ NotFound \/ ParseTarget \/ GetRuleset \/ RenderTemplate \/ RawGet \/ GetLocal \/ GetProfile
    \/ LoadConfig \/ ExpandRound \/ ResolveBases \/ OverlayConfig \/ ResolveScripts
    \/ ResolveSource \/ InsertSources \/ InsertDone \/ Convert \/ Respond

SubSpec == Init /\ [][Next]_vars

-----------------------------------------------------------------------------

Steps == {"dispatch", "config", "imports", "bases", "overlay", "scripts", "sources",
          "convert", "upload", "done"}

TypeOK ==
    /\ io \in {Capabilities(a) : a \in Adapters}
    /\ pc \in Steps /\ round \in 0..MaxRounds
    /\ text \in Seq(Line)
    /\ DOMAIN eff = DOMAIN Defaults
    /\ \A i \in DOMAIN todo : todo[i].kind \in Kinds
    /\ from \in {"url", "insert"} /\ DOMAIN got = {"url", "insert"}
    /\ effects \subseteq {Effect(w, b) : w \in {"read", "script", "upload"},
                                       b \in {"request", "operator", "list"}}
    /\ answer.status \in {0, 200, 400, 403, 404, 500, 501, 502}
    /\ (pc = "done") = (answer.status # 0)

\* The tokens the operator gave out: the service's, and that of a default
\* configuration.
DefaultToken ==
    IF ~Has("config") /\ ~NoConfig /\ "token" \in DOMAIN ConfigText.sets
      THEN {ConfigText.sets["token"]} ELSE {}
OperatorTokens == ({settings.token} \cup DefaultToken) \ {""}

\* A client's configuration gives the client nothing: scripts run, results are
\* uploaded and files that the client names are read only for who holds a token
\* of the operator, whatever a configuration along the way says of tokens, modes
\* and roots (resolve_sources, resolve_configured_scripts, resolve_config_content).
ConfigGrantsNothing ==
    \A e \in effects :
        e.what \in {"script", "upload"} \/ e.by = "request"
            => Trusted \/ Arg("token") \in OperatorTokens

\* What a converted answer was made from, as the arguments and settings list it.
Listed ==
    [url |-> IF Has("url") THEN Arg("url") ELSE IF ApiAuthorized THEN eff.defaultUrls ELSE <<>>,
     insert |-> IF InsertEnabled THEN eff.insertUrls ELSE <<>>]
PlaceOf(l) == Len(Listed[l[1]]) + 1 - l[2]
Kept(list) ==
    LET left == {PlaceOf(l) : l \in {k \in lost : k[1] = list}}
    IN  FlattenSeq([i \in DOMAIN Listed[list] |-> IF i \in left THEN <<>> ELSE <<Listed[list][i]>>])

\* An answer is made from every source that was asked for, in the order in which
\* they were listed, the inserted ones in front or behind as set, and only links
\* and scripts that failed are missing, where the settings allow that.
SourcesInOrder ==
    answer.status = 200 /\ req.path \in SubPaths /\ req.method = "GET" =>
        /\ answer.from = IF Flag("prepend", eff.prepend) THEN Kept("insert") \o Kept("url")
                         ELSE Kept("url") \o Kept("insert")
        /\ lost # {} => eff.skipFailed
        /\ \A l \in lost : Listed[l[1]][PlaceOf(l)].kind \in {"http", "script"}

\* The limit on imports is one on how deep they are nested: a configuration
\* passes if and only if nothing is left to import after MaxRounds - 1 rounds,
\* however its files bring each other in (expand_config_imports).
Padded == [r \in References |-> IF r \in DOMAIN Files THEN Files[r] ELSE <<>>]
Nested == Level(ConfigText.lines, Padded, MaxRounds - 1)[MaxRounds - 1]

ImportDepth ==
    /\ pc \in {"bases", "overlay", "scripts", "sources", "convert", "upload"} /\ ~NoConfig => Nested = {}
    /\ answer.why = "recursion limit" => Nested # {}
=============================================================================
