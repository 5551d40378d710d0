# Verification of subconverter-rs in TLA+

subconverter-rs turns proxy subscriptions into client configurations. It runs as
a native HTTP server (also as a managed service), as a Cloudflare worker and as a
command-line tool, all three around one core library. This directory holds TLA+
models of the parts of it where order, failure and concurrency decide whether it
is right, the TLC configurations that check them on small instances, and proofs
of the properties that matter most for every instance. Paths below are relative
to `src/crates/`.

## 1. Inventory

### 1.1 Components

| Component | Code | State | Operations | Correct when |
| --- | --- | --- | --- | --- |
| Settings store | `subconverter-server/src/main.rs` (`call_core`, `load_pref`), `subconverter-core/src/routes.rs` (`/readconf`, `/updateconf`) | `AppState::settings` behind an `RwLock`; the pref files | a request clones the settings; the two management requests replace them and the file | memory is what a restart would load; an acknowledged update survives |
| Fetch cache | `routes.rs` (`fetch_remote`), `main.rs` (`FsIo::cache_*`) | map from namespace and URL to content and expiry | look up, fetch, store, serve stale, flush | content is recent enough; a flush works; settings are respected |
| Upstream fetch | `main.rs` (`FsIo::fetch`, `client_for`) | a map of HTTP clients shared by all fetches | redirect hops, DNS, timeouts, size limit | every request uses its own lookup and limits; bounded in time, hops and bytes |
| Server lifecycle, cron | `main.rs` (`run_server_with_settings`, `start_cron_manager`) | HTTP server, manager, tasks, scripts, shutdown channel | start, serve, reconfigure, drain, exit | shutdown ends and cuts nothing it need not |
| Windows host | `windows_service_host.rs` | state reported to the SCM | control handler and service main | states reported in a legal order |
| Service installer | `service.rs` | managed binary, `base/`, service definition, account | install, start, stop, restart, uninstall, status | what is registered is whole; data is kept |
| Settings layers | `config.rs` | a `Settings` value | parse, overlay, environment | request over external over pref over defaults |
| Import expansion | `config.rs` (`import_refs`, `expand_imports_with`), and the loops in `routes.rs`, `subconverter-worker/src/lib.rs`, `subconverter-cli/src/main.rs` | text being expanded | a round; rounds up to a limit, or a single one | complete or refused, at exactly the limit |
| Request routing | `routes.rs` | none beyond the request | dispatch, tokens, profiles, configuration, scripts, sources, answer, upload | nothing is done for a client without authority; the answer is made of what was asked for |
| Node pipeline | `convert.rs` | the list of nodes | parse, filter, rename, emoji, sort, unique names | no node lost, order kept, names distinct |
| Rule and group export | `convert.rs`, `rules.rs` | lists of rules, groups, providers; rule bases | generate and merge | every reference has a definition; the base survives |
| QuickJS bridge | `convert.rs` (`quickjs_call`) | the time limit all scripts share | one call per node and rule | only authorized requests run scripts, within one limit |
| Gist upload | `main.rs` (`upload_gist`) | `gistconf.ini`, the remote gist | create or patch, record | uploads that follow one another share a gist |
| Worker adapter | `subconverter-worker` | the KV cache | fetch and its checks, settings | every hop is checked |
| Command line | `subconverter-cli` | none; artifact files | convert, generate all targets, fetch | artifacts in order, each from a fetch of its own |
| Templates | `template.rs` | none | render | who may read what; the rendering is a pure substitution |
| Links and exporters, utilities | `convert.rs`, `util.rs`, `model.rs` | none | field by field translation | golden tests of the repository |

### 1.2 How they interact

Every HTTP request runs in a future of its own on tokio's threads. `call_core`
takes a clone of the settings, hands it with the shared `FsIo` to the core, and
writes it back if the request was `/readconf` or `/updateconf` and succeeded. The
core reads remote sources, configurations and rulesets through `fetch_remote`,
that is through the process-wide cache. The cron manager reads the shared
settings every five seconds. The shutdown signal stops the listener and the
manager. Nothing is persisted but the pref files, `gistconf.ini` and what the
installer lays down.

### 1.3 What is hard

* Handlers interleave at every `await`; locks are held for single map or
  settings accesses only, never across an operation.
* The write-back of whole settings, the truncate-then-write of a file and the
  two renames of an upgrade can each be interrupted, by a crash or by another
  actor.
* Time: expiry, per-hop timeouts, the limit on the shutdown, the poll of the
  cron manager.
* Two readers of the same files disagree (`load_pref` and `/readconf`), and two
  lookups of the same keys (`parse_*` and `overlay`).
* Authority is looked at in six places of one request, against the service's
  settings in some and against the request's own in others.
* An import brings in imports; one list of names is written by one function and
  referred to by another; names change between a filter and the next.
* `gistconf.ini` is read before GitHub is asked and written after.

`PROJECT.json` lists each hazard at its line with the properties that cover it.

## 2. Plan

| Step | Modules | State |
| --- | --- | --- |
| 1 | `FetchCache`, its promise `BoundedStaleness`, `FetchCacheProofs` | done |
| 2 | `SettingsStore`, `SettingsStoreProofs` | done |
| 3 | `ServiceInstall`, its promise `Deployment`, in `ServiceProofs` | done |
| 4 | `ServerLifecycle` and around it `WindowsHost`, in `ServiceProofs` | done |
| 5 | `SettingsLayers`, `SettingsLayersProofs` | done |
| 6 | `UpstreamFetch`, `UpstreamFetchProofs` | done |
| 7 | `ConfigImports` (one round of imports), `SubRequest` (a request from the dispatch to the answer), `CommandLine` (the two other loops of imports, the generator) | done |
| 8 | `Lists`, `NodeNames`, `TextSections`, `Documents`, and on them `Conversion` | done |
| 9 | `GistUpload`; `EdgeFetch` (the fetches of the Worker and the command line, and the KV cache) | done |
| 10 | `SequenceLemmas`, and on it `RequestProofs` and `ConversionProofs` | done; what stays with TLC is in section 6 |

Modules that compose others EXTEND them (`WindowsHost` extends
`ServerLifecycle`, `SubRequest` and `CommandLine` extend `ConfigImports`,
`Conversion` extends `Documents` and that `NodeNames` and `TextSections`, all of them
over `Lists`), so that one run covers the composition and its part. Promises are separate modules that the
detailed ones INSTANCE. No module declares a RECURSIVE operator: what recurs is a
recursive function or a fold, and what texts nested in texts hold is a constant that
satisfies its equation (`Reading`, section 3.10). To keep the runs few, each component has one passing run with all its properties, and
`MCRequest` runs the four programs of steps 7 and 9 side by side, one per behaviour.

## 3. The modules

Each section says how state and actions correspond to the code; `PROJECT.json`,
under `map`, gives the lines of every definition.

### 3.1 FetchCache and BoundedStaleness

`FetchCache` models `fetch_remote` over the map of `FsIo`. A handler accepts a
request with one of the settings in force (`Accept`), makes any number of fetches
and answers (`Finish`). A fetch is refused (`FetchForbidden`), served from a live
entry (`FetchHit`) or sent upstream (`FetchMiss`); the upstream answers
(`UpstreamAnswers`) some time before the handler stores and returns the answer
(`FetchSucceeds`) or fails (`FetchFails`), with the stale copy if the settings say
so. `/flushcache` and `/refreshrules` clear the map; the upstream publishes;
time passes, but a fetch takes at most `FetchLimit` (3.6 shows that there is such
a limit). Contents are the upstream's version numbers.

`BoundedStaleness` is the promise, with no cache in it: each fetch returns, at
once, a version that was the newest recently enough. `ImplementsPromise` says
that `FetchCache` implements it.

### 3.2 SettingsStore

`SettingsStore` models the two copies of the settings. A content is one of five
kinds, told apart by how they load: the loader of the start expands one level of
local imports, a request expands all and remote ones. A management request goes
through `expanding`, `expanded` (update only), `writing`, `parsed` and is
committed, with every error return on the way; `Truncate` and `Fill` are the two
halves of `fs::write`. An administrator edits files, handlers are dropped with
their connection, the process crashes and starts. `Agreement` and
`DurableUpdate` are about a request that ran alone (`alone`): two at once do lose
updates, which the code does not claim otherwise.

### 3.3 ServiceInstall and Deployment

`ServiceInstall` is the program of `subconverter-server service`: per scope the
command that runs is a job with a program counter, and `Steps` are the steps of
`replace_file` and `replace_tree` (remove the staged copy and the backup, copy,
two renames, clean up). The two differ in when they remove the backup, which is
why one fault cannot lose the binary and can lose `base/`. Every step may fail,
some half way (`RemovalFailsHalfway`, `UnregisterFailsHalfway`,
`RegisterFailsHalfway`, `MoveInFails`, whose undo may fail too), the machine may
restart between any two, waits for the service give up (`WaitTimesOut`) and the
service follows later. A copy is told by its release.

`Deployment` is the promise: seen from the registration, a release is deployed or
removed in one step, and its two parts are never of a mixed or partial install.

### 3.4 ServerLifecycle and WindowsHost

`ServerLifecycle` models `run_server_with_settings`: the listener, the `select!`
over the server and the shutdown signal, the two ways in which the 30-second
limit is applied, requests that take time or for ever, the cron manager's poll of
the settings, its tasks (a generation per change of the settings) and their
scripts on blocking threads, which an abort does not stop. `WindowsHost` extends
it with the states that `run_service` and the control handler, on a thread of the
SCM's, report. Its specification contains all the lifecycle's behaviours: a
signal on other systems is a control of which nothing is reported.

### 3.5 SettingsLayers

A `/sub` request works with settings put together from defaults, the pref file,
the environment, the external configuration and the request. Two readers decide
what a text sets: a parser for the detected format (`Parsed`), which gives a
value for every field, and a scan of the lines that knows neither format nor
section (`Mentions`), which says which of those values `overlay` takes. A value is
the set of layers it comes from; a document is a format and a set of entries
(field, section, notation); there is one field for each way the code treats a key.

`Priority` is the documented order of the layers, for texts that are `Readable`
and `Scannable`. Those two predicates are the result: they were found by dropping
their clauses one by one, and every clause is needed. What they exclude are texts
on which the two readers disagree, among them

* `overwrite_original_rules` under `[custom]` in TOML and YAML, as in
  `base/config/example_external_config.toml` and `.yml`: scanned, not parsed,
  hence reset to the default;
* `[[node_pref.rename_node]]`: parsed, not scanned, hence without effect;
* a section `rulesets:` of YAML that holds other keys: it empties the pref file's
  rulesets;
* a YAML text behind which the request's groups were appended as INI: it is taken
  for INI, and what it mentions becomes the default.

`TokenProtected` has no such condition.

### 3.6 UpstreamFetch

`UpstreamFetch` models `FsIo::fetch` and `client_for`: the loop over the requests
of a redirect chain (`Enter`, `Redirects`), the lookup before each, the vetting of
what it found, the client found by its key (`ReusesClient`) or built and inserted
in two steps (`MissesClient`, `BuildsClient`) between which other fetches run, the
connection, the head and the chunks of the body, the client's two time limits
(`Due`) and the drop of the future. A lookup may find anything that the last one
did not. `Targets` says what a client does when it is used for another host: it
resolves by itself. That `OwnClient` rules this out is what the key is for.

`FetchLimit(policy)`, the bound of `InTime`, is the `FetchLimit` of `FetchCache`.

### 3.7 ConfigImports and SubRequest

`ConfigImports` is one round of `import_refs` and `expand_imports_with`: a text is a
sequence of lines of nine kinds, and `ExpandImports` puts the files' lines in
the place of the imports, in the way of each syntax (tables of TOML, items of a YAML
list in the context that is found by looking back, lines of INI). TOML files that a
table imports are taken to consist of tables, as those of the repository do.

`SubRequest` is one request: `ParseTarget` and `NotFound`, the routes that hand out
one document (`GetRuleset`, `RenderTemplate`, `RawGet`, `GetLocal`), `GetProfile`,
which makes a `/sub` request of a profile, and the way of a `/sub` request:
`LoadConfig`, `ExpandRound` for each round of imports, `ResolveBases`,
`OverlayConfig`, `ResolveScripts`, `ResolveSource` for each source of `url` and then
of the insert list, `Convert`, `Respond`. Each has the early returns of its function
with their statuses. `effects` is what was done with the operator's powers (local
files read, scripts run, results uploaded), by whose word; `io` is what the adapter
can do; `settings` is what the service runs under and `eff` what this request
does. Two things the code does are worth knowing: sources of the insert list are
read as if authorized, whatever configuration they come from; and a token in the
operator's own default configuration is as good as the service's for the sources.

### 3.8 CommandLine and EdgeFetch

`CommandLine` is the pref file of the command line (one round of imports) and of the
Worker (rounds until nothing is left, defaults where that fails), and the generator:
one request per target, in order, stopping at the first that fails, while the
subscription changes. `EdgeFetch` is `WorkerIo::fetch` and `CliIo::fetch`: both follow
redirects themselves and check each URL, but the Worker cannot resolve a name. The
KV cache goes before the Worker's checks, as in the code.

### 3.9 GistUpload

`upload_gist` in handlers that run side by side: `GistRead`, `GistCreate` or
`GistUpdate`, `GistTruncate`, `GistWrite`, and every way to fail between them.
`disturbed` is set by the steps after which the code promises nothing: an upload
that begins while another runs, a record that fails, a name that is `common`, the
section in which the gist itself is recorded.

### 3.10 Conversion and what it stands on

`Conversion` is `convert_subscription_with_settings` node by node: `ParseText`,
`ParseLink`, `ParseOther` on the work list that nested base64 makes; the filter
script; `Prefer`; renaming rule by rule; `Select`; `Prepare` and the emoji rules;
sorting; `NameTaken` and `NameFree`, which try suffixes; `WriteDocument`. A script
answers anything of its type, at once or later, or fails; `now` is the time that all of
them took. A remark is a sequence of words, a pattern one word (`NodeNames`).

`Documents` is what the exporters put together: names of proxies, groups and members,
rules and their targets, providers, and of the text formats the lines.
`TextSections` is the merge of generated sections into a rule base. `Lists` is the one
operator they share: `Filtered`, what is left of a list at some of its places.

`NothingLost` compares what is exported with a reference reading of the sources that
knows nothing of the steps: the constant `Reading` gives for each text the nodes that
it holds, and `ReadingIs` is the equation that it satisfies, `NodesWith`. For texts
that are nested a number of times it has one solution; `MCReading` computes it level
by level, and TLC evaluates the equation for it.

## 4. Runs

| Run | States | Bounds | What it shows |
| --- | --- | --- | --- |
| `fetch_cache` | 907,801 | two handlers, one URL in two namespaces, three settings (plain; stale copies, no subscription caching; URL forbidden), three ticks, two versions | staleness is bounded, a flush works up to one fetch, a forbidden URL is not served from the cache, overlapping fetches never store older than they found, the promise is implemented |
| `settings_store` | 1,607,486 | two management requests, two pref files, six contents of all kinds, one edit, one crash | memory is what a restart loads; an acknowledged update survives |
| `service_install` | 286,579 | one scope, two releases, four commands, two faults | what is registered is whole, one fault keeps a binary, success means delivered, the promise is implemented |
| `server_lifecycle` | 59,402 | two requests of 0 to 3 ticks or for ever, limit 2, two changes among three cron settings | the shutdown waits for what it should and no longer, ends, cron follows the settings, the SCM sees the states in order and has every control answered |
| `settings_layers` | 1,402,756 | all documents of up to two entries in every section, notation and format; a full and an empty pref file | the documented priority for texts both readers understand; the token for all |
| `upstream_fetch` | 275,707 | two fetches, two hosts, two answers, two settings, one redirect | every request is its fetch's own, within its settings; fetches end in time |
| `request` | 486,062 | `SubRequest`: three adapters, settings with a token, in API mode, with scripts, insert list and default configuration, requests that combine them; up to three rounds of imports over seven files that bring in one another and themselves; other routes with profiles and both methods. `GistUpload`: three handlers, three names, three gists. `EdgeFetch`: all URLs, two redirects. `CommandLine`: all texts, three targets, two versions | a client's configuration grants nothing; the answer is made of what was asked for, in order; imports end at exactly the limit; uploads that follow one another share a gist; every hop is checked; artifacts come in order |
| `conversion` | 208,539 | up to three nodes, in four families of jobs: sources of every kind, alone, in pairs and nested; scripts in every stage, a limit of two; remarks that collide with each other's suffixes; every target with groups, rulesets and rule bases | no node is lost; every reference has a definition; a base keeps what it had; scripts share one limit |
| `service_install_atomic`, `server_lifecycle_cron`, `settings_request`, `clash_providers` | | | the document's sentence quoted in section 7 is not what the code does |

Why the bounds are enough. Interference needs two actors on one key, and the
properties speak of one or two at a time; the proofs cover any number. Three ticks
let an entry of lifetime two expire while a fetch of length one is in flight, and
two versions tell new from old. Two pref files tell "first that loads" from "first
that reads". Two faults are a fault and a fault in its repair, four commands an
install, an upgrade, and a retry with anything before it. Two changes of the
settings make a task be aborted while its successor is. Two entries are enough
for two readers to disagree about a text, since they treat each field by itself
and only sections and format link two entries. One redirect under one policy and
none under the other make the last request both the first and a later one. Three
rounds tell a text that is nested one too deep from one that is just not, in each
syntax and for the loop that never ends. Three gist handlers are two in a row and
one that disturbs. Three nodes are needed for a suffix to collide with a name that
was there before; two scripts and a limit of two let the first stage use up the time
of the second. The text bases have each section of the format present and absent,
first and last in the file, empty and not.

`CHECK_DEADLOCK FALSE` is set where the system may stop: the bounded clocks,
edits and commands run out, and the server process exits.

Mutated definitions stand before what they mutate, with a comment that says what
they get wrong, and are used by no specification: they show for each property a
plausible bug that it finds. `PROJECT.json` lists them.

## 5. Fairness

`FetchCache`, `SettingsStore`, `ServiceInstall`, `SettingsLayers`, `Conversion` and
the four programs of `MCRequest` assume none: their properties are about safety. (The
loops of the last five are bounded by counters that `TypeOK` and `ImportsBounded`
speak of.)

`ServerLifecycle` assumes weak fairness of what the runtime does by itself: the
steps of the main future, an answer that is ready, the manager's poll, tasks that
return or were aborted, scripts (which the QuickJS deadline ends) and time.
Nothing makes a request come or be answered by a client that is gone, a cron time
come, or a shutdown be requested. The runtime is prompt: time does not pass while
something is ready (`Quiet`), which is what makes a limit in ticks meaningful; the
order of what is ready is free. `WindowsHost` adds that a control handler that was
called returns and that the process lives until it has reported.

`UpstreamFetch` assumes weak fairness of the resolver, which has a limit of its
own, of building a client and of the timers, and strong fairness of `Tick`: time
goes on however many fetches begin and end meanwhile. Weak fairness of `Tick`
would allow infinitely many fetches in no time. The upstream need not do anything.

## 6. Proofs

All are for any values of the constants that satisfy the named assumptions, which
TLC evaluates in the runs.

* `FetchCacheProofs`: `TypeCorrect`, `Freshness`, `Flushing`, `Revocation`,
  `StoresNoOlder`, `Refinement`. None of the properties is inductive. `IInv` adds
  that an entry was the newest version within one fetch of both the moment it was
  stored and the last flush (`EntryInv`), and that an answer in flight was the
  newest after the fetch began (`FlightInv`); the two lemmas about `NewestWithin`
  say how such facts age when the upstream publishes and time passes.
* `SettingsStoreProofs`: `TypeCorrect`, `MemoryAgreesWithDisk`,
  `UpdatesAreDurable`. `IInv` adds that a request marked alone is, that the file it
  works on is the first that reads, and holds its content (`AloneInv`), and that
  nothing counts as settled while a file is being written (`WritingInv`). The
  lemmas about `FirstReadable` and `LoadPref` connect the two readers.
* `ServiceProofs`, of the installer and of the service that it installs. The
  installer: `TypeCorrect`, `RegisteredWhole`, `ProgramKept`, `Delivers`,
  `Refinement`. The invariant is one predicate per stage of the replacement, for one
  scope; `GoodElsewhere` shows that a scope's steps leave the others alone. The
  proofs cover both kinds of service manager (`RunAtLoad`), the run only one. The
  server: `ServerTypeCorrect`, `Drained`, `InTime`. `Clock` says that what is left of
  the limit and what has passed add up to it. For the Windows host `HostRunsServer`
  (its steps are steps of the server, so the three hold for it too) and
  `ReportsInOrder`; `HostOrder` says that while Running is reported nobody has asked
  the server to stop, so that it cannot exit meanwhile.
* `SettingsLayersProofs`: `TypeCorrect`, `TokenKept`, `PriorityHolds`, for
  documents of any size. The state is a function of the request (`Computed`); the
  argument is `ReadableFinds` (the parser finds what was written) and
  `ScannableMentions` (the scan sees just that), field by field.
* `UpstreamFetchProofs`: `TypeCorrect`, `ClientsShared`, `PolicyKept`,
  `TimeBounded`, `LoopNeverFallsThrough`, for any redirects and limits. The
  invariant says that each client is what its key says, and bounds the time of a
  fetch by the full limits of its earlier requests plus what it has used of this.
* `ConversionProofs`: `TypeCorrect`, `OnlyAuthorizedScripts`, `NamesUnique`,
  `BaseKept`, `ReferencesHold`, `NothingIsLost`, for any jobs, nodes, rules, scripts and bases. The
  invariant of the steps is small. `Checked` says that past the parse stage a job has
  scripts only if it may (`ensure_scripts_allowed` stands in one place and the calls
  in four), `Named` that the names so far differ (a name is put down only when the
  list was searched for the very form in which it is put down), `Exported` that the
  document is the export of what has names. The rest is about what the exporters and
  the merge compute:
  * `BaseKept`, which states `SectionsMerged`. `UnderFrom` is what a reader finds in a
    part of a file, given the header above it; `FindsConcat` puts parts together.
    A section that is there once cuts a file in three (`CutAt`), and appending to it,
    replacing it and adding a new one change what is found under its title and
    nothing else (`AppendIs`, `ReplaceIs`, `NewDiffers`, `MergeDiffers`). Three merges
    after each other make the document (`AppliedIs`, `ExportedText`).
  * `ReferencesHold`, which states `ReferencesResolve`. Groups and rules name nodes,
    groups of the settings and the built-in names (`ProxyGroupsAre`, `CoherentIs`), and
    that is enough for a document to resolve (`ReferencesAre`). Then format by
    format: `ClashResolves` with its base and providers, `SingboxResolves` with the
    outbounds the program puts in, `TextResolves`. The last reads the lines back from
    the merged text, for which it needs that a base has no lines of nodes, groups
    and rules of its own (`SettingsAreTyped`) and what `ExportedText` says.
  * `NothingIsLost`, which states `NothingLost`. A node is followed by its tag, what
    it is read as (`TagOf`), which no stage changes. `Parsing` says, while sources are
    read, that the tags found so far and then what the work list holds are what the
    sources hold (`ReadKeeps`: an item gives way to its nodes and the work in it).
    `Kept` says of each later stage that the nodes that are through and then those
    that are not are a selection of the sources' (`Sub`, which lemmas compose), and
    from the export on that they are one up to order: a sorted list is the list
    in the order of a permutation (`SortedShuffles`, for which the order of names by
    bytes has to be total). `Numbered` says that the names tried in vain are all in
    use, so that a pigeonhole argument bounds the suffix (`NamesUsed`).
* `RequestProofs`, each of the four programs of `MCRequest` on its own and then all:
  * `NothingGranted` for any adapter, settings, request, profiles and files.
    `Authority` says that, from the configuration on, a token the request's settings
    would accept is one of the operator's (`OverlaidToken` follows it through the
    overlay and its four cases), and that an upload is under way only if allowed.
  * `RequestTyped` and `ProgramsTyped`. `Shape` adds to the types that the effective
    settings keep their fields and that there is no answer before the end.
  * `EverySourceInOrder`, which states `SourcesInOrder`. `Order` says, while sources
    are read, that what was got of each list is what is `Kept` of the part that is
    behind (`Follows`) and what is to be read is the rest (`Remaining`); the lists
    themselves do not change any more (`SameLists`).
  * `ImportsEnd`, which states `ImportsBounded`, for any files, also ones that bring in
    each other or themselves. `RoundOfImports` is the lemma: what a text imports
    after a round is what its imports import, in each syntax, tables, items and
    INI lines. `Depths` and `PrefRun` hence say after how many rounds the text is
    which level of the nesting.
  * `OneGistOnly` for any number of handlers: `OneGist` says for each step of the
    running handler that it has read what is on record and that the file speaks of
    the only gist. `HopsChecked` for any limit on redirects, and
    `GeneratorKeepsOrder` for any targets; their invariants (`Chain`, `RunOfCli`)
    relate what was sent or rendered to the counters. `Programs` puts the invariants
    side by side: one program runs and the others rest as they began.
* `SequenceLemmas`: what these proofs need of sequences. Flattening
  and filtering are folds, that is recursive functions of the place in the
  sequence, so that what they compute for every sequence is proved by induction on
  the place. The library's induction theorem takes an operator; `NatSet` is the same
  fact about a set of numbers (it follows from `WFMin`), and `AllPrefixes` is
  induction over the prefixes of a sequence.

The assumptions on the constants are what types would say (`SettingsAreTyped`,
`TextsAreTyped`, `WordsInOrder`, `CasesAreRequests`, `ProfilesAreArguments`,
`FilesCanBeRead`, `PrefsCanBeRead`) and positive limits, with these exceptions:
`RequestRulesPlain`, since `parse_emoji_rules` makes no scripts; `TablesAreFiles` with
what `ImportFiles` says of TOML, that a file which tables import consists of tables, as
`base/snippets/*.toml` do; `WordsAreKnown`, that whatever can become part of a name has
its place in the order of all words, as every string has in the order of bytes; and
`ReadingIs`, the equation of the reference reading. `NothingIsLost` has one hypothesis
that TLC cannot evaluate, `NumeralsDiffer`: different numbers are written differently.
The provers know nothing of `ToString`.

Only model-checked: the liveness properties (`ShutdownCompletes`, `CronFollowsSettings`,
`ControlAnswered`, `FetchEnds`), which with ENABLED and fairness are out of the
prover's reach; and the violated sentences of section 7.

## 7. Where the documents and the code differ

| Run | Document | Code |
| --- | --- | --- |
| `service_install_atomic` | `docs/SERVICES.md:111`: "atomically replaces the managed binary and official `base/`" | two renames; a restart between them leaves neither in place |
| `server_lifecycle_cron` | `docs/SERVICES.md:124`: "in-flight requests and cron/background tasks are drained" | a script on a blocking thread is not waited for |
| `settings_request` | `docs/MIGRATION.md:7`: "request parameters over external config" | a request's groups, appended as INI to TOML with tables, make the whole text fail to parse and be dropped |
| `clash_providers` | `README.md:45`: "managed Clash `rule-providers` backed by `/getruleset` when `expand=false`" | `merge_clash_base` does not take the providers over into a base that is a map, and a provider whose name is taken is renamed, while its rule names the first |

Met while modelling, without a run of their own:

* `docs/SERVICES.md:47`, "Only one fixed instance may be installed on a machine.": the
  other scope is looked at once, before anything is copied, so two installers that
  overlap both pass.
* `docs/SERVICES.md:110`, "stops and unregisters the old service": a service that is
  being started counts as stopped.
* `docs/MIGRATION.md:29`, "total timeout is 30 seconds": the timeout is per request of
  a redirect chain.
* `docs/COMPATIBILITY.md:26` gives the command line a cache of "Process lifetime": it
  has none, and fetches the subscription anew for each target.
* `make_unique_remarks` keeps the nodes' names apart from one another only: a node
  that is called DIRECT, REJECT or dns-out gets into a sing-box document beside the
  outbound of that name (`merge_singbox_base`), and one called DIRECT into a Surge or
  Surfboard document beside the program's own line.

## 8. What is not modelled

* How each field of a node is read from a link and written in a format
  (`parse_*_link`, `singbox_outbound`, `clash_proxy`, ... in `convert.rs`), `model.rs`,
  `util.rs`: translation of data, field by field, with no state and no order that
  matters; the repository tests it with golden files. Which nodes a format can
  express, and under which names, is in `Documents`.
* `convert_ruleset` (`rules.rs`) and the rendering of templates (`template.rs`): line by
  line substitutions.
* Response headers and the Subscription-UserInfo, which is derived from node names
  and decides nothing; arguments that set one option each
  (`convert_options_from_args`).
* The translation of a Cloudflare request into a core request.
* The QuickJS interpreter and its memory limit: of a script the models keep when it is
  called, with what time left, and that it may answer anything.
* Access rights and the service account of the installer, log rotation, the
  connection pool and proxies of the HTTP client.
* The contents of settings beyond the layer they come from, and values that a
  parser rejects.
* Regular expressions: a pattern is one word that a remark has or has not.

Conditions of properties, each needed: `ReferencesResolve` asks that the settings'
own groups and rulesets name groups they define (`Coherent`), that no node has a name
the program itself puts into the document (`NoOwnNames`) and that a text base has each
merged section at most once, and leaves out Surge before version 4, whose group
names nodes that get no line; `SectionsMerged` asks the same of the base;
`QuietUploadsShareOneGist` that nothing disturbed the uploads. The rules that a
sing-box base brings along are not looked at.
