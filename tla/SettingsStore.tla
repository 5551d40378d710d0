---------------------------- MODULE SettingsStore ----------------------------
(***************************************************************************)
(* The settings of the server: one copy in memory behind an RwLock, one on  *)
(* disk in the pref files, and the two management requests that move data   *)
(* between them (`call_core` and `load_pref` in                             *)
(* crates/subconverter-server/src/main.rs, `/readconf` and `/updateconf` in *)
(* crates/subconverter-core/src/routes.rs).                                 *)
(*                                                                         *)
(* A request works on a clone of the settings and the clone is written back *)
(* as a whole when it succeeds; between the two it awaits imports, and any  *)
(* other request, an administrator's edit or a crash can come in between.   *)
(* Writing a file truncates it first.                                       *)
(***************************************************************************)
EXTENDS Integers, FiniteSets

CONSTANTS
    Handlers,    \* management requests in flight
    NumFiles,    \* how many names a pref file may have (4 in the program)
    Contents,    \* what a pref file may hold
    EnvToken,    \* whether API_TOKEN is set in the environment
    MaxEdits,    \* bound on the administrator's edits
    MaxCrashes   \* bound on the crashes

(***************************************************************************)
(* A content is told by how it loads:                                       *)
(*   plain      no import, or one level of imports of local files           *)
(*   nested     imports that import: a request expands them all, the loader *)
(*              of the server's start only the first level                  *)
(*   remote     imports a URL: a request fetches it, the loader takes it    *)
(*              for a file name and fails                                   *)
(*   badImport  imports something that does not exist                       *)
(*   badSyntax  expands, but does not parse                                 *)
(***************************************************************************)
Kinds == {"plain", "nested", "remote", "badImport", "badSyntax"}
Content == [id : Nat, kind : Kinds, token : BOOLEAN, reload : BOOLEAN]

\* A truncated file parses, to the default settings; so does no file at all.
Empty   == [id |-> 0, kind |-> "plain", token |-> FALSE, reload |-> FALSE]
Default == Empty
Absent  == [id |-> 0, kind |-> "absent", token |-> FALSE, reload |-> FALSE]

Files == 1..NumFiles   \* in the order of the list in load_pref

ASSUME FilesAssumption == NumFiles \in 1..4
ASSUME ContentsAssumption == Contents \subseteq Content
ASSUME EnvAssumption == EnvToken \in BOOLEAN
ASSUME BoundsAssumption == MaxEdits \in Nat /\ MaxCrashes \in Nat

VARIABLES
    disk,       \* [Files -> contents]
    up,         \* whether the process runs
    settings,   \* the shared settings
    req,        \* the management requests
    settled,    \* memory was last set from, or to, what the disk held
    acked,      \* the update that was acknowledged last, while undisturbed
    edits, crashes

vars == <<disk, up, settings, req, settled, acked, edits, crashes>>

-----------------------------------------------------------------------------
Stored == Contents \cup {Empty, Absent}

\* Settings are told by the content they were parsed from, by whether all its
\* imports are in, and by whether the environment was applied on top.
Settings == [src : Contents \cup {Empty}, whole : BOOLEAN, env : BOOLEAN]
Parsed(c, whole, env) == [src |-> c, whole |-> whole, env |-> env]

\* read_pref_file and detect_and_parse both succeed.
Loads(c) == c.kind \in {"plain", "nested"}

\* Mutated form of LoadPref: without the default, what the first file holds.
LoadPrefNoDefault(d) ==
    IF \E i \in Files : Loads(d[i])
    THEN d[CHOOSE i \in Files : Loads(d[i]) /\ \A j \in 1..(i - 1) : ~Loads(d[j])]
    ELSE d[1]

\* load_pref: the first file that reads, expands and parses; else the default.
LoadPref(d) ==
    IF \E i \in Files : Loads(d[i])
    THEN d[CHOOSE i \in Files : Loads(d[i]) /\ \A j \in 1..(i - 1) : ~Loads(d[j])]
    ELSE Default

LoadedSettings == Parsed(LoadPref(disk), LoadPref(disk).kind = "plain", TRUE)

\* Mutated form of FirstReadable: the last readable file.
LastReadable(d) ==
    IF \E i \in Files : d[i] # Absent
    THEN CHOOSE i \in Files : d[i] # Absent /\ \A j \in (i + 1)..NumFiles : d[j] = Absent
    ELSE 1

\* The first file that can be read, else pref.toml (find_pref_path).
FirstReadable(d) ==
    IF \E i \in Files : d[i] # Absent
    THEN CHOOSE i \in Files : d[i] # Absent /\ \A j \in 1..(i - 1) : d[j] = Absent
    ELSE 1

\* has_valid_token for a client that knows the token: the token must not be
\* empty.  API_TOKEN replaces the file's token where the environment applies.
HasToken(s) == s.src.token \/ (s.env /\ EnvToken)

Phases == {"expanding", "expanded", "writing", "parsed"}
Idle == [phase |-> "idle"]
\* A request's content is the pref file it read (/readconf) or its body
\* (/updateconf); `alone` says that nothing else happened since it began.
Request == [phase : Phases, kind : {"readconf", "updateconf"},
            content : Contents \cup {Empty}, path : Files, alone : BOOLEAN]

InFlight(r) == req[r] # Idle
Others(r) == {q \in Handlers \ {r} : InFlight(q)}

\* The other requests in flight are no longer alone.
Disturb(f) == [q \in Handlers |-> IF f[q] # Idle THEN [f[q] EXCEPT !.alone = FALSE]
                                  ELSE Idle]
Begin(r, kind, c) ==
    req' = [(IF Others(r) = {} THEN req ELSE Disturb(req)) EXCEPT ![r] =
              [phase |-> "expanding", kind |-> kind, content |-> c,
               path |-> FirstReadable(disk), alone |-> Others(r) = {}]]

\* Handler r answers with an error; its clone of the settings is dropped.
Fail(r) == req' = [req EXCEPT ![r] = Idle]

-----------------------------------------------------------------------------
Init ==
    /\ disk \in [Files -> Contents \cup {Absent}]
    /\ up = TRUE
    /\ settings = LoadedSettings
    /\ req = [r \in Handlers |-> Idle]
    /\ settled = TRUE
    /\ acked = Absent
    /\ edits = 0
    /\ crashes = 0

\* The settings a request gets: the shared ones, or the disk's if they say so.
RequestSettings ==
    IF settings.src.reload THEN LoadedSettings ELSE settings

\* /readconf passes the token check and reads the first readable pref file.
BeginReadconf(r) ==
    /\ up /\ req[r] = Idle
    /\ HasToken(RequestSettings)
    /\ disk[FirstReadable(disk)] # Absent
    /\ Begin(r, "readconf", disk[FirstReadable(disk)])
    /\ UNCHANGED <<disk, up, settings, settled, acked, edits, crashes>>

\* /updateconf passes the token check and looks for the file to write.
BeginUpdateconf(r, c) ==
    /\ up /\ req[r] = Idle
    /\ HasToken(RequestSettings)
    /\ Begin(r, "updateconf", c)
    /\ UNCHANGED <<disk, up, settings, settled, acked, edits, crashes>>

\* expand_config_imports returns.  /readconf goes on to parse at once.
Expand(r) ==
    /\ InFlight(r) /\ req[r].phase = "expanding"
    /\ req[r].content.kind # "badImport"
    /\ IF req[r].kind = "updateconf"
       THEN req' = [req EXCEPT ![r].phase = "expanded"]
       ELSE IF req[r].content.kind # "badSyntax"
            THEN req' = [req EXCEPT ![r].phase = "parsed"]
            ELSE Fail(r)
    /\ UNCHANGED <<disk, up, settings, settled, acked, edits, crashes>>

\* An import cannot be resolved.
ExpandFails(r) ==
    /\ InFlight(r) /\ req[r].phase = "expanding"
    /\ req[r].content.kind \in {"badImport", "remote"}
    /\ Fail(r)
    /\ UNCHANGED <<disk, up, settings, settled, acked, edits, crashes>>

\* fs::write opens the file, which truncates it...
Truncate(r) ==
    /\ InFlight(r) /\ req[r].phase = "expanded"
    /\ disk' = [disk EXCEPT ![req[r].path] = Empty]
    /\ req' = [req EXCEPT ![r].phase = "writing"]
    /\ settled' = FALSE
    /\ acked' = Absent
    /\ UNCHANGED <<up, settings, edits, crashes>>

\* ... and writes the body as it was sent.  Only then is it parsed.
Fill(r) ==
    /\ InFlight(r) /\ req[r].phase = "writing"
    /\ disk' = [disk EXCEPT ![req[r].path] = req[r].content]
    /\ IF req[r].content.kind # "badSyntax"
       THEN req' = [req EXCEPT ![r].phase = "parsed"]
       ELSE Fail(r)
    /\ UNCHANGED <<up, settings, settled, acked, edits, crashes>>

\* Mutated form of WriteFails: an error while writing is ignored.
WriteErrorIgnored(r) ==
    /\ InFlight(r) /\ req[r].phase \in {"expanded", "writing"}
    /\ req' = [req EXCEPT ![r].phase = "parsed"]
    /\ UNCHANGED <<disk, up, settings, settled, acked, edits, crashes>>

\* The file cannot be opened, or cannot be written once truncated.
WriteFails(r) ==
    /\ InFlight(r) /\ req[r].phase \in {"expanded", "writing"}
    /\ Fail(r)
    /\ UNCHANGED <<disk, up, settings, settled, acked, edits, crashes>>

\* The client goes away and its handler is dropped where it awaits: at an
\* import, or at the lock of the shared settings, when the file is written.
Disconnect(r) ==
    /\ InFlight(r) /\ req[r].phase \in {"expanding", "parsed"}
    /\ Fail(r)
    /\ UNCHANGED <<disk, up, settings, settled, acked, edits, crashes>>

\* The request succeeds and its settings replace the shared ones.  They were
\* expanded to the last level, and the environment was not applied to them.
Commit(r) ==
    /\ InFlight(r) /\ req[r].phase = "parsed"
    /\ settings' = Parsed(req[r].content, TRUE, FALSE)
    /\ req' = [req EXCEPT ![r] = Idle]
    /\ LET sound == req[r].alone /\ req[r].content.kind = "plain"
       IN  /\ settled' = sound
           /\ acked' = IF sound /\ req[r].kind = "updateconf" THEN req[r].content
                       ELSE acked
    /\ UNCHANGED <<disk, up, edits, crashes>>

\* The administrator replaces or removes a pref file.
AdminEdit(i, c) ==
    /\ edits < MaxEdits
    /\ edits' = edits + 1
    /\ disk' = [disk EXCEPT ![i] = c]
    /\ req' = Disturb(req)
    /\ settled' = FALSE
    /\ acked' = Absent
    /\ UNCHANGED <<up, settings, crashes>>

\* The process dies, whatever it was doing.
Crash ==
    /\ up /\ crashes < MaxCrashes
    /\ crashes' = crashes + 1
    /\ up' = FALSE
    /\ req' = [r \in Handlers |-> Idle]
    /\ UNCHANGED <<disk, settings, settled, acked, edits>>

\* It starts: load_pref, and the environment on top.
Start ==
    /\ ~up
    /\ up' = TRUE
    /\ settings' = LoadedSettings
    /\ settled' = TRUE
    /\ UNCHANGED <<disk, req, acked, edits, crashes>>

Next ==
    \/ \E r \in Handlers :
         \/ BeginReadconf(r)
         \/ \E c \in Contents : BeginUpdateconf(r, c)
         \/ Expand(r) \/ ExpandFails(r)
         \/ Truncate(r) \/ Fill(r) \/ WriteFails(r)
         \/ Disconnect(r) \/ Commit(r)
    \/ \E i \in Files, c \in Contents \cup {Absent} : AdminEdit(i, c)
    \/ Crash
    \/ Start

Spec == Init /\ [][Next]_vars

-----------------------------------------------------------------------------
\* Type invariant.
TypeOK ==
    /\ disk \in [Files -> Stored]
    /\ up \in BOOLEAN
    /\ settings \in Settings
    /\ req \in [Handlers -> {Idle} \cup Request]
    /\ settled \in BOOLEAN
    /\ acked \in Stored
    /\ edits \in Nat
    /\ crashes \in Nat

\* The server in memory and the files on disk disagree only for a reason: an
\* edit by hand, an update that failed after it began to write, two management
\* requests at once, or a content the loader reads differently.  After a
\* /readconf or /updateconf that ran alone, memory is what a restart would load.
Agreement ==
    up /\ settled => settings.src = LoadPref(disk)

\* An /updateconf that ran alone and was answered "done" is what every restart
\* loads, until the next write or edit: crashes do not undo it, and no other
\* pref file hides it.
DurableUpdate ==
    acked # Absent => LoadPref(disk) = acked
=============================================================================
