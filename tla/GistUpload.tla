----------------------------- MODULE GistUpload -----------------------------
(***************************************************************************)
(* Uploads of the native server (upload_gist in subconverter-server/src/   *)
(* main.rs).  gistconf.ini says which gist is the server's; without one    *)
(* the first upload creates it.  The file is read before GitHub is asked   *)
(* and written after, and handlers run side by side.                       *)
(***************************************************************************)
EXTENDS Naturals, FiniteSets

CONSTANTS
  Uploads,   \* handlers with something to upload
  Names,     \* what a result may be called
  MaxGists   \* bound on the gists GitHub is asked to create

ASSUME MaxGistsNat == MaxGists \in Nat

VARIABLES
  gconf,     \* gistconf.ini
  gists,     \* at GitHub: gist -> the upload each name holds
  up,        \* the handlers
  disturbed  \* a step happened that may lose what the file records

gistVars == <<gconf, gists, up, disturbed>>

NoGist == 0
GistIds == 1..MaxGists

\* The section [common] with the token and the gist, and a section per name.
GistConf == [token : BOOLEAN, gist : {NoGist} \cup GistIds, sections : SUBSET Names]
EmptyConf == [token |-> FALSE, gist |-> NoGist, sections |-> {}]

NoUpload == [step |-> "idle", name |-> "common", read |-> EmptyConf, gist |-> NoGist]

GistInit ==
    /\ gconf = [EmptyConf EXCEPT !.token = TRUE]
    /\ gists = [g \in GistIds |-> <<>>]
    /\ up = [u \in Uploads |-> NoUpload]
    /\ disturbed = FALSE

Created == {g \in GistIds : gists[g] # <<>>}

Step(u, step) == [up EXCEPT ![u].step = step]
Running == {u \in Uploads : up[u].step \in {"send", "record", "write"}}

-----------------------------------------------------------------------------

\* An empty file has no [common], and a [common] without a token will not do.
GistRead(u, name) ==
    /\ up[u].step = "idle"
    /\ up' = [up EXCEPT ![u] = [step |-> IF gconf.token THEN "send" ELSE "failed",
                                name |-> name, read |-> gconf, gist |-> gconf.gist]]
    /\ disturbed' = (disturbed \/ Running # {} \/ name = "common")
    /\ UNCHANGED <<gconf, gists>>

\* A file is put into a gist beside those that are there.
Holding(gist, name, u) ==
    LET files == gists[gist]
    IN  [gists EXCEPT ![gist] = [n \in DOMAIN files \cup {name} |-> IF n = name THEN u ELSE files[n]]]

GistCreate(u) ==
    /\ up[u].step = "send" /\ up[u].gist = NoGist
    /\ \E g \in GistIds \ Created :
         /\ gists' = Holding(g, up[u].name, u)
         /\ up' = [up EXCEPT ![u].step = "record", ![u].gist = g]
    /\ UNCHANGED <<gconf, disturbed>>

GistUpdate(u) ==
    /\ up[u].step = "send" /\ up[u].gist # NoGist
    /\ gists' = Holding(up[u].gist, up[u].name, u)
    /\ up' = Step(u, "record")
    /\ UNCHANGED <<gconf, disturbed>>

\* GitHub refuses, or cannot be reached.
GistRefused(u) ==
    /\ up[u].step = "send"
    /\ up' = Step(u, "failed")
    /\ UNCHANGED <<gconf, gists, disturbed>>

\* The answer is lost, or is no JSON, after GitHub has done what it was asked.
GistAnswerLost(u) ==
    /\ up[u].step = "record"
    /\ up' = Step(u, "failed")
    /\ disturbed' = TRUE
    /\ UNCHANGED <<gconf, gists>>

\* The gist is not written down.
RecordedSection(conf, name, gist) == [conf EXCEPT !.sections = @ \cup {name}]

\* The file as it was read, with the gist and a fresh section for the name; a
\* section called "common" is cleared as any other.
Recorded(conf, name, gist) ==
    IF name = "common" THEN [conf EXCEPT !.token = FALSE, !.gist = NoGist, !.sections = @ \cup {name}]
    ELSE [conf EXCEPT !.gist = gist, !.sections = @ \cup {name}]

\* Writing empties the file first; either step may be the last one.
GistTruncate(u) ==
    /\ up[u].step = "record"
    /\ gconf' = EmptyConf
    /\ up' = Step(u, "write")
    /\ UNCHANGED <<gists, disturbed>>

GistWrite(u) ==
    /\ up[u].step = "write"
    /\ gconf' = Recorded(up[u].read, up[u].name, up[u].gist)
    /\ up' = Step(u, "done")
    /\ UNCHANGED <<gists, disturbed>>

GistWriteFails(u) ==
    /\ up[u].step \in {"record", "write"}
    /\ up' = Step(u, "failed")
    /\ disturbed' = TRUE
    /\ UNCHANGED <<gconf, gists>>

GistNext ==
    \E u \in Uploads :
        \/ \E name \in Names : GistRead(u, name)
        \/ GistCreate(u) \/ GistUpdate(u) \/ GistRefused(u) \/ GistAnswerLost(u)
        \/ GistTruncate(u) \/ GistWrite(u) \/ GistWriteFails(u)

GistSpec == GistInit /\ [][GistNext]_gistVars

-----------------------------------------------------------------------------

GistTypeOK ==
    /\ gconf \in GistConf
    /\ \A g \in GistIds : \A n \in DOMAIN gists[g] : n \in Names /\ gists[g][n] \in Uploads
    /\ \A u \in Uploads : up[u].read \in GistConf /\ (up[u].step # "idle" => up[u].name \in Names)
    /\ disturbed \in BOOLEAN

\* Uploads that follow one another, each recorded, share one gist: it is the one
\* on record, and it holds and lists all that was uploaded (upload_gist).
QuietUploadsShareOneGist ==
    ~disturbed =>
        /\ Cardinality(Created) <= 1
        /\ \A u \in Uploads : up[u].step = "done" =>
             /\ up[u].name \in DOMAIN gists[up[u].gist]
             /\ Running = {} => gconf.gist = up[u].gist /\ up[u].name \in gconf.sections
=============================================================================
