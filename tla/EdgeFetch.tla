----------------------------- MODULE EdgeFetch -----------------------------
(***************************************************************************)
(* How the Cloudflare Worker and the command line fetch a URL              *)
(* (WorkerIo::fetch in subconverter-worker/src/lib.rs, CliIo::fetch in     *)
(* subconverter-cli/src/main.rs), and the Worker's cache around it.  Both  *)
(* follow redirects themselves to check each address before they use it;   *)
(* what they are able to check differs.                                    *)
(***************************************************************************)
EXTENDS Naturals, Sequences

CONSTANT MaxHops    \* redirects that are followed; 5 in the code

ASSUME MaxHopsNat == MaxHops \in Nat

VARIABLES
  edge,      \* the adapter, and what its settings allow
  step,
  at,        \* the URL at hand
  hops,      \* redirects followed
  sent,      \* URLs a request was sent to, in order
  kv,        \* is the URL in the Worker's cache
  result     \* how the fetch ended

edgeVars == <<edge, step, at, hops, sent, kv, result>>

\* A host is public, a private address written out, or a name for one.
Url == [scheme : {"https", "http", "ftp"}, login : BOOLEAN, host : {"public", "literal", "name"}]
Edge == [adapter : {"worker", "cli"}, plainHttp : BOOLEAN, privateNetwork : BOOLEAN]

EdgeInit ==
    /\ edge \in Edge
    /\ at \in Url
    /\ step = "cache" /\ hops = 0 /\ sent = <<>> /\ result = "none"
    /\ kv \in IF edge.adapter = "worker" THEN BOOLEAN ELSE {FALSE}

-----------------------------------------------------------------------------

SchemeAllowed(url) == url.scheme = "https" \/ (url.scheme = "http" /\ edge.plainHttp)

\* The Worker cannot resolve names, and looks at the host as it is written.
WorkerAllows(url) == SchemeAllowed(url) /\ (edge.privateNetwork \/ url.host # "literal")

\* The command line takes no user in a URL, and looks at what a name stands for.
CliAllows(url) == SchemeAllowed(url) /\ ~url.login /\ (edge.privateNetwork \/ url.host = "public")

\* A check that is made of the first URL only.
AllowsFirst(url) == hops > 0 \/ IF edge.adapter = "worker" THEN WorkerAllows(url) ELSE CliAllows(url)

Allows(url) == IF edge.adapter = "worker" THEN WorkerAllows(url) ELSE CliAllows(url)

End(outcome) == step' = "done" /\ result' = outcome /\ UNCHANGED <<edge, at, hops, sent>>

KvHit == step = "cache" /\ kv /\ End("content") /\ UNCHANGED kv
KvUnreadable == step = "cache" /\ edge.adapter = "worker" /\ End("failed") /\ UNCHANGED kv
KvMiss ==
    /\ step = "cache" /\ ~kv
    /\ step' = "check"
    /\ UNCHANGED <<edge, at, hops, sent, kv, result>>

CheckUrl ==
    /\ step = "check"
    /\ IF Allows(at)
         THEN /\ step' = "send"
              /\ UNCHANGED <<edge, at, hops, sent, kv, result>>
         ELSE End("forbidden") /\ UNCHANGED kv

\* No name found, no connection, or no answer in time.
SendFails == step = "send" /\ End("failed") /\ UNCHANGED kv

\* One redirect too many, or one that leads nowhere, ends the fetch.
Redirected ==
    /\ step = "send"
    /\ sent' = Append(sent, at)
    /\ \/ step' = "done" /\ result' = "failed" /\ UNCHANGED <<at, hops>>
       \/ /\ hops < MaxHops
          /\ hops' = hops + 1 /\ at' \in Url
          /\ step' = "check" /\ UNCHANGED result
    /\ UNCHANGED <<edge, kv>>

\* The length may be announced, and is counted in any case: the Worker counts
\* when it has all, the command line as it reads.
Received ==
    /\ step = "send"
    /\ sent' = Append(sent, at)
    /\ \E outcome \in {"content", "too large", "failed"} :
         IF outcome = "content" /\ edge.adapter = "worker"
           THEN step' = "store" /\ UNCHANGED result
           ELSE step' = "done" /\ result' = outcome
    /\ UNCHANGED <<edge, at, hops, kv>>

\* When what was fetched cannot be stored it is not delivered either.
KvStore ==
    /\ step = "store"
    /\ \/ kv' = TRUE /\ End("content")
       \/ kv' = kv /\ End("failed")

EdgeNext ==
    \/ KvHit \/ KvUnreadable \/ KvMiss \/ CheckUrl \/ SendFails
    \/ Redirected \/ Received \/ KvStore

EdgeSpec == EdgeInit /\ [][EdgeNext]_edgeVars

-----------------------------------------------------------------------------

EdgeTypeOK ==
    /\ edge \in Edge /\ at \in Url
    /\ step \in {"cache", "check", "send", "store", "done"}
    /\ hops \in 0..MaxHops /\ kv \in BOOLEAN
    /\ result \in {"none", "content", "failed", "forbidden", "too large"}

\* However a chain of redirects runs, no request goes to a URL the settings rule
\* out as far as the adapter can tell, no more than MaxHops redirects are
\* followed, and what is delivered comes from the chain's last URL or the cache
\* (WorkerIo::fetch, CliIo::fetch).
RuledOut(url) ==
    \/ url.scheme = "ftp"
    \/ url.scheme = "http" /\ ~edge.plainHttp
    \/ url.host = "literal" /\ ~edge.privateNetwork
    \/ edge.adapter = "cli" /\ url.login
    \/ edge.adapter = "cli" /\ url.host = "name" /\ ~edge.privateNetwork

EveryHopChecked ==
    /\ \A i \in DOMAIN sent : ~RuledOut(sent[i])
    /\ Len(sent) <= MaxHops + 1
    /\ result = "content" => IF sent = <<>> THEN kv ELSE sent[Len(sent)] = at
=============================================================================
