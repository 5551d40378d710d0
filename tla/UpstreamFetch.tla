---------------------------- MODULE UpstreamFetch ----------------------------
(***************************************************************************)
(* Fetching from upstream on the native server                              *)
(* (crates/subconverter-server/src/main.rs: FsIo::fetch and client_for):    *)
(* the redirects are followed by hand, one request each; every request has  *)
(* its own DNS lookup, and goes through an HTTP client that is pinned to    *)
(* the addresses found and shared among all fetches with the same key.      *)
(*                                                                         *)
(* Addresses are looked up anew for each request, so a lookup may give any  *)
(* of Answers, whatever the last one gave.  Time counts in ticks; what the  *)
(* process itself can do at once it does before time passes.                *)
(***************************************************************************)
EXTENDS Integers

CONSTANTS
    Fetchers,      \* the handlers and cron tasks that fetch, one URL at a time
    Hosts,
    Urls,          \* a host, and a scheme: "other" is one that is always refused
    Addresses,
    Private,       \* those that is_non_public_ip reports
    Answers,       \* what a DNS lookup may find
    Policies,      \* the limits of a FetchRequest, from the settings in force
    LookupLimit    \* the longest a DNS lookup takes (the resolver's own limit)

ASSUME UrlsAssumption == Urls \subseteq [host : Hosts, scheme : {"https", "http", "other"}]
ASSUME AnswersAssumption == Answers \subseteq SUBSET Addresses
ASSUME PoliciesAssumption ==
    Policies \subseteq [redirects : Nat, bytes : Nat, connect : Nat, request : Nat,
                        private : BOOLEAN, http : BOOLEAN]
ASSUME LookupAssumption == LookupLimit \in Nat

VARIABLES
    clients,    \* FsIo::clients, each client with the key it is found by
    fetch       \* per fetcher, the fetch it makes or the result of the last one

vars == <<clients, fetch>>

-----------------------------------------------------------------------------
\* "failed" stands for every error but the one after the loop.
Results == {"none", "ok", "failed", "unprocessed"}

\* No fetch, and how the last one ended.
Ended(result) == [st |-> "idle", result |-> result]

NoClient == [key |-> <<>>, host |-> "", addrs |-> {}, connect |-> 0, request |-> 0]

\* Mutated forms of Key: without the time limits, and without the addresses.
KeyOfAddresses(h, found, policy) == <<h, found>>
KeyOfLimits(h, found, policy) == <<h, {}, policy.connect, policy.request>>

\* cache_key.
Key(h, found, policy) == <<h, found, policy.connect, policy.request>>

\* What Client::builder is given.
Client(h, found, policy) ==
    [key |-> Key(h, found, policy), host |-> h, addrs |-> found,
     connect |-> policy.connect, request |-> policy.request]

\* validate_fetch_url.
Valid(url, policy) == url.scheme = "https" \/ (url.scheme = "http" /\ policy.http)

\* Mutated form of Vetted: one public address is enough.
VettedOne(found, policy) == policy.private \/ found \ Private # {}

\* No address found is one that the policy forbids.
Vetted(found, policy) == policy.private \/ found \cap Private = {}

\* The top of the loop over the requests of a fetch.
Enter(url, hop, policy, spent) ==
    CASE hop > policy.redirects     -> Ended("unprocessed")
      [] ~Valid(url, policy)        -> Ended("failed")
      [] OTHER ->
           [st |-> "lookup", url |-> url, hop |-> hop, policy |-> policy, found |-> {},
            client |-> NoClient, at |-> {}, size |-> 0, used |-> 0, spent |-> spent]

Active(p) == fetch[p].st # "idle"
At(p, st) == fetch[p].st = st
Requesting(p) == fetch[p].st \in {"connect", "wait", "body"}

\* The fetch of p goes on as f.
Go(p, f) == fetch' = [fetch EXCEPT ![p] = f]

End(p, result) == Go(p, Ended(result)) /\ UNCHANGED clients

Init ==
    /\ clients = {}
    /\ fetch = [p \in Fetchers |-> Ended("none")]

-----------------------------------------------------------------------------
Begin(p, url, policy) ==
    /\ ~Active(p)
    /\ Go(p, Enter(url, 0, policy, 0))
    /\ UNCHANGED clients

\* client_for: the lookup fails, or finds nothing.
LookupFails(p) ==
    /\ At(p, "lookup")
    /\ End(p, "failed")

LookupBlocked(p, found) ==
    /\ At(p, "lookup")
    /\ ~Vetted(found, fetch[p].policy)
    /\ End(p, "failed")

\* The request's time limits run from here.
Request(f, found, client) ==
    [f EXCEPT !.st = "connect", !.found = found, !.client = client, !.used = 0]

ReusesClient(p, found) ==
    /\ At(p, "lookup")
    /\ found # {} /\ Vetted(found, fetch[p].policy)
    /\ \E c \in clients :
          /\ c.key = Key(fetch[p].url.host, found, fetch[p].policy)
          /\ Go(p, Request(fetch[p], found, c))
    /\ UNCHANGED clients

\* No client has the key: the read lock is given up before one is built.
MissesClient(p, found) ==
    /\ At(p, "lookup")
    /\ found # {} /\ Vetted(found, fetch[p].policy)
    /\ \A c \in clients : c.key # Key(fetch[p].url.host, found, fetch[p].policy)
    /\ Go(p, [fetch[p] EXCEPT !.st = "build", !.found = found])
    /\ UNCHANGED clients

\* The new client replaces one that another fetch has put there meanwhile.
BuildsClient(p) ==
    /\ At(p, "build")
    /\ LET f == fetch[p]
           new == Client(f.url.host, f.found, f.policy)
       IN  /\ clients' = {c \in clients : c.key # new.key} \cup {new}
           /\ Go(p, Request(f, f.found, new))

BuildFails(p) ==
    /\ At(p, "build")
    /\ End(p, "failed")

-----------------------------------------------------------------------------
\* The addresses a client connects to for a host: the ones it is pinned to, or
\* for another host what a lookup of its own finds.
Targets(client, h) == IF h = client.host THEN client.addrs ELSE UNION Answers

Connects(p, a) ==
    /\ At(p, "connect")
    /\ a \in Targets(fetch[p].client, fetch[p].url.host)
    /\ Go(p, [fetch[p] EXCEPT !.st = "wait", !.at = {a}])
    /\ UNCHANGED clients

\* The connection, the response or its body breaks off.
Fails(p) ==
    /\ Requesting(p)
    /\ End(p, "failed")

\* A time limit of the client has run out.
Due(f) ==
    \/ /\ f.st \in {"connect", "wait", "body"}
       /\ f.used >= f.client.request
    \/ /\ f.st = "connect"
       /\ f.used >= f.client.connect

\* Mutated form of TimesOut: the limits do not cover the body.
TimesOutInHead(p) ==
    /\ Due(fetch[p]) /\ ~At(p, "body")
    /\ End(p, "failed")

TimesOut(p) ==
    /\ Due(fetch[p])
    /\ End(p, "failed")

\* No more redirects are followed.
LastHop(f) == f.hop = f.policy.redirects

\* A redirect response, which is one too many or leads nowhere.
RedirectFails(p) ==
    /\ At(p, "wait")
    /\ End(p, "failed")

\* Mutated form of Redirects: the requests are not counted.
RedirectsUncounted(p, url) ==
    /\ At(p, "wait")
    /\ ~LastHop(fetch[p])
    /\ Go(p, Enter(url, fetch[p].hop, fetch[p].policy, fetch[p].spent))
    /\ UNCHANGED clients

\* A redirect response with a good Location.
Redirects(p, url) ==
    /\ At(p, "wait")
    /\ ~LastHop(fetch[p])
    /\ Go(p, Enter(url, fetch[p].hop + 1, fetch[p].policy, fetch[p].spent))
    /\ UNCHANGED clients

\* The head of any other response, whose Content-Length may be too much.
Responds(p) ==
    /\ At(p, "wait")
    /\ \/ Go(p, [fetch[p] EXCEPT !.st = "body"])
       \/ Go(p, Ended("failed"))
    /\ UNCHANGED clients

\* A chunk of the body, counted in pieces of one.
Chunk(p) ==
    /\ At(p, "body")
    /\ \/ /\ fetch[p].size + 1 > fetch[p].policy.bytes
          /\ Go(p, Ended("failed"))
       \/ /\ fetch[p].size + 1 <= fetch[p].policy.bytes
          /\ Go(p, [fetch[p] EXCEPT !.size = @ + 1])
    /\ UNCHANGED clients

\* The body is complete, and text or not.
Completes(p) ==
    /\ At(p, "body")
    /\ Go(p, Ended("ok")) \/ Go(p, Ended("failed"))
    /\ UNCHANGED clients

\* The future is dropped: its client has gone, or its cron task was aborted.
Dropped(p) ==
    /\ Active(p)
    /\ End(p, "none")

-----------------------------------------------------------------------------
\* Time does not pass over a limit, nor while the process itself is at work.
MayWait(f) ==
    /\ f.st # "build"
    /\ f.st = "lookup" => f.used < LookupLimit
    /\ ~Due(f)

Aged(f) == [f EXCEPT !.used = @ + 1, !.spent = @ + 1]

Tick ==
    /\ \E p \in Fetchers : Active(p)
    /\ \A p \in Fetchers : Active(p) => MayWait(fetch[p])
    /\ fetch' = [p \in Fetchers |-> IF Active(p) THEN Aged(fetch[p]) ELSE fetch[p]]
    /\ UNCHANGED clients

Resolve(p) ==
    \/ LookupFails(p)
    \/ \E found \in Answers :
          LookupBlocked(p, found) \/ ReusesClient(p, found) \/ MissesClient(p, found)

Build(p) == BuildsClient(p) \/ BuildFails(p)

Exchange(p) ==
    \/ \E a \in Addresses : Connects(p, a)
    \/ Fails(p) \/ RedirectFails(p) \/ Responds(p) \/ Chunk(p) \/ Completes(p)
    \/ \E url \in Urls : Redirects(p, url)

Next ==
    \/ Tick
    \/ \E p \in Fetchers :
          \/ \E url \in Urls, policy \in Policies : Begin(p, url, policy)
          \/ Resolve(p) \/ Build(p) \/ Exchange(p) \/ TimesOut(p) \/ Dropped(p)

\* Time passes however many fetches begin and end, the resolver gives up in the
\* end, and the runtime runs what is ready.  An upstream need not ever answer,
\* nor a client go away.
Fairness ==
    /\ SF_vars(Tick)
    /\ \A p \in Fetchers :
          WF_vars(Resolve(p)) /\ WF_vars(Build(p)) /\ WF_vars(TimesOut(p))

Spec == Init /\ [][Next]_vars /\ Fairness

-----------------------------------------------------------------------------
\* Type invariant.
ClientType ==
    [key : (Hosts \X (SUBSET Addresses) \X Nat \X Nat), host : Hosts,
     addrs : SUBSET Addresses, connect : Nat, request : Nat]

FetchType ==
    [st : {"lookup", "build", "connect", "wait", "body"}, url : Urls, hop : Nat,
     policy : Policies, found : SUBSET Addresses, client : ClientType \cup {NoClient},
     at : SUBSET Addresses, size : Nat, used : Nat, spent : Nat]

TypeOK ==
    /\ clients \subseteq ClientType
    /\ fetch \in [Fetchers -> FetchType \cup [st : {"idle"}, result : Results]]

\* A request goes to an address that the lookup made for it has found, under its
\* own fetch's time limits, though its client may have been built for another
\* fetch, of another URL and under other settings.
OwnClient ==
    \A p \in Fetchers : Requesting(p) =>
        LET f == fetch[p] IN
        /\ f.client.host = f.url.host
        /\ f.client.addrs = f.found
        /\ f.client.connect = f.policy.connect /\ f.client.request = f.policy.request
        /\ f.at \subseteq f.found

\* Wherever redirects and lookups lead, a fetch never talks to a host or takes
\* more of a body than the settings it was made under allow.
WithinPolicy ==
    \A p \in Fetchers : Active(p) =>
        LET f == fetch[p] IN
        /\ Valid(f.url, f.policy)
        /\ f.at \cap Private # {} => f.policy.private
        /\ f.size <= f.policy.bytes

\* The longest a fetch takes: its time limit for every request it may make, each
\* with a lookup before it.
FetchLimit(policy) == (policy.redirects + 1) * (LookupLimit + policy.request)

\* A fetch is over within that limit, which the cache's freshness rests on.
InTime == \A p \in Fetchers : Active(p) => fetch[p].spent <= FetchLimit(fetch[p].policy)

\* The loop has two bounds, its range and the check in its body.  They agree: the
\* error after the loop, "redirect processing failed", is never returned.
LoopAnswers == \A p \in Fetchers : ~Active(p) => fetch[p].result # "unprocessed"

\* Every fetch ends, also with an upstream that stalls or redirects for ever.
FetchEnds == \A p \in Fetchers : Active(p) ~> ~Active(p)
=============================================================================
