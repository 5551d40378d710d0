----------------------------- MODULE FetchCache -----------------------------
(***************************************************************************)
(* The read-through cache every remote read of the server goes through:    *)
(* `fetch_remote` (crates/subconverter-core/src/routes.rs) over the        *)
(* process-wide cache of `FsIo` (crates/subconverter-server/src/main.rs).  *)
(* Request handlers run concurrently.  Each holds a clone of the settings  *)
(* taken when it was accepted and makes any number of fetches with it.     *)
(* Nothing ties the lookup of a fetch to the insertion that follows it: in *)
(* between, other handlers store, `/flushcache` clears the map, and the    *)
(* upstream publishes.                                                     *)
(*                                                                         *)
(* Contents are abstracted to the upstream's version number.  Time is      *)
(* discrete; a fetch, with the few statements up to its cache_put, takes   *)
(* at most FetchLimit units (the client's timeouts, see UpstreamFetch).    *)
(***************************************************************************)
EXTENDS Integers, Sequences

CONSTANTS
    Requests,      \* request handlers
    Urls,          \* upstream URLs
    Namespaces,    \* cache namespaces in use
    Configs,       \* settings a handler may hold
    MaxTtl,        \* [Namespaces -> Nat], the largest lifetimes configured
    FetchLimit,    \* longest time one fetch may take
    MaxTime,       \* bound on the clock
    MaxVersion     \* bound on the versions one upstream publishes

Keys == Namespaces \X Urls

\* The settings fetch_remote reads.
Config == [subscription : Nat, config : Nat, ruleset : Nat,
           stale : BOOLEAN, allowed : SUBSET Urls]

\* The lifetime a namespace's entries get: 0 means "do not store".
Ttl(c, ns) ==
    CASE ns = "ruleset" -> c.ruleset
      [] ns = "config"  -> c.config
      [] OTHER          -> c.subscription

ASSUME NamespacesAssumption ==
    Namespaces \subseteq {"subscription", "config", "ruleset"}

ASSUME BoundsAssumption ==
    /\ FetchLimit \in Nat \ {0}
    /\ MaxTime \in Nat
    /\ MaxVersion \in Nat
    /\ MaxTtl \in [Namespaces -> Nat]

ASSUME ConfigsAssumption ==
    /\ Configs \subseteq Config
    /\ \A c \in Configs, ns \in Namespaces : Ttl(c, ns) <= MaxTtl[ns]

VARIABLES
    cache,      \* the map of FsIo: per key an entry or NoEntry
    req,        \* what each handler is doing
    reply,      \* what the handler's latest fetch_remote returned to it
    published,  \* per URL, the times at which its versions 1, 2, ... appeared
    now,        \* the clock
    lastFlush   \* time of the latest flush (0 if none)

vars == <<cache, req, reply, published, now, lastFlush>>

-----------------------------------------------------------------------------
NoEntry == [present |-> FALSE]
Entry(v, e) == [present |-> TRUE, version |-> v, expires |-> e]
Entries == [present : {TRUE}, version : Nat \ {0}, expires : Nat]

Idle == [phase |-> "idle"]
Running(c) == [phase |-> "running", cfg |-> c]
Fetching(c, k, v) ==
    [phase |-> "fetching", cfg |-> c, key |-> k, start |-> now, seen |-> v]
Answered(q, v) ==
    [phase |-> "answered", cfg |-> q.cfg, key |-> q.key, start |-> q.start,
     seen |-> q.seen, got |-> v]

RunningReqs  == [phase : {"running"}, cfg : Configs]
FetchingReqs == [phase : {"fetching"}, cfg : Configs, key : Keys,
                 start : Nat, seen : Nat]
AnsweredReqs == [phase : {"answered"}, cfg : Configs, key : Keys,
                 start : Nat, seen : Nat, got : Nat \ {0}]

NoReply == [outcome |-> "none"]
Refused == [outcome |-> "error"]
\* `at` is when the content was handed out, `flush` the latest flush by then,
\* `lenient` whether the handler's settings accept stale copies.
Content(c, k, v) ==
    [outcome |-> "content", key |-> k, version |-> v, at |-> now,
     flush |-> lastFlush, lenient |-> c.stale]
Contents == [outcome : {"content"}, key : Keys, version : Nat \ {0}, at : Nat,
             flush : Nat, lenient : BOOLEAN]

InFlight(r) == req[r].phase \in {"fetching", "answered"}

\* Entry of key k, expired or not.
CacheGetStale(k) == cache[k]

\* Entry of key k, if it has not expired.
CacheGet(k) ==
    IF cache[k].present /\ cache[k].expires > now THEN cache[k] ELSE NoEntry

\* Mutated form of ExpiresAt: the operands are subtracted.
ExpiresAtReversed(ttl) == ttl - now

\* When an entry stored now expires.
ExpiresAt(ttl) == now + ttl

-----------------------------------------------------------------------------
Init ==
    /\ cache = [k \in Keys |-> NoEntry]
    /\ req = [r \in Requests |-> Idle]
    /\ reply = [r \in Requests |-> NoReply]
    /\ published = [u \in Urls |-> <<0>>]
    /\ now = 0
    /\ lastFlush = 0

\* A request arrives and clones the settings in force.
Accept(r) ==
    /\ req[r].phase = "idle"
    /\ \E c \in Configs : req' = [req EXCEPT ![r] = Running(c)]
    /\ UNCHANGED <<cache, reply, published, now, lastFlush>>

\* validate_remote_url rejects the URL: the cache is not even consulted.
FetchForbidden(r, k) ==
    /\ req[r].phase = "running"
    /\ k[2] \notin req[r].cfg.allowed
    /\ reply' = [reply EXCEPT ![r] = Refused]
    /\ UNCHANGED <<cache, req, published, now, lastFlush>>

\* Mutated form of FetchHit: the cache is consulted before the URL is checked.
FetchHitUnchecked(r, k) ==
    /\ req[r].phase = "running"
    /\ CacheGet(k).present
    /\ reply' = [reply EXCEPT ![r] = Content(req[r].cfg, k, CacheGet(k).version)]
    /\ UNCHANGED <<cache, req, published, now, lastFlush>>

\* cache_get finds a live entry.
FetchHit(r, k) ==
    /\ req[r].phase = "running"
    /\ k[2] \in req[r].cfg.allowed
    /\ CacheGet(k).present
    /\ reply' = [reply EXCEPT ![r] = Content(req[r].cfg, k, CacheGet(k).version)]
    /\ UNCHANGED <<cache, req, published, now, lastFlush>>

\* cache_get finds nothing: the upstream request is sent.
FetchMiss(r, k) ==
    /\ req[r].phase = "running"
    /\ k[2] \in req[r].cfg.allowed
    /\ ~CacheGet(k).present
    /\ req' = [req EXCEPT ![r] =
                 Fetching(req[r].cfg, k,
                          IF cache[k].present THEN cache[k].version ELSE 0)]
    /\ reply' = [reply EXCEPT ![r] = NoReply]
    /\ UNCHANGED <<cache, published, now, lastFlush>>

\* The upstream answers with its newest version; the answer travels back.
UpstreamAnswers(r) ==
    /\ req[r].phase = "fetching"
    /\ req' = [req EXCEPT ![r] = Answered(req[r], Len(published[req[r].key[2]]))]
    /\ UNCHANGED <<cache, reply, published, now, lastFlush>>

\* Mutated form of FetchFails: the stale copy is stored again with a new lifetime.
FetchFailsRestoring(r) ==
    /\ InFlight(r)
    /\ LET q == req[r]
           stale == CacheGetStale(q.key)
           ttl == Ttl(q.cfg, q.key[1])
           serve == q.cfg.stale /\ stale.present
       IN  /\ reply' = [reply EXCEPT ![r] =
                           IF serve THEN Content(q.cfg, q.key, stale.version)
                           ELSE Refused]
           /\ cache' = IF serve /\ ttl > 0
                       THEN [cache EXCEPT ![q.key] = Entry(stale.version, now + ttl)]
                       ELSE cache
    /\ req' = [req EXCEPT ![r] = Running(req[r].cfg)]
    /\ UNCHANGED <<published, now, lastFlush>>

\* Transport error, timeout, non-2xx status, oversized body, or a final URL
\* that fails validation: the error is returned, unless the settings ask for
\* the stale copy and there is one.  Nothing is stored.
FetchFails(r) ==
    /\ InFlight(r)
    /\ LET q == req[r]
           stale == CacheGetStale(q.key)
       IN  reply' = [reply EXCEPT ![r] =
                       IF q.cfg.stale /\ stale.present
                       THEN Content(q.cfg, q.key, stale.version)
                       ELSE Refused]
    /\ req' = [req EXCEPT ![r] = Running(req[r].cfg)]
    /\ UNCHANGED <<cache, published, now, lastFlush>>

\* The answer is stored under the handler's own lifetime (unless it is zero),
\* over whatever the map holds by now, and returned.
FetchSucceeds(r) ==
    /\ req[r].phase = "answered"
    /\ LET q == req[r]
           ttl == Ttl(q.cfg, q.key[1])
       IN  /\ cache' = IF ttl > 0
                       THEN [cache EXCEPT ![q.key] = Entry(q.got, ExpiresAt(ttl))]
                       ELSE cache
           /\ reply' = [reply EXCEPT ![r] = Content(q.cfg, q.key, q.got)]
           /\ req' = [req EXCEPT ![r] = Running(q.cfg)]
    /\ UNCHANGED <<published, now, lastFlush>>

\* The handler answers its client, or is dropped wherever it is because the
\* client went away: nothing of a fetch in flight is kept.
Finish(r) ==
    /\ req[r].phase # "idle"
    /\ req' = [req EXCEPT ![r] = Idle]
    /\ reply' = [reply EXCEPT ![r] = NoReply]
    /\ UNCHANGED <<cache, published, now, lastFlush>>

\* Mutated form of FlushCache: only the subscriptions are cleared.
FlushSubscriptions ==
    /\ cache' = [k \in Keys |-> IF k[1] = "subscription" THEN NoEntry ELSE cache[k]]
    /\ lastFlush' = now
    /\ UNCHANGED <<req, reply, published, now>>

\* /flushcache or /refreshrules: the whole map is cleared.
FlushCache ==
    /\ cache' = [k \in Keys |-> NoEntry]
    /\ lastFlush' = now
    /\ UNCHANGED <<req, reply, published, now>>

\* The upstream replaces what it serves under u.
Publish(u) ==
    /\ Len(published[u]) < MaxVersion
    /\ published' = [published EXCEPT ![u] = Append(@, now)]
    /\ UNCHANGED <<cache, req, reply, now, lastFlush>>

\* Time passes, but not beyond the deadline of a fetch in flight.
Tick ==
    /\ now < MaxTime
    /\ \A r \in Requests : InFlight(r) => now < req[r].start + FetchLimit
    /\ now' = now + 1
    /\ UNCHANGED <<cache, req, reply, published, lastFlush>>

Next ==
    \/ \E r \in Requests :
         \/ Accept(r)
         \/ \E k \in Keys : FetchForbidden(r, k) \/ FetchHit(r, k) \/ FetchMiss(r, k)
         \/ UpstreamAnswers(r)
         \/ FetchFails(r)
         \/ FetchSucceeds(r)
         \/ Finish(r)
    \/ FlushCache
    \/ \E u \in Urls : Publish(u)
    \/ Tick

Spec == Init /\ [][Next]_vars

-----------------------------------------------------------------------------
\* Type invariant.
TypeOK ==
    /\ cache \in [Keys -> {NoEntry} \cup Entries]
    /\ req \in [Requests -> {Idle} \cup RunningReqs \cup FetchingReqs \cup AnsweredReqs]
    /\ reply \in [Requests -> {NoReply, Refused} \cup Contents]
    /\ published \in [Urls -> Seq(Nat) \ {<<>>}]
    /\ now \in Nat
    /\ lastFlush \in Nat

\* In the history h of an upstream, version v was still the newest at some
\* moment no earlier than `slack` before t.
NewestWithin(h, v, t, slack) ==
    /\ v \in 1..Len(h)
    /\ v < Len(h) => h[v + 1] + slack >= t

\* Unless its own settings accept stale copies, a handler is never given
\* content that the upstream had replaced for longer than the namespace's
\* lifetime plus one fetch (fetch_remote, cache_get, cache_put together: one
\* handler's fetch fills the entry another one reads under other settings).
FreshnessBound ==
    \A r \in Requests :
       LET a == reply[r] IN
       a.outcome = "content" /\ ~a.lenient =>
           NewestWithin(published[a.key[2]], a.version, a.at, MaxTtl[a.key[1]] + FetchLimit)

\* A flush cannot stop a fetch that is in flight from filling the cache again
\* with what it read before the flush, but that is all: content handed out
\* after a flush, stale copies included, was the newest within one fetch of it.
FlushBarrier ==
    \A r \in Requests :
       LET a == reply[r] IN
       a.outcome = "content" =>
           NewestWithin(published[a.key[2]], a.version, a.flush, FetchLimit)

\* A URL that a handler's settings forbid is never served to it, not even from
\* an entry that was filled under settings that allowed it.
RevokedUrlNotServed ==
    \A r \in Requests :
       reply[r].outcome = "content" =>
          req[r].phase = "running" /\ reply[r].key[2] \in req[r].cfg.allowed

\* Fetches of one key overlap and finish in any order, so a newer entry can be
\* replaced by an older one; but no handler leaves in the map content older
\* than the expired entry it found there when it looked.
NoOlderThanFound ==
    [][\A r \in Requests :
          InFlight(r) /\ req'[r].phase = "running" =>
             LET k == req[r].key IN
             cache'[k] # cache[k] => req[r].seen <= cache'[k].version]_vars

\* The cache is invisible but for the staleness it adds: whatever handlers,
\* upstreams and flushes do, each fetch looks like one atomic read of a version
\* that was recent enough.
Promise == INSTANCE BoundedStaleness
ImplementsPromise == Promise!Spec
=============================================================================
