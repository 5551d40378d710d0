-------------------------- MODULE FetchCacheProofs --------------------------
(***************************************************************************)
(* Proofs about FetchCache, for every set of handlers, URLs, namespaces and *)
(* settings and every value of the bounds.                                  *)
(*                                                                         *)
(* FreshnessBound and FlushBarrier speak of what a handler was given; they  *)
(* follow from what is known of the map's entries and of the answers in     *)
(* flight, which EntryInv and FlightInv state.                              *)
(***************************************************************************)
EXTENDS FetchCache, TLAPS

\* The latest flush and everything the upstreams published lie in the past.
ClockInv ==
    /\ lastFlush <= now
    /\ \A u \in Urls : \A i \in 1..Len(published[u]) : published[u][i] <= now

\* An entry was the newest version within one fetch of the moment it was
\* stored, and that moment is not before the latest flush.
EntryInv ==
    \A k \in Keys : cache[k].present =>
        /\ cache[k].expires <= now + MaxTtl[k[1]]
        /\ NewestWithin(published[k[2]], cache[k].version, cache[k].expires,
                        MaxTtl[k[1]] + FetchLimit)
        /\ NewestWithin(published[k[2]], cache[k].version, lastFlush, FetchLimit)

\* A fetch in flight keeps its deadline; its answer was the newest version
\* after it started, and is no older than the entry found at its start.
FlightInv ==
    \A r \in Requests :
        /\ InFlight(r) => /\ req[r].start <= now
                          /\ now <= req[r].start + FetchLimit
                          /\ req[r].seen <= Len(published[req[r].key[2]])
        /\ req[r].phase = "answered" =>
              /\ NewestWithin(published[req[r].key[2]], req[r].got, req[r].start, 0)
              /\ req[r].seen <= req[r].got

\* A reply was given in the past.
ReplyInv ==
    \A r \in Requests : reply[r].outcome = "content" =>
        reply[r].at <= now /\ reply[r].flush <= now

\* A fetch is in flight only for a URL its handler's settings allow.
PermitInv ==
    \A r \in Requests : InFlight(r) => req[r].key[2] \in req[r].cfg.allowed

IInv ==
    /\ TypeOK
    /\ ClockInv
    /\ EntryInv
    /\ FlightInv
    /\ PermitInv
    /\ ReplyInv
    /\ FreshnessBound
    /\ FlushBarrier
    /\ RevokedUrlNotServed

-----------------------------------------------------------------------------
\* Publishing a version at time n keeps the promise made about an older one,
\* as long as the promise was about a time at most `slack` after n.
LEMMA PublishKeepsNewest ==
    ASSUME NEW h \in Seq(Nat), NEW v \in Nat, NEW t \in Nat, NEW slack \in Nat,
           NEW n \in Nat, t <= n + slack, NewestWithin(h, v, t, slack)
    PROVE  NewestWithin(Append(h, n), v, t, slack)
  BY DEF NewestWithin

\* A promise about a time is a promise about every earlier one, and survives
\* more slack.
LEMMA NewestWeaken ==
    ASSUME NEW h \in Seq(Nat), NEW v \in Nat, NEW t \in Nat, NEW slack \in Nat,
           NEW t2 \in Nat, NEW slack2 \in Nat,
           NewestWithin(h, v, t, slack), t2 + slack <= t + slack2
    PROVE  NewestWithin(h, v, t2, slack2)
<1>1. \A i \in 1..Len(h) : h[i] \in Nat
  OBVIOUS
<1>2. v \in 1..Len(h) /\ (v < Len(h) => v + 1 \in 1..Len(h))
  BY DEF NewestWithin
<1> QED BY <1>1, <1>2 DEF NewestWithin

\* The lifetime of a namespace is a number within the configured maximum.
LEMMA TtlBounded ==
    ASSUME NEW c \in Configs, NEW ns \in Namespaces
    PROVE  Ttl(c, ns) \in Nat /\ Ttl(c, ns) <= MaxTtl[ns] /\ MaxTtl[ns] \in Nat
  BY ConfigsAssumption, BoundsAssumption DEF Ttl, Config

\* The shapes of a handler's state.
LEMMA ReqShapes ==
    ASSUME TypeOK, NEW r \in Requests
    PROVE  /\ req[r].phase = "idle" => req[r] = Idle
           /\ req[r].phase = "running" => req[r] \in RunningReqs
           /\ req[r].phase = "fetching" => req[r] \in FetchingReqs
           /\ req[r].phase = "answered" => req[r] \in AnsweredReqs
  BY DEF TypeOK, Idle, RunningReqs, FetchingReqs, AnsweredReqs

\* A handler's settings, key and times, while a fetch is in flight.
LEMMA InFlightShape ==
    ASSUME TypeOK, NEW r \in Requests, InFlight(r)
    PROVE  /\ req[r].cfg \in Configs
           /\ req[r].key \in Keys
           /\ req[r].start \in Nat
           /\ req[r].seen \in Nat
           /\ req[r].phase = "answered" => req[r].got \in Nat \ {0}
  BY ReqShapes DEF InFlight, FetchingReqs, AnsweredReqs

LEMMA EntryShape ==
    ASSUME TypeOK, NEW k \in Keys, cache[k].present
    PROVE  /\ cache[k] \in Entries
           /\ cache[k].version \in Nat \ {0}
           /\ cache[k].expires \in Nat
<1>1. cache[k] \in {NoEntry} \cup Entries
  BY DEF TypeOK
<1>2. ~NoEntry.present
  BY DEF NoEntry
<1>3. cache[k] \in Entries
  BY <1>1, <1>2
<1> QED BY <1>3 DEF Entries

LEMMA KeyShape ==
    ASSUME NEW k \in Keys
    PROVE  k[1] \in Namespaces /\ k[2] \in Urls
  BY DEF Keys

LEMMA ContentType ==
    ASSUME TypeOK, NEW c \in Configs, NEW k \in Keys, NEW v \in Nat \ {0}
    PROVE  Content(c, k, v) \in Contents
<1>1. c.stale \in BOOLEAN
  BY ConfigsAssumption DEF Config
<1> QED BY <1>1 DEF Content, Contents, TypeOK

\* A live entry, as cache_get returns it, is the entry of the map.
LEMMA CacheGetLive ==
    ASSUME TypeOK, NEW k \in Keys, CacheGet(k).present
    PROVE  /\ cache[k].present
           /\ CacheGet(k) = cache[k]
           /\ cache[k].expires > now
  BY DEF CacheGet, NoEntry

-----------------------------------------------------------------------------
\* Type correctness of FetchCache.
LEMMA InitType == Init => TypeOK
<1> SUFFICES ASSUME Init
             PROVE  TypeOK
  OBVIOUS
<1>1. <<0>> \in Seq(Nat) \ {<<>>}
  OBVIOUS
<1> QED BY <1>1 DEF Init, TypeOK, Idle, NoReply, NoEntry

LEMMA StepType == TypeOK /\ [Next]_vars => TypeOK'
<1> SUFFICES ASSUME TypeOK, [Next]_vars
             PROVE  TypeOK'
  OBVIOUS
<1>1. ASSUME NEW r \in Requests, Accept(r)
      PROVE  TypeOK'
  BY <1>1 DEF TypeOK, Accept, Running, RunningReqs
<1>2. ASSUME NEW r \in Requests, NEW k \in Keys, FetchForbidden(r, k)
      PROVE  TypeOK'
  BY <1>2 DEF TypeOK, FetchForbidden
<1>3. ASSUME NEW r \in Requests, NEW k \in Keys, FetchHit(r, k)
      PROVE  TypeOK'
  <2>1. req[r].cfg \in Configs
    BY <1>3, ReqShapes DEF FetchHit, RunningReqs
  <2>2. CacheGet(k).version \in Nat \ {0}
    BY <1>3, CacheGetLive, EntryShape DEF FetchHit
  <2>3. Content(req[r].cfg, k, CacheGet(k).version) \in Contents
    BY <2>1, <2>2, ContentType
  <2> QED BY <1>3, <2>3 DEF TypeOK, FetchHit
<1>4. ASSUME NEW r \in Requests, NEW k \in Keys, FetchMiss(r, k)
      PROVE  TypeOK'
  <2> DEFINE found == IF cache[k].present THEN cache[k].version ELSE 0
  <2>1. req[r].cfg \in Configs
    BY <1>4, ReqShapes DEF FetchMiss, RunningReqs
  <2>2. found \in Nat
    BY EntryShape
  <2>3. Fetching(req[r].cfg, k, found) \in FetchingReqs
    BY <2>1, <2>2 DEF Fetching, FetchingReqs, TypeOK
  <2> QED BY <1>4, <2>3 DEF FetchMiss, TypeOK
<1>5. ASSUME NEW r \in Requests, UpstreamAnswers(r)
      PROVE  TypeOK'
  <2> DEFINE v == Len(published[req[r].key[2]])
  <2>1. InFlight(r)
    BY <1>5 DEF UpstreamAnswers, InFlight
  <2>2. published[req[r].key[2]] \in Seq(Nat) \ {<<>>}
    BY <2>1, InFlightShape, KeyShape DEF TypeOK
  <2>3. v \in Nat \ {0}
    BY <2>2
  <2>4. Answered(req[r], v) \in AnsweredReqs
    BY <2>1, <2>3, InFlightShape DEF Answered, AnsweredReqs
  <2> QED BY <1>5, <2>4 DEF UpstreamAnswers, TypeOK
<1>6. ASSUME NEW r \in Requests, FetchFails(r)
      PROVE  TypeOK'
  <2>1. req[r].cfg \in Configs /\ req[r].key \in Keys
    BY <1>6, InFlightShape DEF FetchFails
  <2>2. cache[req[r].key].present =>
          Content(req[r].cfg, req[r].key, cache[req[r].key].version) \in Contents
    BY <2>1, EntryShape, ContentType
  <2>3. Running(req[r].cfg) \in RunningReqs
    BY <2>1 DEF Running, RunningReqs
  <2> QED BY <1>6, <2>2, <2>3 DEF FetchFails, CacheGetStale, TypeOK
<1>7. ASSUME NEW r \in Requests, FetchSucceeds(r)
      PROVE  TypeOK'
  <2> DEFINE q == req[r]
             ttl == Ttl(q.cfg, q.key[1])
  <2>1. q.cfg \in Configs /\ q.key \in Keys /\ q.got \in Nat \ {0}
    BY <1>7, InFlightShape DEF FetchSucceeds, InFlight
  <2>2. Entry(q.got, ExpiresAt(ttl)) \in Entries
    BY <2>1, TtlBounded, KeyShape DEF Entry, Entries, ExpiresAt, TypeOK
  <2>3. Content(q.cfg, q.key, q.got) \in Contents
    BY <2>1, ContentType
  <2>4. Running(q.cfg) \in RunningReqs
    BY <2>1 DEF Running, RunningReqs
  <2> QED BY <1>7, <2>2, <2>3, <2>4 DEF FetchSucceeds, TypeOK
<1>8. ASSUME NEW r \in Requests, Finish(r)
      PROVE  TypeOK'
  BY <1>8 DEF Finish, TypeOK
<1>9. CASE FlushCache
  BY <1>9 DEF FlushCache, TypeOK
<1>10. ASSUME NEW u \in Urls, Publish(u)
       PROVE  TypeOK'
  <2>1. published[u] \in Seq(Nat) /\ now \in Nat
    BY DEF TypeOK
  <2>2. Append(published[u], now) \in Seq(Nat) /\ Len(Append(published[u], now)) # 0
    BY <2>1
  <2>3. Append(published[u], now) \in Seq(Nat) \ {<<>>}
    BY <2>2
  <2> QED BY <1>10, <2>3 DEF Publish, TypeOK
<1>11. CASE Tick
  BY <1>11 DEF Tick, TypeOK
<1>12. CASE UNCHANGED vars
  BY <1>12 DEF vars, TypeOK
<1> QED BY <1>1, <1>2, <1>3, <1>4, <1>5, <1>6, <1>7, <1>8, <1>9, <1>10, <1>11, <1>12
        DEF Next

THEOREM TypeCorrect == Spec => []TypeOK
  BY InitType, StepType, PTL DEF Spec

-----------------------------------------------------------------------------
\* Histories only grow: what is promised about a version at a time not after
\* now + slack is still promised after any step.
LEMMA StepKeepsNewest ==
    ASSUME TypeOK, [Next]_vars, NEW u \in Urls, NEW v \in Nat, NEW t \in Nat,
           NEW slack \in Nat, t <= now + slack,
           NewestWithin(published[u], v, t, slack)
    PROVE  NewestWithin(published'[u], v, t, slack)
<1>1. CASE \E w \in Urls : Publish(w)
  <2>1. PICK w \in Urls : Publish(w)
    BY <1>1
  <2>2. published'[u] = IF u = w THEN Append(published[u], now) ELSE published[u]
    BY <2>1 DEF Publish, TypeOK
  <2>3. published[u] \in Seq(Nat) /\ now \in Nat
    BY DEF TypeOK
  <2> QED BY <2>2, <2>3, PublishKeepsNewest
<1>2. CASE published' = published
  BY <1>2
<1> QED BY <1>1, <1>2 DEF Next, vars, Accept, FetchForbidden, FetchHit, FetchMiss,
        UpstreamAnswers, FetchFails, FetchSucceeds, Finish, FlushCache, Tick

LEMMA HistoryGrows ==
    ASSUME TypeOK, [Next]_vars, NEW u \in Urls
    PROVE  Len(published[u]) <= Len(published'[u])
<1>1. published[u] \in Seq(Nat) /\ now \in Nat
  BY DEF TypeOK
<1>2. CASE \E w \in Urls : Publish(w)
  <2>1. \/ published'[u] = Append(published[u], now)
        \/ published'[u] = published[u]
    BY <1>2 DEF Publish, TypeOK
  <2> QED BY <1>1, <2>1
<1>3. CASE published' = published
  BY <1>1, <1>3
<1> QED BY <1>2, <1>3 DEF Next, vars, Accept, FetchForbidden, FetchHit, FetchMiss,
        UpstreamAnswers, FetchFails, FetchSucceeds, Finish, FlushCache, Tick

LEMMA ClockStep ==
    ASSUME TypeOK, ClockInv, [Next]_vars
    PROVE  ClockInv' /\ now <= now'
<1>1. CASE \E u \in Urls : Publish(u)
  <2>1. PICK u \in Urls : Publish(u)
    BY <1>1
  <2>2. ASSUME NEW w \in Urls, NEW i \in 1..Len(published'[w])
        PROVE  published'[w][i] <= now
    <3>1. published[u] \in Seq(Nat) /\ now \in Nat
      BY DEF TypeOK
    <3>2. CASE w = u
      <4>1. published'[w] = Append(published[u], now)
        BY <2>1, <3>2 DEF Publish, TypeOK
      <4> QED BY <2>2, <3>1, <3>2, <4>1 DEF ClockInv
    <3>3. CASE w # u
      <4>1. published'[w] = published[w]
        BY <2>1, <3>3 DEF Publish, TypeOK
      <4> QED BY <2>2, <4>1 DEF ClockInv
    <3> QED BY <3>2, <3>3
  <2>3. now' = now /\ lastFlush' = lastFlush /\ now \in Nat
    BY <2>1 DEF Publish, TypeOK
  <2> QED BY <2>2, <2>3 DEF ClockInv
<1>2. CASE Tick
  <2>1. ASSUME NEW u \in Urls, NEW i \in 1..Len(published[u])
        PROVE  published[u][i] <= now + 1
    <3>1. published[u][i] \in Nat /\ now \in Nat
      BY DEF TypeOK
    <3> QED BY <3>1 DEF ClockInv
  <2> QED BY <1>2, <2>1 DEF Tick, ClockInv, TypeOK
<1>3. CASE FlushCache
  BY <1>3 DEF FlushCache, ClockInv, TypeOK
<1>4. CASE published' = published /\ now' = now /\ lastFlush' = lastFlush
  BY <1>4 DEF ClockInv, TypeOK
<1> QED BY <1>1, <1>2, <1>3, <1>4 DEF Next, vars, Accept, FetchForbidden, FetchHit,
        FetchMiss, UpstreamAnswers, FetchFails, FetchSucceeds, Finish

-----------------------------------------------------------------------------
\* What holds of the map after an entry for key k0 was stored now by handler r.
LEMMA StoreEntry ==
    ASSUME TypeOK, FlightInv, ClockInv, NEW r \in Requests, FetchSucceeds(r),
           Ttl(req[r].cfg, req[r].key[1]) > 0
    PROVE  LET k == req[r].key
               e == Entry(req[r].got, ExpiresAt(Ttl(req[r].cfg, k[1])))
           IN  /\ e.expires <= now + MaxTtl[k[1]]
               /\ NewestWithin(published[k[2]], e.version, e.expires,
                               MaxTtl[k[1]] + FetchLimit)
               /\ NewestWithin(published[k[2]], e.version, lastFlush, FetchLimit)
<1> DEFINE k == req[r].key
           ttl == Ttl(req[r].cfg, k[1])
           h == published[k[2]]
           e == Entry(req[r].got, ExpiresAt(ttl))
<1>1. InFlight(r) /\ req[r].phase = "answered"
  BY DEF FetchSucceeds, InFlight
<1>2. /\ req[r].cfg \in Configs /\ k \in Keys /\ req[r].start \in Nat
      /\ req[r].got \in Nat
  BY <1>1, InFlightShape
<1>3. k[1] \in Namespaces /\ k[2] \in Urls
  BY <1>2, KeyShape
<1>4. ttl \in Nat /\ ttl <= MaxTtl[k[1]] /\ MaxTtl[k[1]] \in Nat
  BY <1>2, <1>3, TtlBounded
<1>5. h \in Seq(Nat) /\ now \in Nat /\ lastFlush \in Nat /\ FetchLimit \in Nat
  BY <1>3, BoundsAssumption DEF TypeOK
<1>6. e.version = req[r].got /\ e.expires = now + ttl
  BY DEF Entry, ExpiresAt
<1>7. NewestWithin(h, req[r].got, req[r].start, 0)
  BY <1>1 DEF FlightInv
<1>8. req[r].start <= now /\ now <= req[r].start + FetchLimit /\ lastFlush <= now
  BY <1>1 DEF FlightInv, ClockInv
<1>9. NewestWithin(h, req[r].got, now + ttl, MaxTtl[k[1]] + FetchLimit)
  <2> DEFINE t == now + ttl
             slack == MaxTtl[k[1]] + FetchLimit
  <2>1. t + 0 <= req[r].start + slack
    BY <1>2, <1>4, <1>5, <1>8, SMTT(30)
  <2>2. t \in Nat /\ slack \in Nat
    BY <1>4, <1>5
  <2>3. NewestWithin(h, req[r].got, t, slack)
    <3> HIDE DEF t, slack, h
    <3> QED BY <2>1, <2>2, <1>2, <1>5, <1>7, NewestWeaken
  <2> QED BY <2>3
<1>10. NewestWithin(h, req[r].got, lastFlush, FetchLimit)
  <2>1. lastFlush + 0 <= req[r].start + FetchLimit
    BY <1>2, <1>5, <1>8
  <2> HIDE DEF h
  <2> QED BY <2>1, <1>2, <1>5, <1>7, NewestWeaken
<1> QED BY <1>4, <1>5, <1>6, <1>9, <1>10

LEMMA EntryStep ==
    ASSUME TypeOK, TypeOK', ClockInv, EntryInv, FlightInv, [Next]_vars
    PROVE  EntryInv'
<1> SUFFICES ASSUME NEW k \in Keys, cache'[k].present
             PROVE  /\ cache'[k].expires <= now' + MaxTtl[k[1]]
                    /\ NewestWithin(published'[k[2]], cache'[k].version,
                                    cache'[k].expires, MaxTtl[k[1]] + FetchLimit)
                    /\ NewestWithin(published'[k[2]], cache'[k].version,
                                    lastFlush', FetchLimit)
  BY DEF EntryInv
<1>1. /\ k[1] \in Namespaces /\ k[2] \in Urls /\ MaxTtl[k[1]] \in Nat
      /\ FetchLimit \in Nat /\ now \in Nat /\ lastFlush \in Nat
  BY KeyShape, BoundsAssumption DEF TypeOK
<1>2. CASE cache'[k] = cache[k] /\ lastFlush' = lastFlush
  <2>1. cache[k].version \in Nat /\ cache[k].expires \in Nat
    BY <1>2, EntryShape
  <2>2. /\ cache[k].expires <= now + MaxTtl[k[1]]
        /\ NewestWithin(published[k[2]], cache[k].version, cache[k].expires,
                        MaxTtl[k[1]] + FetchLimit)
        /\ NewestWithin(published[k[2]], cache[k].version, lastFlush, FetchLimit)
    BY <1>2 DEF EntryInv
  <2>3. now <= now' /\ now' \in Nat
    BY ClockStep DEF TypeOK
  <2>4. cache[k].expires <= now + (MaxTtl[k[1]] + FetchLimit)
    BY <1>1, <2>1, <2>2
  <2>5. lastFlush <= now + FetchLimit
    BY <1>1 DEF ClockInv
  <2>6. NewestWithin(published'[k[2]], cache[k].version, cache[k].expires,
                     MaxTtl[k[1]] + FetchLimit)
    BY <1>1, <2>1, <2>2, <2>4, StepKeepsNewest
  <2>7. NewestWithin(published'[k[2]], cache[k].version, lastFlush, FetchLimit)
    BY <1>1, <2>1, <2>2, <2>5, StepKeepsNewest
  <2> QED BY <1>1, <1>2, <2>1, <2>2, <2>3, <2>6, <2>7
<1>3. CASE /\ UNCHANGED <<published, now, lastFlush>>
           /\ \E r \in Requests : /\ FetchSucceeds(r)
                                  /\ req[r].key = k
                                  /\ Ttl(req[r].cfg, k[1]) > 0
  <2>1. PICK r \in Requests : /\ FetchSucceeds(r)
                              /\ req[r].key = k
                              /\ Ttl(req[r].cfg, k[1]) > 0
    BY <1>3
  <2>2. cache'[k] = Entry(req[r].got, ExpiresAt(Ttl(req[r].cfg, k[1])))
    BY <2>1 DEF FetchSucceeds, TypeOK
  <2> QED BY <1>3, <2>1, <2>2, StoreEntry
<1>4. CASE FlushCache
  <2>1. ~cache'[k].present
    BY <1>4 DEF FlushCache, NoEntry
  <2> QED BY <2>1
<1>5. ASSUME NEW r \in Requests, FetchSucceeds(r)
      PROVE  \/ cache'[k] = cache[k] /\ lastFlush' = lastFlush
             \/ /\ UNCHANGED <<published, now, lastFlush>>
                /\ req[r].key = k
                /\ Ttl(req[r].cfg, k[1]) > 0
  <2> DEFINE ttl == Ttl(req[r].cfg, req[r].key[1])
  <2>1. UNCHANGED <<published, now, lastFlush>>
    BY <1>5 DEF FetchSucceeds
  <2>2. CASE ttl > 0 /\ req[r].key = k
    BY <2>1, <2>2
  <2>3. CASE ~(ttl > 0)
    BY <1>5, <2>1, <2>3 DEF FetchSucceeds
  <2>4. CASE ttl > 0 /\ req[r].key # k
    BY <1>5, <2>1, <2>4 DEF FetchSucceeds, TypeOK
  <2> QED BY <2>2, <2>3, <2>4
<1>6. \/ cache' = cache /\ lastFlush' = lastFlush
      \/ \E r \in Requests : FetchSucceeds(r)
      \/ FlushCache
  BY DEF Next, vars, Accept, FetchForbidden, FetchHit, FetchMiss,
         UpstreamAnswers, FetchFails, Finish, Publish, Tick
<1> QED BY <1>2, <1>3, <1>4, <1>5, <1>6

-----------------------------------------------------------------------------
\* A step of another handler, or of none, leaves this one's fetch as it was.
LEMMA FlightStep ==
    ASSUME TypeOK, TypeOK', ClockInv, EntryInv, FlightInv, [Next]_vars
    PROVE  FlightInv'
<1> SUFFICES ASSUME NEW r \in Requests
             PROVE  /\ InFlight(r)' =>
                         /\ req'[r].start <= now'
                         /\ now' <= req'[r].start + FetchLimit
                         /\ req'[r].seen <= Len(published'[req'[r].key[2]])
                    /\ req'[r].phase = "answered" =>
                         /\ NewestWithin(published'[req'[r].key[2]], req'[r].got,
                                         req'[r].start, 0)
                         /\ req'[r].seen <= req'[r].got
  BY DEF FlightInv
<1>0. now \in Nat /\ now' \in Nat /\ FetchLimit \in Nat \ {0} /\ now <= now'
  BY BoundsAssumption, ClockStep DEF TypeOK
<1>1. CASE req'[r] = req[r]
  <2>1. CASE ~InFlight(r)
    BY <1>1, <2>1 DEF InFlight
  <2>2. CASE InFlight(r)
    <3>1. /\ req[r].key[2] \in Urls /\ req[r].start \in Nat /\ req[r].seen \in Nat
          /\ req[r].phase = "answered" => req[r].got \in Nat \ {0}
      BY <2>2, InFlightShape, KeyShape
    <3>2. /\ req[r].start <= now
          /\ now <= req[r].start + FetchLimit
          /\ req[r].seen <= Len(published[req[r].key[2]])
      BY <2>2 DEF FlightInv
    <3>3. now' <= req[r].start + FetchLimit
      <4>1. CASE Tick
        BY <1>0, <2>2, <3>1, <4>1 DEF Tick
      <4>2. CASE now' = now
        BY <3>2, <4>2
      <4> QED BY <4>1, <4>2 DEF Next, vars, Accept, FetchForbidden, FetchHit,
              FetchMiss, UpstreamAnswers, FetchFails, FetchSucceeds, Finish,
              FlushCache, Publish
    <3>4. Len(published[req[r].key[2]]) <= Len(published'[req[r].key[2]])
      BY <3>1, HistoryGrows
    <3>5. req[r].seen <= Len(published'[req[r].key[2]])
      <4> DEFINE m == Len(published[req[r].key[2]])
                 n == Len(published'[req[r].key[2]])
      <4>1. m \in Nat /\ n \in Nat
        BY <3>1, SMTT(30) DEF TypeOK
      <4>2. req[r].seen <= m /\ m <= n
        BY <3>2, <3>4
      <4> HIDE DEF m, n
      <4>3. req[r].seen <= n
        BY <3>1, <4>1, <4>2
      <4> QED BY <4>3 DEF n
    <3>6. ASSUME req[r].phase = "answered"
          PROVE  /\ NewestWithin(published'[req[r].key[2]], req[r].got,
                                 req[r].start, 0)
                 /\ req[r].seen <= req[r].got
      <4>1. /\ NewestWithin(published[req[r].key[2]], req[r].got, req[r].start, 0)
            /\ req[r].seen <= req[r].got
        BY <3>6 DEF FlightInv
      <4>2. req[r].start <= now + 0 /\ req[r].got \in Nat
        BY <1>0, <3>1, <3>2, <3>6
      <4> QED BY <3>1, <4>1, <4>2, StepKeepsNewest
    <3> QED BY <1>0, <1>1, <3>1, <3>2, <3>3, <3>5, <3>6
  <2> QED BY <2>1, <2>2
<1>2. ASSUME NEW k \in Keys, FetchMiss(r, k)
      PROVE  /\ req'[r].phase = "fetching" /\ req'[r].key = k
             /\ req'[r].start = now /\ now' = now /\ published' = published
             /\ req'[r].seen <= Len(published[k[2]])
  <2> DEFINE found == IF cache[k].present THEN cache[k].version ELSE 0
  <2>1. req'[r] = Fetching(req[r].cfg, k, found)
    BY <1>2 DEF FetchMiss, TypeOK
  <2>2. found <= Len(published[k[2]])
    <3>1. CASE cache[k].present
      BY <3>1, EntryShape DEF EntryInv, NewestWithin
    <3>2. CASE ~cache[k].present
      <4>1. Len(published[k[2]]) \in Nat
        BY KeyShape DEF TypeOK
      <4> QED BY <3>2, <4>1
    <3> QED BY <3>1, <3>2
  <2> QED BY <1>2, <2>1, <2>2 DEF FetchMiss, Fetching
<1>3. CASE UpstreamAnswers(r)
  <2> DEFINE q == req[r]
             h == published[q.key[2]]
  <2>1. InFlight(r) /\ q.phase = "fetching"
    BY <1>3 DEF UpstreamAnswers, InFlight
  <2>2. q.key[2] \in Urls /\ q.start \in Nat /\ q.seen \in Nat
    BY <2>1, InFlightShape, KeyShape
  <2>3. h \in Seq(Nat) \ {<<>>}
    BY <2>2 DEF TypeOK
  <2>4. Len(h) \in 1..Len(h)
    BY <2>3
  <2>5. req'[r] = Answered(q, Len(h)) /\ now' = now /\ published' = published
    BY <1>3 DEF UpstreamAnswers, TypeOK
  <2>6. NewestWithin(h, Len(h), q.start, 0)
    BY <2>4 DEF NewestWithin
  <2>7. q.start <= now /\ now <= q.start + FetchLimit /\ q.seen <= Len(h)
    BY <2>1 DEF FlightInv
  <2> QED BY <2>5, <2>6, <2>7 DEF Answered
<1>4. CASE req'[r].phase \in {"idle", "running"}
  BY <1>4 DEF InFlight
<1>5. \/ req'[r] = req[r]
      \/ \E k \in Keys : FetchMiss(r, k)
      \/ UpstreamAnswers(r)
      \/ req'[r].phase \in {"idle", "running"}
  BY SMTT(30) DEF Next, vars, Accept, Running, Idle, FetchForbidden, FetchHit, FetchMiss,
         UpstreamAnswers, FetchFails, FetchSucceeds, Finish, FlushCache, Publish,
         Tick, TypeOK
<1>6. CASE \E k \in Keys : FetchMiss(r, k)
  <2>1. PICK k \in Keys : FetchMiss(r, k)
    BY <1>6
  <2> QED BY <1>0, <1>2, <2>1
<1> QED BY <1>1, <1>3, <1>4, <1>5, <1>6

-----------------------------------------------------------------------------
\* What a handler is given from the map, or from the upstream, now.
LEMMA ServedFromCache ==
    ASSUME TypeOK, ClockInv, EntryInv, NEW k \in Keys, cache[k].present
    PROVE  /\ NewestWithin(published[k[2]], cache[k].version, lastFlush, FetchLimit)
           /\ cache[k].expires > now =>
                NewestWithin(published[k[2]], cache[k].version, now,
                             MaxTtl[k[1]] + FetchLimit)
<1>1. /\ published[k[2]] \in Seq(Nat) /\ cache[k].version \in Nat
      /\ cache[k].expires \in Nat /\ now \in Nat
      /\ MaxTtl[k[1]] \in Nat /\ FetchLimit \in Nat
  BY EntryShape, KeyShape, BoundsAssumption DEF TypeOK
<1>2. /\ NewestWithin(published[k[2]], cache[k].version, lastFlush, FetchLimit)
      /\ NewestWithin(published[k[2]], cache[k].version, cache[k].expires,
                      MaxTtl[k[1]] + FetchLimit)
  BY DEF EntryInv
<1> DEFINE slack == MaxTtl[k[1]] + FetchLimit
<1>3. slack \in Nat
  BY <1>1
<1>4. ASSUME cache[k].expires > now
      PROVE  NewestWithin(published[k[2]], cache[k].version, now, slack)
  <2>1. now + slack <= cache[k].expires + slack
    BY <1>1, <1>3, <1>4
  <2>2. NewestWithin(published[k[2]], cache[k].version, cache[k].expires, slack)
    BY <1>2
  <2> HIDE DEF slack
  <2> QED BY <2>1, <2>2, <1>1, <1>3, NewestWeaken
<1> QED BY <1>2, <1>4

LEMMA ServedFromUpstream ==
    ASSUME TypeOK, ClockInv, FlightInv, NEW r \in Requests, FetchSucceeds(r)
    PROVE  LET k == req[r].key
               h == published[k[2]]
           IN  /\ NewestWithin(h, req[r].got, lastFlush, FetchLimit)
               /\ NewestWithin(h, req[r].got, now, MaxTtl[k[1]] + FetchLimit)
<1> DEFINE k == req[r].key
           h == published[k[2]]
           slack == MaxTtl[k[1]] + FetchLimit
<1>1. InFlight(r) /\ req[r].phase = "answered"
  BY DEF FetchSucceeds, InFlight
<1>2. /\ k \in Keys /\ req[r].start \in Nat /\ req[r].got \in Nat
      /\ k[1] \in Namespaces /\ k[2] \in Urls
  BY <1>1, InFlightShape, KeyShape
<1>3. /\ h \in Seq(Nat) /\ now \in Nat /\ lastFlush \in Nat /\ FetchLimit \in Nat
      /\ slack \in Nat /\ MaxTtl[k[1]] \in Nat
  BY <1>2, BoundsAssumption DEF TypeOK
<1>4. NewestWithin(h, req[r].got, req[r].start, 0)
  BY <1>1 DEF FlightInv
<1>5. /\ lastFlush + 0 <= req[r].start + FetchLimit
      /\ now + 0 <= req[r].start + slack
  <2>1. now <= req[r].start + FetchLimit /\ lastFlush <= now
    BY <1>1 DEF FlightInv, ClockInv
  <2>2. req[r].start + FetchLimit <= req[r].start + slack
    BY <1>2, <1>3
  <2> HIDE DEF slack
  <2> QED BY <1>2, <1>3, <2>1, <2>2
<1>6. NewestWithin(h, req[r].got, lastFlush, FetchLimit)
      /\ NewestWithin(h, req[r].got, now, slack)
  <2> HIDE DEF slack, h
  <2> QED BY <1>2, <1>3, <1>4, <1>5, NewestWeaken
<1> QED BY <1>6

\* What the reply of a handler promises, as one predicate of a reply.
Honest(a) ==
    a.outcome = "content" =>
        /\ a.at <= now /\ a.flush <= now
        /\ ~a.lenient => NewestWithin(published[a.key[2]], a.version, a.at,
                                      MaxTtl[a.key[1]] + FetchLimit)
        /\ NewestWithin(published[a.key[2]], a.version, a.flush, FetchLimit)

LEMMA HonestReplies ==
    (ReplyInv /\ FreshnessBound /\ FlushBarrier) <=> \A r \in Requests : Honest(reply[r])
  BY DEF ReplyInv, FreshnessBound, FlushBarrier, Honest

\* A reply that was honest stays so.
LEMMA HonestKept ==
    ASSUME TypeOK, TypeOK', ClockInv, [Next]_vars, NEW r \in Requests,
           Honest(reply[r]), reply'[r] = reply[r]
    PROVE  Honest(reply[r])'
<1> SUFFICES ASSUME reply[r].outcome = "content"
             PROVE  Honest(reply[r])'
  BY DEF Honest
<1> DEFINE a == reply[r]
           slack == MaxTtl[a.key[1]] + FetchLimit
<1>1. a \in Contents
  <2>1. reply[r] \in {NoReply, Refused} \cup Contents
    BY DEF TypeOK
  <2>2. reply[r] # NoReply /\ reply[r] # Refused
    BY DEF NoReply, Refused
  <2> QED BY <2>1, <2>2
<1>2. /\ a.version \in Nat /\ a.at \in Nat /\ a.flush \in Nat
      /\ a.key[1] \in Namespaces /\ a.key[2] \in Urls
  BY <1>1, KeyShape DEF Contents
<1>3. /\ now \in Nat /\ now' \in Nat /\ now <= now'
      /\ FetchLimit \in Nat /\ slack \in Nat
  <2>1. now <= now'
    BY ClockStep
  <2>2. now \in Nat /\ now' \in Nat /\ FetchLimit \in Nat
    BY BoundsAssumption DEF TypeOK
  <2>3. MaxTtl[a.key[1]] \in Nat
    BY <1>2, BoundsAssumption
  <2> QED BY <2>1, <2>2, <2>3
<1>4. a.at <= now /\ a.flush <= now
  BY DEF Honest
<1>5. ASSUME ~a.lenient
      PROVE  NewestWithin(published'[a.key[2]], a.version, a.at, slack)
  <2>1. a.at <= now + slack
    BY <1>2, <1>3, <1>4
  <2>2. NewestWithin(published[a.key[2]], a.version, a.at, slack)
    BY <1>5 DEF Honest
  <2> HIDE DEF slack, a
  <2> QED BY <2>1, <2>2, <1>2, <1>3, StepKeepsNewest
<1>6. NewestWithin(published'[a.key[2]], a.version, a.flush, FetchLimit)
  <2>1. a.flush <= now + FetchLimit
    BY <1>2, <1>3, <1>4
  <2>2. NewestWithin(published[a.key[2]], a.version, a.flush, FetchLimit)
    BY DEF Honest
  <2> HIDE DEF a
  <2> QED BY <2>1, <2>2, <1>2, <1>3, StepKeepsNewest
<1>7. a.at <= now' /\ a.flush <= now'
  BY <1>2, <1>3, <1>4
<1> QED BY <1>5, <1>6, <1>7 DEF Honest

LEMMA ReplyStep ==
    ASSUME TypeOK, TypeOK', ClockInv, EntryInv, FlightInv, [Next]_vars,
           \A r \in Requests : Honest(reply[r])
    PROVE  \A r \in Requests : Honest(reply[r])'
<1> SUFFICES ASSUME NEW r \in Requests
             PROVE  Honest(reply[r])'
  OBVIOUS
<1>0. now \in Nat /\ lastFlush <= now
  BY DEF TypeOK, ClockInv
<1>1. CASE reply'[r] = reply[r]
  BY <1>1, HonestKept
<1>2. CASE reply'[r] \in {NoReply, Refused}
  BY <1>2 DEF Honest, NoReply, Refused
<1>3. ASSUME NEW k \in Keys, FetchHit(r, k)
      PROVE  Honest(reply[r])'
  <2>1. reply'[r] = Content(req[r].cfg, k, cache[k].version)
    BY <1>3, CacheGetLive DEF FetchHit, TypeOK
  <2>2. cache[k].present /\ cache[k].expires > now
    BY <1>3, CacheGetLive DEF FetchHit
  <2>3. UNCHANGED <<published, now, lastFlush>>
    BY <1>3 DEF FetchHit
  <2> QED BY <1>0, <2>1, <2>2, <2>3, ServedFromCache DEF Honest, Content
<1>4. ASSUME FetchFails(r), reply'[r] \notin {Refused}
      PROVE  Honest(reply[r])'
  <2> DEFINE k == req[r].key
  <2>1. k \in Keys
    BY <1>4, InFlightShape DEF FetchFails
  <2>2. /\ cache[k].present
        /\ req[r].cfg.stale
        /\ reply'[r] = Content(req[r].cfg, k, cache[k].version)
    BY <1>4 DEF FetchFails, CacheGetStale, TypeOK
  <2>3. UNCHANGED <<published, now, lastFlush>>
    BY <1>4 DEF FetchFails
  <2> QED BY <1>0, <2>1, <2>2, <2>3, ServedFromCache DEF Honest, Content
<1>5. CASE FetchSucceeds(r)
  <2>1. reply'[r] = Content(req[r].cfg, req[r].key, req[r].got)
    BY <1>5 DEF FetchSucceeds, TypeOK
  <2>2. UNCHANGED <<published, now, lastFlush>>
    BY <1>5 DEF FetchSucceeds
  <2> QED BY <1>0, <1>5, <2>1, <2>2, ServedFromUpstream DEF Honest, Content
<1>6. \/ reply'[r] = reply[r]
      \/ reply'[r] \in {NoReply, Refused}
      \/ \E k \in Keys : FetchHit(r, k)
      \/ FetchFails(r)
      \/ FetchSucceeds(r)
  BY DEF Next, vars, Accept, FetchForbidden, FetchHit, FetchMiss, UpstreamAnswers,
         FetchFails, FetchSucceeds, Finish, FlushCache, Publish, Tick, TypeOK
<1> QED BY <1>1, <1>2, <1>3, <1>4, <1>5, <1>6

-----------------------------------------------------------------------------
\* A handler that was given content still holds the settings that permitted it.
LEMMA PermitStep ==
    ASSUME TypeOK, PermitInv, RevokedUrlNotServed, [Next]_vars
    PROVE  PermitInv' /\ RevokedUrlNotServed'
<1> SUFFICES ASSUME NEW r \in Requests
             PROVE  /\ InFlight(r)' => req'[r].key[2] \in req'[r].cfg.allowed
                    /\ reply'[r].outcome = "content" =>
                         /\ req'[r].phase = "running"
                         /\ reply'[r].key[2] \in req'[r].cfg.allowed
  BY DEF PermitInv, RevokedUrlNotServed
<1>1. CASE req'[r] = req[r] /\ reply'[r] = reply[r]
  BY <1>1 DEF PermitInv, RevokedUrlNotServed, InFlight
<1>2. CASE reply'[r] \in {NoReply, Refused} /\ ~InFlight(r)'
  BY <1>2 DEF NoReply, Refused
<1>3. ASSUME NEW k \in Keys, FetchHit(r, k)
      PROVE  /\ req'[r] = req[r] /\ req[r].phase = "running"
             /\ reply'[r].key = k /\ k[2] \in req[r].cfg.allowed
  BY <1>3 DEF FetchHit, Content, TypeOK
<1>4. ASSUME NEW k \in Keys, FetchMiss(r, k)
      PROVE  /\ req'[r].key = k /\ req'[r].cfg = req[r].cfg
             /\ k[2] \in req[r].cfg.allowed /\ reply'[r] = NoReply
  BY <1>4 DEF FetchMiss, Fetching, TypeOK
<1>5. CASE UpstreamAnswers(r)
  <2>1. InFlight(r)
    BY <1>5 DEF UpstreamAnswers, InFlight
  <2>2. reply'[r] = reply[r] /\ reply[r].outcome # "content"
    BY <1>5 DEF UpstreamAnswers, RevokedUrlNotServed
  <2>3. req'[r].key = req[r].key /\ req'[r].cfg = req[r].cfg
    BY <1>5 DEF UpstreamAnswers, Answered, TypeOK
  <2> QED BY <2>1, <2>2, <2>3 DEF PermitInv
<1>6. CASE FetchFails(r) \/ FetchSucceeds(r)
  <2>1. InFlight(r)
    BY <1>6 DEF FetchFails, FetchSucceeds, InFlight
  <2>2. req'[r] = Running(req[r].cfg)
    BY <1>6 DEF FetchFails, FetchSucceeds, TypeOK
  <2>3. reply'[r] = Refused \/ reply'[r].key = req[r].key
    BY <1>6 DEF FetchFails, FetchSucceeds, Content, TypeOK
  <2> QED BY <2>1, <2>2, <2>3 DEF PermitInv, Running, InFlight, Refused
<1>7. ASSUME Accept(r)
      PROVE  reply'[r].outcome # "content" /\ ~InFlight(r)'
  BY <1>7 DEF Accept, Running, InFlight, RevokedUrlNotServed, TypeOK
<1>8. \/ req'[r] = req[r] /\ reply'[r] = reply[r]
      \/ reply'[r] \in {NoReply, Refused} /\ ~InFlight(r)'
      \/ \E k \in Keys : FetchHit(r, k)
      \/ \E k \in Keys : FetchMiss(r, k)
      \/ UpstreamAnswers(r)
      \/ FetchFails(r) \/ FetchSucceeds(r)
      \/ Accept(r)
  <2>1. ASSUME NEW q \in Requests, Finish(q)
        PROVE  \/ req'[r] = req[r] /\ reply'[r] = reply[r]
               \/ reply'[r] \in {NoReply, Refused} /\ ~InFlight(r)'
    BY <2>1 DEF Finish, InFlight, Idle, TypeOK
  <2>2. CASE ~\E q \in Requests : Finish(q)
    BY <2>2 DEF Next, vars, InFlight, FetchForbidden, FetchHit, FetchMiss, FetchFails,
         FetchSucceeds, UpstreamAnswers, Accept, FlushCache, Publish, Tick, TypeOK
  <2> QED BY <2>1, <2>2
<1>9. CASE \E k \in Keys : FetchHit(r, k)
  <2>1. PICK k \in Keys : FetchHit(r, k)
    BY <1>9
  <2> QED BY <1>3, <2>1 DEF InFlight
<1>10. CASE \E k \in Keys : FetchMiss(r, k)
  <2>1. PICK k \in Keys : FetchMiss(r, k)
    BY <1>10
  <2> QED BY <1>4, <2>1 DEF NoReply
<1> QED BY <1>1, <1>2, <1>5, <1>6, <1>7, <1>8, <1>9, <1>10

-----------------------------------------------------------------------------
\* IInv is an inductive invariant of FetchCache.
LEMMA InitIInv == Init => IInv
<1> SUFFICES ASSUME Init
             PROVE  IInv
  OBVIOUS
<1>1. TypeOK
  BY InitType
<1>2. ClockInv
  BY DEF Init, ClockInv
<1>3. EntryInv
  BY DEF Init, EntryInv, NoEntry
<1>4. FlightInv /\ PermitInv
  BY DEF Init, FlightInv, PermitInv, InFlight, Idle
<1>5. ReplyInv /\ FreshnessBound /\ FlushBarrier /\ RevokedUrlNotServed
  BY DEF Init, ReplyInv, FreshnessBound, FlushBarrier, RevokedUrlNotServed, NoReply
<1> QED BY <1>1, <1>2, <1>3, <1>4, <1>5 DEF IInv

LEMMA StepIInv == IInv /\ [Next]_vars => IInv'
<1> SUFFICES ASSUME IInv, [Next]_vars
             PROVE  IInv'
  OBVIOUS
<1> USE DEF IInv
<1>1. TypeOK'
  BY StepType
<1>2. ClockInv'
  BY ClockStep
<1>3. EntryInv'
  BY <1>1, EntryStep
<1>4. FlightInv'
  BY <1>1, FlightStep
<1>5. PermitInv' /\ RevokedUrlNotServed'
  BY PermitStep
<1>6. ReplyInv' /\ FreshnessBound' /\ FlushBarrier'
  <2>1. \A r \in Requests : Honest(reply[r])'
    BY <1>1, HonestReplies, ReplyStep
  <2> QED BY <2>1 DEF ReplyInv, FreshnessBound, FlushBarrier, Honest
<1> QED BY <1>1, <1>2, <1>3, <1>4, <1>5, <1>6

LEMMA Invariance == Spec => []IInv
  BY InitIInv, StepIInv, PTL DEF Spec

\* No handler with plain settings is served content that was out of date for
\* longer than its namespace's lifetime and one fetch (fetch_remote).
THEOREM Freshness == Spec => []FreshnessBound
<1>1. IInv => FreshnessBound
  BY DEF IInv
<1> QED BY <1>1, Invariance, PTL

\* Content served after a flush was the newest within one fetch of the flush.
THEOREM Flushing == Spec => []FlushBarrier
<1>1. IInv => FlushBarrier
  BY DEF IInv
<1> QED BY <1>1, Invariance, PTL

\* A URL the handler's settings forbid is not served from the cache either.
THEOREM Revocation == Spec => []RevokedUrlNotServed
<1>1. IInv => RevokedUrlNotServed
  BY DEF IInv
<1> QED BY <1>1, Invariance, PTL

\* No handler stores content older than the expired entry it found.
THEOREM StoresNoOlder == Spec => NoOlderThanFound
<1>1. ASSUME IInv, Next, NEW r \in Requests, InFlight(r), req'[r].phase = "running"
      PROVE  LET k == req[r].key IN
             cache'[k] # cache[k] => req[r].seen <= cache'[k].version
  <2>1. FetchFails(r) \/ FetchSucceeds(r)
    BY <1>1 DEF Next, InFlight, Accept, FetchForbidden, FetchHit, FetchMiss,
            UpstreamAnswers, Answered, FetchFails, FetchSucceeds, Finish, Idle, FlushCache,
            Publish, Tick, IInv, TypeOK
  <2>2. CASE FetchFails(r)
    BY <2>2 DEF FetchFails
  <2>3. CASE FetchSucceeds(r)
    <3>1. req[r].phase = "answered" /\ req[r].key \in Keys
      BY <1>1, <2>3, InFlightShape DEF FetchSucceeds, IInv
    <3>2. req[r].seen <= req[r].got
      BY <1>1, <3>1 DEF IInv, FlightInv
    <3>3. \/ cache' = cache
          \/ cache'[req[r].key].version = req[r].got
      BY <1>1, <2>3, <3>1 DEF FetchSucceeds, Entry, IInv, TypeOK
    <3> QED BY <3>2, <3>3
  <2> QED BY <2>1, <2>2, <2>3
<1>2. IInv /\ [Next]_vars =>
        [\A r \in Requests :
            InFlight(r) /\ req'[r].phase = "running" =>
               LET k == req[r].key IN
               cache'[k] # cache[k] => req[r].seen <= cache'[k].version]_vars
  BY <1>1
<1> QED BY <1>2, Invariance, PTL DEF Spec, NoOlderThanFound

-----------------------------------------------------------------------------
\* A content reply that is honest now is one the promise allows.
LEMMA HonestServes ==
    ASSUME TypeOK, NEW r \in Requests, NEW k \in Keys, NEW c \in Configs, NEW v,
           NewestWithin(published[k[2]], v, lastFlush, FetchLimit),
           ~c.stale => NewestWithin(published[k[2]], v, now,
                                    MaxTtl[k[1]] + FetchLimit),
           reply' = [reply EXCEPT ![r] = Content(c, k, v)],
           UNCHANGED <<published, now, lastFlush>>
    PROVE  Promise!Serve(r)
<1>1. c.stale \in BOOLEAN
  BY ConfigsAssumption DEF Config
<1>2. v \in 1..Len(published[k[2]])
  BY DEF NewestWithin
<1>3. k \in Namespaces \X Urls
  BY DEF Keys
<1> QED BY <1>1, <1>2, <1>3 DEF Promise!Serve, Promise!NewestWithin, NewestWithin, Content

LEMMA StepPromise == IInv /\ [Next]_vars => [Promise!Next]_(Promise!vars)
<1> SUFFICES ASSUME IInv, [Next]_vars
             PROVE  [Promise!Next]_(Promise!vars)
  OBVIOUS
<1>0. TypeOK /\ ClockInv /\ EntryInv /\ FlightInv
  BY DEF IInv
<1>1. ASSUME NEW r \in Requests, NEW k \in Keys, FetchHit(r, k)
      PROVE  Promise!Serve(r)
  <2>1. req[r].cfg \in Configs
    BY <1>0, <1>1, ReqShapes DEF FetchHit, RunningReqs
  <2>2. cache[k].present /\ cache[k].expires > now /\ CacheGet(k) = cache[k]
    BY <1>0, <1>1, CacheGetLive DEF FetchHit
  <2>3. /\ reply' = [reply EXCEPT ![r] = Content(req[r].cfg, k, cache[k].version)]
        /\ UNCHANGED <<published, now, lastFlush>>
    BY <1>1, <2>2 DEF FetchHit
  <2> QED BY <1>0, <2>1, <2>2, <2>3, ServedFromCache, HonestServes
<1>2. ASSUME NEW r \in Requests, FetchFails(r)
      PROVE  Promise!Serve(r) \/ Promise!Clear(r)
  <2> DEFINE k == req[r].key
  <2>1. k \in Keys /\ req[r].cfg \in Configs
    BY <1>0, <1>2, InFlightShape DEF FetchFails
  <2>2. CASE req[r].cfg.stale /\ cache[k].present
    <3>1. /\ reply' = [reply EXCEPT ![r] = Content(req[r].cfg, k, cache[k].version)]
          /\ UNCHANGED <<published, now, lastFlush>>
      BY <1>2, <2>2 DEF FetchFails, CacheGetStale
    <3> QED BY <1>0, <2>1, <2>2, <3>1, ServedFromCache, HonestServes
  <2>3. CASE ~(req[r].cfg.stale /\ cache[k].present)
    <3>1. /\ reply' = [reply EXCEPT ![r] = Refused]
          /\ UNCHANGED <<published, now, lastFlush>>
      BY <1>2, <2>3 DEF FetchFails, CacheGetStale
    <3> QED BY <3>1 DEF Promise!Clear, Refused
  <2> QED BY <2>2, <2>3
<1>3. ASSUME NEW r \in Requests, FetchSucceeds(r)
      PROVE  Promise!Serve(r)
  <2>1. req[r].key \in Keys /\ req[r].cfg \in Configs
    BY <1>0, <1>3, InFlightShape DEF FetchSucceeds, InFlight
  <2>2. /\ reply' = [reply EXCEPT ![r] = Content(req[r].cfg, req[r].key, req[r].got)]
        /\ UNCHANGED <<published, now, lastFlush>>
    BY <1>3 DEF FetchSucceeds
  <2> QED BY <1>0, <1>3, <2>1, <2>2, ServedFromUpstream, HonestServes
<1>4. ASSUME NEW r \in Requests,
             reply' = [reply EXCEPT ![r] = NoReply] \/ reply' = [reply EXCEPT ![r] = Refused],
             UNCHANGED <<published, now, lastFlush>>
      PROVE  Promise!Clear(r)
  BY <1>4 DEF Promise!Clear, NoReply, Refused
<1>5. ASSUME NEW r \in Requests,
             \/ \E k \in Keys : FetchForbidden(r, k) \/ FetchMiss(r, k)
             \/ Finish(r)
      PROVE  Promise!Clear(r)
  BY <1>4, <1>5 DEF FetchForbidden, FetchMiss, Finish
<1>6. ASSUME NEW r \in Requests, Accept(r) \/ UpstreamAnswers(r)
      PROVE  UNCHANGED Promise!vars
  BY <1>6 DEF Accept, UpstreamAnswers, Promise!vars
<1>7. CASE FlushCache
  BY <1>7 DEF FlushCache, Promise!Flush, Promise!Next
<1>8. ASSUME NEW u \in Urls, Publish(u)
      PROVE  Promise!Next
  BY <1>8 DEF Publish, Promise!Publish, Promise!Next
<1>9. CASE Tick
  BY <1>9 DEF Tick, Promise!Tick, Promise!Next
<1>10. CASE UNCHANGED vars
  BY <1>10 DEF vars, Promise!vars
<1>11. (\E r \in Requests : Promise!Serve(r) \/ Promise!Clear(r)) => Promise!Next
  BY DEF Promise!Next
<1> QED BY <1>1, <1>2, <1>3, <1>5, <1>6, <1>7, <1>8, <1>9, <1>10, <1>11 DEF Next

\* The server's cached fetches implement the promise: every fetch looks like an
\* atomic read of a version that was the newest recently enough.
THEOREM Refinement == Spec => ImplementsPromise
<1>1. Init => Promise!Init
  BY DEF Init, Promise!Init, NoReply
<1> QED BY <1>1, StepPromise, Invariance, PTL DEF Spec, ImplementsPromise, Promise!Spec
=============================================================================
