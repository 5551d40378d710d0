------------------------- MODULE UpstreamFetchProofs -------------------------
(***************************************************************************)
(* Proofs of the safety properties of UpstreamFetch, for any number of      *)
(* fetchers, any hosts, addresses and settings, and any redirects.          *)
(***************************************************************************)
EXTENDS UpstreamFetch, TLAPS

USE UrlsAssumption, AnswersAssumption, PoliciesAssumption, LookupAssumption

-----------------------------------------------------------------------------
\* The inductive invariant.

\* A client is what its key says: it can be shared by that key.
Keyed(c) == c.key = <<c.host, c.addrs, c.connect, c.request>>

\* What a fetch talks to and takes.
Contact(f) ==
    /\ Valid(f.url, f.policy)
    /\ Vetted(f.found, f.policy)
    /\ f.at \subseteq f.found
    /\ f.st \in {"lookup", "build", "connect"} => f.at = {}
    /\ f.size <= f.policy.bytes

InRequest(f) == f.st \in {"connect", "wait", "body"}

\* The client it goes through.
Own(f) ==
    InRequest(f) =>
        /\ f.client.host = f.url.host
        /\ f.client.addrs = f.found
        /\ f.client.connect = f.policy.connect
        /\ f.client.request = f.policy.request

\* The time it has taken: the full limit for each earlier request, and for the
\* present one what has been used of it.
HopLimit(f) == LookupLimit + f.policy.request
Timed(f) ==
    /\ f.hop <= f.policy.redirects
    /\ InRequest(f) =>
          f.used <= f.policy.request /\ f.spent <= f.hop * HopLimit(f) + LookupLimit + f.used
    /\ ~InRequest(f) =>
          f.used <= LookupLimit /\ f.spent <= f.hop * HopLimit(f) + f.used

Idle == [st : {"idle"}, result : Results \ {"unprocessed"}]
Sound(f) == f \in FetchType /\ Contact(f) /\ Own(f) /\ Timed(f)

IInv ==
    /\ TypeOK
    /\ \A c \in clients : Keyed(c)
    /\ \A p \in Fetchers : fetch[p] \in Idle \/ Sound(fetch[p])

-----------------------------------------------------------------------------
\* A policy's limits are numbers.
LEMMA PolicyType ==
    ASSUME NEW policy \in Policies
    PROVE  /\ policy.redirects \in Nat /\ policy.bytes \in Nat
           /\ policy.connect \in Nat /\ policy.request \in Nat
OBVIOUS

\* An active fetch is sound, and it is typed.
LEMMA ActiveSound ==
    ASSUME IInv, NEW p \in Fetchers, fetch[p].st # "idle"
    PROVE  Sound(fetch[p])
BY DEF IInv, Idle

\* If one fetch goes on as something sound and the clients stay, all is well.
LEMMA GoKeeps ==
    ASSUME IInv, NEW p \in Fetchers, NEW f, f \in Idle \/ Sound(f),
           Go(p, f), clients' = clients
    PROVE  IInv'
<1>1. fetch' \in [Fetchers -> FetchType \cup [st : {"idle"}, result : Results]]
  BY DEF IInv, TypeOK, Go, Idle, Sound
<1>2. \A q \in Fetchers : fetch'[q] \in Idle \/ Sound(fetch'[q])
  BY DEF IInv, TypeOK, Go
<1> QED  BY <1>1, <1>2 DEF IInv, TypeOK

\* The same for a fetch that ends, but for the error after the loop.
LEMMA EndKeeps ==
    ASSUME IInv, NEW p \in Fetchers, NEW result \in Results \ {"unprocessed"},
           Go(p, Ended(result)), clients' = clients
    PROVE  IInv'
<1>1. Ended(result) \in Idle
  BY DEF Ended, Idle
<1> QED  BY <1>1, GoKeeps

\* What the top of the loop makes of a request that is not one too many.
LEMMA EnterSound ==
    ASSUME NEW url \in Urls, NEW hop \in Nat, NEW policy \in Policies, NEW spent \in Nat,
           hop <= policy.redirects, spent <= hop * (LookupLimit + policy.request)
    PROVE  Enter(url, hop, policy, spent) \in Idle \/ Sound(Enter(url, hop, policy, spent))
<1> DEFINE f == Enter(url, hop, policy, spent)
<1>0. policy.redirects \in Nat /\ policy.bytes \in Nat /\ policy.request \in Nat
  BY PolicyType
<1>1. CASE ~Valid(url, policy)
  <2>1. f = Ended("failed")
    BY <1>0, <1>1 DEF Enter
  <2> QED  BY <2>1 DEF Ended, Idle, Results
<1>2. CASE Valid(url, policy)
  <2>1. f = [st |-> "lookup", url |-> url, hop |-> hop, policy |-> policy, found |-> {},
             client |-> NoClient, at |-> {}, size |-> 0, used |-> 0, spent |-> spent]
    BY <1>0, <1>2 DEF Enter
  <2>2. f \in FetchType
    BY <2>1 DEF FetchType
  <2>3. Contact(f) /\ Own(f)
    BY <2>1, <1>0, <1>2 DEF Contact, Own, InRequest, Vetted
  <2>4. Timed(f)
    BY <2>1, <1>0 DEF Timed, HopLimit, InRequest
  <2> QED  BY <2>2, <2>3, <2>4 DEF Sound
<1> QED  BY <1>1, <1>2

\* A request is sent through a client with the fetch's own key.
LEMMA RequestSound ==
    ASSUME NEW f, Sound(f), f.st \in {"lookup", "build"},
           NEW found \in SUBSET Addresses, Vetted(found, f.policy),
           NEW c \in ClientType, Keyed(c), c.key = Key(f.url.host, found, f.policy)
    PROVE  Sound(Request(f, found, c))
<1> DEFINE g == Request(f, found, c)
<1>1. f \in FetchType /\ f.policy \in Policies /\ f.used \in Nat /\ f.spent \in Nat /\ f.hop \in Nat
  BY DEF Sound, FetchType
<1>2. g \in FetchType
  BY <1>1 DEF Request, FetchType
<1>3. /\ g.st = "connect" /\ g.found = found /\ g.client = c /\ g.used = 0
      /\ g.url = f.url /\ g.policy = f.policy /\ g.hop = f.hop /\ g.spent = f.spent
      /\ g.at = f.at /\ g.size = f.size
  BY <1>1 DEF Request, FetchType
<1> HIDE DEF g
<1>4. c.host = f.url.host /\ c.addrs = found /\ c.connect = f.policy.connect
      /\ c.request = f.policy.request
  BY DEF Keyed, Key
<1>5. Contact(g)
  BY <1>3 DEF Contact, Sound
<1>6. Own(g)
  BY <1>3, <1>4 DEF Own
<1>7. Timed(g)
  <2>1. f.policy.request \in Nat
    BY <1>1, PolicyType
  <2> DEFINE spentBefore == f.hop * HopLimit(f)
  <2>2. spentBefore \in Nat
    BY <1>1, <2>1 DEF HopLimit
  <2>3. f.hop <= f.policy.redirects /\ f.used <= LookupLimit /\ f.spent <= spentBefore + f.used
    BY DEF Sound, Timed, InRequest
  <2>4. g.hop * HopLimit(g) = spentBefore
    BY <1>3 DEF HopLimit
  <2> HIDE DEF spentBefore
  <2> QED  BY <1>1, <1>3, <2>1, <2>2, <2>3, <2>4 DEF Timed, InRequest
<1>8. Sound(g)
  BY <1>2, <1>5, <1>6, <1>7 DEF Sound
<1> QED  BY <1>8 DEF g

-----------------------------------------------------------------------------
\* The steps of one fetch.

LEMMA InitHolds == Init => IInv
BY DEF Init, IInv, TypeOK, Ended, Idle, Results

LEMMA BeginKeeps ==
    ASSUME IInv, NEW p \in Fetchers, NEW url \in Urls, NEW policy \in Policies,
           Begin(p, url, policy)
    PROVE  IInv'
<1>1. 0 <= policy.redirects /\ 0 <= 0 * (LookupLimit + policy.request)
  BY PolicyType
<1>2. Enter(url, 0, policy, 0) \in Idle \/ Sound(Enter(url, 0, policy, 0))
  BY <1>1, EnterSound
<1> QED  BY <1>2, GoKeeps DEF Begin

LEMMA ResolveKeeps ==
    ASSUME IInv, NEW p \in Fetchers, Resolve(p)
    PROVE  IInv'
<1>1. CASE LookupFails(p)
  BY <1>1, EndKeeps DEF LookupFails, End, Results
<1>2. ASSUME NEW found \in Answers, LookupBlocked(p, found)
      PROVE  IInv'
  BY <1>2, EndKeeps DEF LookupBlocked, End, Results
<1>3. ASSUME NEW found \in Answers, ReusesClient(p, found)
      PROVE  IInv'
  <2>1. Sound(fetch[p]) /\ fetch[p].st = "lookup" /\ Vetted(found, fetch[p].policy)
    BY <1>3, ActiveSound DEF ReusesClient, At
  <2>2. PICK c \in clients : /\ c.key = Key(fetch[p].url.host, found, fetch[p].policy)
                             /\ Go(p, Request(fetch[p], found, c))
    BY <1>3 DEF ReusesClient
  <2>3. c \in ClientType /\ Keyed(c) /\ found \in SUBSET Addresses
    BY DEF IInv, TypeOK
  <2>4. Sound(Request(fetch[p], found, c))
    BY <2>1, <2>2, <2>3, RequestSound
  <2> QED  BY <1>3, <2>2, <2>4, GoKeeps DEF ReusesClient
<1>4. ASSUME NEW found \in Answers, MissesClient(p, found)
      PROVE  IInv'
  <2> DEFINE f == fetch[p]
             g == [f EXCEPT !.st = "build", !.found = found]
  <2>1. Sound(f) /\ f.st = "lookup" /\ Vetted(found, f.policy)
    BY <1>4, ActiveSound DEF MissesClient, At
  <2>2. f \in FetchType /\ found \in SUBSET Addresses
    BY <2>1 DEF Sound
  <2>3. g \in FetchType
    BY <2>2 DEF FetchType
  <2>4. /\ g.st = "build" /\ g.found = found /\ g.client = f.client /\ g.used = f.used
        /\ g.url = f.url /\ g.policy = f.policy /\ g.hop = f.hop /\ g.spent = f.spent
        /\ g.at = f.at /\ g.size = f.size
    BY <2>2 DEF FetchType
  <2>5. Go(p, g) /\ clients' = clients
    BY <1>4 DEF MissesClient
  <2> HIDE DEF g, f
  <2>6. Contact(g) /\ Own(g) /\ Timed(g)
    BY <2>1, <2>4 DEF Sound, Contact, Own, Timed, InRequest, HopLimit
  <2> QED  BY <2>3, <2>5, <2>6, GoKeeps DEF Sound
<1> QED  BY <1>1, <1>2, <1>3, <1>4 DEF Resolve

\* A client that is built is keyed by what it is built from.
LEMMA BuildKeeps ==
    ASSUME IInv, NEW p \in Fetchers, Build(p)
    PROVE  IInv'
<1>1. CASE BuildFails(p)
  BY <1>1, EndKeeps DEF BuildFails, End, Results
<1>2. CASE BuildsClient(p)
  <2> DEFINE f == fetch[p]
             new == Client(f.url.host, f.found, f.policy)
             g == Request(f, f.found, new)
  <2>1. Sound(f) /\ f.st = "build"
    BY <1>2, ActiveSound DEF BuildsClient, At
  <2>2. f \in FetchType /\ Vetted(f.found, f.policy)
    BY <2>1 DEF Sound, Contact
  <2>3. f.url.host \in Hosts /\ f.found \in SUBSET Addresses
        /\ f.policy.connect \in Nat /\ f.policy.request \in Nat
    BY <2>2 DEF FetchType
  <2>4. new \in ClientType /\ Keyed(new) /\ new.key = Key(f.url.host, f.found, f.policy)
    BY <2>3 DEF Client, Key, ClientType, Keyed
  <2>5. clients' = {c \in clients : c.key # new.key} \cup {new} /\ Go(p, g)
    BY <1>2 DEF BuildsClient
  <2> HIDE DEF new
  <2>6. Sound(g)
    BY <2>1, <2>2, <2>3, <2>4, RequestSound
  <2> HIDE DEF g, f
  <2>7. clients' \subseteq ClientType /\ \A c \in clients' : Keyed(c)
    BY <2>4, <2>5 DEF IInv, TypeOK
  <2>8. fetch' \in [Fetchers -> FetchType \cup [st : {"idle"}, result : Results]]
    BY <2>5, <2>6 DEF IInv, TypeOK, Go, Sound
  <2>9. \A q \in Fetchers : fetch'[q] \in Idle \/ Sound(fetch'[q])
    BY <2>5, <2>6 DEF IInv, TypeOK, Go
  <2> QED  BY <2>7, <2>8, <2>9 DEF IInv, TypeOK
<1> QED  BY <1>1, <1>2 DEF Build

LEMMA ExchangeKeeps ==
    ASSUME IInv, NEW p \in Fetchers, Exchange(p)
    PROVE  IInv'
<1> DEFINE f == fetch[p]
<1>1. ASSUME NEW a \in Addresses, Connects(p, a)
      PROVE  IInv'
  <2> DEFINE g == [f EXCEPT !.st = "wait", !.at = {a}]
  <2>1. Sound(f) /\ f.st = "connect" /\ f \in FetchType
    BY <1>1, ActiveSound DEF Connects, At, Sound
  <2>2. a \in f.found
    BY <1>1, <2>1 DEF Connects, Targets, Sound, Own, InRequest
  <2>3. g \in FetchType
    BY <2>1 DEF FetchType
  <2>4. /\ g.st = "wait" /\ g.found = f.found /\ g.client = f.client /\ g.used = f.used
        /\ g.url = f.url /\ g.policy = f.policy /\ g.hop = f.hop /\ g.spent = f.spent
        /\ g.at = {a} /\ g.size = f.size
    BY <2>1 DEF FetchType
  <2>5. Go(p, g) /\ clients' = clients
    BY <1>1 DEF Connects
  <2> HIDE DEF g, f
  <2>6. Contact(g) /\ Own(g) /\ Timed(g)
    BY <2>1, <2>2, <2>4 DEF Sound, Contact, Own, Timed, InRequest, HopLimit
  <2> QED  BY <2>3, <2>5, <2>6, GoKeeps DEF Sound
<1>2. CASE Fails(p) \/ RedirectFails(p)
  BY <1>2, EndKeeps DEF Fails, RedirectFails, End, Results
<1>3. CASE Responds(p)
  <2> DEFINE g == [f EXCEPT !.st = "body"]
  <2>1. Sound(f) /\ f.st = "wait" /\ f \in FetchType
    BY <1>3, ActiveSound DEF Responds, At, Sound
  <2>2. g \in FetchType
    BY <2>1 DEF FetchType
  <2>3. /\ g.st = "body" /\ g.found = f.found /\ g.client = f.client /\ g.used = f.used
        /\ g.url = f.url /\ g.policy = f.policy /\ g.hop = f.hop /\ g.spent = f.spent
        /\ g.at = f.at /\ g.size = f.size
    BY <2>1 DEF FetchType
  <2>4. (Go(p, g) \/ Go(p, Ended("failed"))) /\ clients' = clients
    BY <1>3 DEF Responds
  <2> HIDE DEF g, f
  <2>5. Sound(g)
    BY <2>1, <2>2, <2>3 DEF Sound, Contact, Own, Timed, InRequest, HopLimit
  <2> QED  BY <2>4, <2>5, GoKeeps, EndKeeps DEF Results
<1>4. CASE Chunk(p)
  <2> DEFINE g == [f EXCEPT !.size = @ + 1]
  <2>1. Sound(f) /\ f.st = "body" /\ f \in FetchType /\ f.policy.bytes \in Nat
    BY <1>4, ActiveSound, PolicyType DEF Chunk, At, Sound, FetchType
  <2>2. g \in FetchType
    BY <2>1 DEF FetchType
  <2>3. /\ g.st = "body" /\ g.found = f.found /\ g.client = f.client /\ g.used = f.used
        /\ g.url = f.url /\ g.policy = f.policy /\ g.hop = f.hop /\ g.spent = f.spent
        /\ g.at = f.at /\ g.size = f.size + 1
    BY <2>1 DEF FetchType
  <2>4. \/ Go(p, Ended("failed")) /\ clients' = clients
        \/ f.size + 1 <= f.policy.bytes /\ Go(p, g) /\ clients' = clients
    BY <1>4 DEF Chunk
  <2> HIDE DEF g, f
  <2>5. f.size + 1 <= f.policy.bytes => Sound(g)
    BY <2>1, <2>2, <2>3 DEF Sound, Contact, Own, Timed, InRequest, HopLimit
  <2> QED  BY <2>4, <2>5, GoKeeps, EndKeeps DEF Results
<1>5. CASE Completes(p)
  BY <1>5, EndKeeps DEF Completes, Results
<1>6. ASSUME NEW url \in Urls, Redirects(p, url)
      PROVE  IInv'
  <2> DEFINE r == f.policy.request
             before == f.hop * (LookupLimit + r)
  <2>1. Sound(f) /\ f.st = "wait" /\ f.policy \in Policies /\ f.hop \in Nat
        /\ f.spent \in Nat /\ f.used \in Nat
    BY <1>6, ActiveSound DEF Redirects, At, Sound, FetchType
  <2>2. r \in Nat /\ f.policy.redirects \in Nat
    BY <2>1, PolicyType
  <2>3. f.hop + 1 <= f.policy.redirects
    BY <1>6, <2>1, <2>2 DEF Redirects, LastHop, Sound, Timed
  <2>4. f.used <= r /\ f.spent <= before + LookupLimit + f.used
    BY <2>1 DEF Sound, Timed, InRequest, HopLimit
  <2>5. before \in Nat /\ (f.hop + 1) * (LookupLimit + r) = before + LookupLimit + r
    <3> DEFINE n == f.hop
               h == LookupLimit + r
    <3>1. n \in Nat /\ h \in Nat
      BY <2>1, <2>2
    <3> HIDE DEF n, h
    <3>2. n * h \in Nat /\ (n + 1) * h = n * h + h
      BY <3>1
    <3> QED  BY <2>2, <3>1, <3>2 DEF n, h
  <2>6. Go(p, Enter(url, f.hop + 1, f.policy, f.spent)) /\ clients' = clients
    BY <1>6 DEF Redirects
  <2> HIDE DEF before, r
  <2>7. f.spent <= before + LookupLimit + r
    BY <2>1, <2>2, <2>4, <2>5
  <2>8. f.spent <= (f.hop + 1) * (LookupLimit + f.policy.request)
    BY <2>5, <2>7 DEF r
  <2> HIDE DEF f
  <2>9. \/ Enter(url, f.hop + 1, f.policy, f.spent) \in Idle
        \/ Sound(Enter(url, f.hop + 1, f.policy, f.spent))
    BY <2>1, <2>3, <2>8, EnterSound
  <2> QED  BY <2>6, <2>9, GoKeeps
<1> QED  BY <1>1, <1>2, <1>3, <1>4, <1>5, <1>6 DEF Exchange

\* Time passes for all fetches at once, and for none beyond its limit.
LEMMA TickKeeps ==
    ASSUME IInv, Tick
    PROVE  IInv'
<1>1. ASSUME NEW p \in Fetchers, Active(p)
      PROVE  Sound(Aged(fetch[p]))
  <2> DEFINE f == fetch[p]
             g == Aged(f)
  <2>1. Sound(f) /\ f \in FetchType /\ MayWait(f)
    BY <1>1, ActiveSound DEF Tick, Active, Sound
  <2>2. g \in FetchType
    <3>1. f.used + 1 \in Nat /\ f.spent + 1 \in Nat
      BY <2>1 DEF FetchType
    <3>2. g = [f EXCEPT !.used = f.used + 1, !.spent = f.spent + 1]
      BY DEF Aged
    <3> HIDE DEF g
    <3> QED  BY <2>1, <3>1, <3>2 DEF FetchType
  <2>3. /\ g.st = f.st /\ g.found = f.found /\ g.client = f.client /\ g.used = f.used + 1
        /\ g.url = f.url /\ g.policy = f.policy /\ g.hop = f.hop /\ g.spent = f.spent + 1
        /\ g.at = f.at /\ g.size = f.size
    BY <2>1 DEF FetchType, Aged
  <2>4. /\ f.st \in {"lookup", "build", "connect", "wait", "body"}
        /\ f.used \in Nat /\ f.spent \in Nat /\ f.hop \in Nat
        /\ f.policy.request \in Nat
    BY <2>1 DEF FetchType
  <2> DEFINE before == f.hop * HopLimit(f)
  <2>5. before \in Nat /\ g.hop * HopLimit(g) = before
    BY <2>3, <2>4 DEF HopLimit
  <2> HIDE DEF g, f
  <2>6. Contact(g) /\ Own(g)
    BY <2>1, <2>3 DEF Sound, Contact, Own, InRequest
  <2>7. f.hop <= f.policy.redirects
    BY <2>1 DEF Sound, Timed
  <2>8. ASSUME InRequest(f) PROVE Timed(g)
    <3>1. f.used < f.policy.request
      BY <2>1, <2>4, <2>8 DEF MayWait, Due, Sound, Own, InRequest
    <3>2. f.spent <= before + LookupLimit + f.used
      BY <2>1, <2>8 DEF Sound, Timed
    <3> HIDE DEF before
    <3>3. InRequest(g) /\ g.used <= g.policy.request
      BY <2>3, <2>4, <2>8, <3>1 DEF InRequest
    <3>4. g.spent <= before + LookupLimit + g.used
      BY <2>3, <2>4, <2>5, <3>2
    <3> QED  BY <2>3, <2>5, <2>7, <3>3, <3>4 DEF Timed
  <2>9. ASSUME ~InRequest(f) PROVE Timed(g)
    <3>1. f.used < LookupLimit
      BY <2>1, <2>4, <2>9 DEF MayWait, InRequest
    <3>2. f.spent <= before + f.used
      BY <2>1, <2>9 DEF Sound, Timed
    <3> HIDE DEF before
    <3>3. ~InRequest(g) /\ g.used <= LookupLimit
      BY <2>3, <2>4, <2>9, <3>1 DEF InRequest
    <3>4. g.spent <= before + g.used
      BY <2>3, <2>4, <2>5, <3>2
    <3> QED  BY <2>3, <2>5, <2>7, <3>3, <3>4 DEF Timed
  <2>10. Sound(g)
    BY <2>2, <2>6, <2>8, <2>9 DEF Sound
  <2> QED  BY <2>10 DEF g, f
<1>2. fetch' \in [Fetchers -> FetchType \cup [st : {"idle"}, result : Results]]
  BY <1>1 DEF Tick, IInv, TypeOK, Sound
<1>3. \A p \in Fetchers : fetch'[p] \in Idle \/ Sound(fetch'[p])
  BY <1>1 DEF Tick, IInv
<1>4. clients' \subseteq ClientType /\ \A c \in clients' : Keyed(c)
  BY DEF Tick, IInv, TypeOK
<1> QED  BY <1>2, <1>3, <1>4 DEF IInv, TypeOK

LEMMA StepKeeps == IInv /\ [Next]_vars => IInv'
<1> SUFFICES ASSUME IInv, [Next]_vars PROVE IInv'
  OBVIOUS
<1>1. CASE UNCHANGED vars
  BY <1>1 DEF vars, IInv, TypeOK
<1>2. CASE Tick
  BY <1>2, TickKeeps
<1>3. ASSUME NEW p \in Fetchers, NEW url \in Urls, NEW policy \in Policies,
             Begin(p, url, policy)
      PROVE  IInv'
  BY <1>3, BeginKeeps
<1>4. ASSUME NEW p \in Fetchers, Resolve(p) \/ Build(p) \/ Exchange(p)
      PROVE  IInv'
  BY <1>4, ResolveKeeps, BuildKeeps, ExchangeKeeps
<1>5. ASSUME NEW p \in Fetchers, TimesOut(p) \/ Dropped(p)
      PROVE  IInv'
  BY <1>5, EndKeeps DEF TimesOut, Dropped, End, Results
<1> QED  BY <1>1, <1>2, <1>3, <1>4, <1>5 DEF Next

-----------------------------------------------------------------------------
\* The invariant holds in every state of FsIo's fetches.
THEOREM Invariance == Spec => []IInv
<1> QED  BY InitHolds, StepKeeps, PTL DEF Spec

\* The types of UpstreamFetch.
THEOREM TypeCorrect == Spec => []TypeOK
<1>1. IInv => TypeOK
  BY DEF IInv
<1> QED  BY <1>1, Invariance, PTL

\* A request of FsIo::fetch goes through a client that might have been built for it.
THEOREM ClientsShared == Spec => []OwnClient
<1>1. IInv => OwnClient
  BY ActiveSound DEF OwnClient, Requesting, Sound, Own, Contact, InRequest
<1> QED  BY <1>1, Invariance, PTL

\* A fetch stays within the settings it was made under at every redirect.
THEOREM PolicyKept == Spec => []WithinPolicy
<1>1. IInv => WithinPolicy
  BY ActiveSound DEF WithinPolicy, Active, Sound, Contact, Vetted
<1> QED  BY <1>1, Invariance, PTL

\* A fetch is over within its limit for one request times their number.
THEOREM TimeBounded == Spec => []InTime
<1>1. ASSUME IInv, NEW p \in Fetchers, Active(p)
      PROVE  fetch[p].spent <= FetchLimit(fetch[p].policy)
  <2> DEFINE f == fetch[p]
             h == LookupLimit + f.policy.request
  <2>1. Sound(f)
    BY <1>1, ActiveSound DEF Active
  <2>2. /\ f.hop \in Nat /\ f.used \in Nat /\ f.spent \in Nat
        /\ f.policy.request \in Nat /\ f.policy.redirects \in Nat /\ h \in Nat
    BY <2>1 DEF Sound, FetchType
  <2>3. f.spent <= f.hop * h + h /\ f.hop <= f.policy.redirects
    BY <2>1, <2>2 DEF Sound, Timed, HopLimit
  <2> HIDE DEF h
  <2> DEFINE d == f.policy.redirects - f.hop
  <2>4. d \in Nat /\ f.policy.redirects = f.hop + d
    BY <2>2, <2>3
  <2> HIDE DEF d
  <2>5. (f.policy.redirects + 1) * h = f.hop * h + d * h + h /\ d * h \in Nat
    BY <2>2, <2>4
  <2>6. f.spent <= (f.policy.redirects + 1) * h
    BY <2>2, <2>3, <2>5
  <2> QED  BY <2>6 DEF FetchLimit, h
<1>2. IInv => InTime
  BY <1>1 DEF InTime
<1> QED  BY <1>2, Invariance, PTL

\* The error after the loop of FsIo::fetch is never returned.
THEOREM LoopNeverFallsThrough == Spec => []LoopAnswers
<1>1. IInv => LoopAnswers
  BY DEF IInv, LoopAnswers, Active, Idle, Sound, FetchType
<1> QED  BY <1>1, Invariance, PTL
=============================================================================
