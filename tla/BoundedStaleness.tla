-------------------------- MODULE BoundedStaleness --------------------------
(***************************************************************************)
(* What the cached fetches of the server promise their callers, with no     *)
(* cache in sight: upstreams publish versions, the administrator flushes,   *)
(* and each fetch either fails or returns, at once, a version that was the  *)
(* newest recently enough.  FetchCache implements this.                     *)
(***************************************************************************)
EXTENDS Integers, Sequences

CONSTANTS Requests, Urls, Namespaces, MaxTtl, FetchLimit, MaxTime, MaxVersion

VARIABLES
    reply,      \* what each handler's latest fetch returned
    published,  \* per URL, the times at which its versions appeared
    now,
    lastFlush

vars == <<reply, published, now, lastFlush>>

\* Version v of a history h was the newest at some moment no earlier than
\* `slack` before t.
NewestWithin(h, v, t, slack) ==
    /\ v \in 1..Len(h)
    /\ v < Len(h) => h[v + 1] + slack >= t

Init ==
    /\ reply = [r \in Requests |-> [outcome |-> "none"]]
    /\ published = [u \in Urls |-> <<0>>]
    /\ now = 0
    /\ lastFlush = 0

\* A handler that accepts stale copies is only promised that what it gets was
\* fetched no earlier than one fetch before the latest flush.
Serve(r) ==
    /\ \E k \in Namespaces \X Urls, lenient \in BOOLEAN :
         \E v \in 1..Len(published[k[2]]) :
            /\ NewestWithin(published[k[2]], v, lastFlush, FetchLimit)
            /\ ~lenient => NewestWithin(published[k[2]], v, now,
                                        MaxTtl[k[1]] + FetchLimit)
            /\ reply' = [reply EXCEPT ![r] =
                           [outcome |-> "content", key |-> k, version |-> v,
                            at |-> now, flush |-> lastFlush, lenient |-> lenient]]
    /\ UNCHANGED <<published, now, lastFlush>>

\* A fetch fails, or a handler is done with its latest reply.
Clear(r) ==
    /\ reply' \in {[reply EXCEPT ![r] = [outcome |-> o]] : o \in {"none", "error"}}
    /\ UNCHANGED <<published, now, lastFlush>>

Flush ==
    /\ lastFlush' = now
    /\ UNCHANGED <<reply, published, now>>

Publish(u) ==
    /\ Len(published[u]) < MaxVersion
    /\ published' = [published EXCEPT ![u] = Append(@, now)]
    /\ UNCHANGED <<reply, now, lastFlush>>

Tick ==
    /\ now < MaxTime
    /\ now' = now + 1
    /\ UNCHANGED <<reply, published, lastFlush>>

Next ==
    \/ \E r \in Requests : Serve(r) \/ Clear(r)
    \/ Flush
    \/ \E u \in Urls : Publish(u)
    \/ Tick

Spec == Init /\ [][Next]_vars
=============================================================================
