----------------------------- MODULE TokenCache -----------------------------
(***************************************************************************)
(* The cache of one short-lived credential (apis/src/token_cache.rs), as the *)
(* GCP and Azure filters use it: a request takes the cached token under the  *)
(* read lock, or waits for the write lock, looks again, and fetches one.     *)
(* tokio's RwLock serves its queue in order.  The token endpoint is          *)
(* external: it issues a token of some lifetime and the reply takes time, or *)
(* it fails, or its timeout passes.  A request may be dropped at any await.  *)
(*                                                                           *)
(* The cache counts a token's lifetime from the reply; the issuer counts it  *)
(* from the issue.  Building and parsing the token requests is left out.     *)
(***************************************************************************)
EXTENDS Naturals, Sequences, FiniteSets

CONSTANTS
    Users, NoToken,
    Margin,     \* EXPIRY_SKEW
    Lifetimes,  \* lifetimes the endpoint may give, expires_in
    RoundTrip,  \* TOKEN_REQUEST_TIMEOUT
    MaxSeconds     \* bound on time

(* Durations are whole numbers of seconds. *)
CacheConstants == Margin \in Nat /\ Lifetimes \subseteq Nat /\ NoToken \notin Users

ASSUME TokenAssumption == CacheConstants

VARIABLES
    time,
    cache,      \* the cached entry, or NoToken
    queue,      \* who waits for the lock, in order, and for which kind
    writer,     \* who holds the write lock, or NoToken
    at,         \* at[u]: where the request is
    fetched,    \* the fetch under way: since when, and the token once issued
    got         \* got[u]: the token u uses, and when it took it

tokenVars == <<time, cache, queue, writer, at, fetched, got>>

NoFetch == [since |-> 0, token |-> NoToken]

TokenInit ==
    /\ time = 0 /\ cache = NoToken /\ queue = <<>> /\ writer = NoToken /\ fetched = NoFetch
    /\ at = [u \in Users |-> "idle"] /\ got = [u \in Users |-> NoToken]

\* Defect: a short-lived token is cached for longer than it lives.
effective_margin_none(ttl) == 0

effective_margin(ttl) == IF Margin < ttl \div 2 THEN Margin ELSE ttl \div 2

Valid(entry) == entry # NoToken /\ entry.expiresAt > time

\* A cached token is handed out, with the time.
Take(u, entry) ==
    got' = [got EXCEPT ![u] = [token |-> entry.token, time |-> time, late |-> entry.late]]

-----------------------------------------------------------------------------
(***************************************************************************)
(* get_or_refresh.                                                           *)
(***************************************************************************)
Call(u) ==
    /\ at[u] = "idle" /\ at' = [at EXCEPT ![u] = "queued"]
    /\ queue' = Append(queue, [user |-> u, lock |-> "read"])
    /\ got' = [got EXCEPT ![u] = NoToken]
    /\ UNCHANGED <<time, cache, writer, fetched>>

\* The fast path: a valid token, or on to the write lock.
Read(u) ==
    /\ queue # <<>> /\ Head(queue) = [user |-> u, lock |-> "read"] /\ writer = NoToken
    /\ IF Valid(cache)
       THEN /\ at' = [at EXCEPT ![u] = "idle"] /\ Take(u, cache) /\ queue' = Tail(queue)
       ELSE /\ queue' = Append(Tail(queue), [user |-> u, lock |-> "write"])
            /\ UNCHANGED <<at, got>>
    /\ UNCHANGED <<time, cache, writer, fetched>>

\* Under the write lock the cache is looked at again before the fetch.
WriteLocked(u) ==
    IF Valid(cache)
    THEN at' = [at EXCEPT ![u] = "idle"] /\ Take(u, cache) /\ UNCHANGED <<writer, fetched>>
    ELSE /\ at' = [at EXCEPT ![u] = "fetch"] /\ writer' = u
         /\ fetched' = [NoFetch EXCEPT !.since = time] /\ UNCHANGED got

Write(u) ==
    /\ queue # <<>> /\ Head(queue) = [user |-> u, lock |-> "write"] /\ writer = NoToken
    /\ queue' = Tail(queue) /\ WriteLocked(u)
    /\ UNCHANGED <<time, cache>>

Issue(ttl) ==
    /\ writer # NoToken /\ fetched.token = NoToken
    /\ fetched' = [fetched EXCEPT !.token = [issued |-> time, ttl |-> ttl]]
    /\ UNCHANGED <<time, cache, queue, writer, at, got>>

\* The reply arrives: the token is cached and used.
Cached(token) ==
    [token |-> token, expiresAt |-> time + token.ttl - effective_margin(token.ttl),
     late |-> time - token.issued]

Reply ==
    /\ writer # NoToken /\ fetched.token # NoToken
    /\ cache' = Cached(fetched.token) /\ Take(writer, cache')
    /\ at' = [at EXCEPT ![writer] = "idle"] /\ writer' = NoToken /\ fetched' = NoFetch
    /\ UNCHANGED <<time, queue>>

\* The fetch fails, or its timeout passes: nothing is cached, the request is
\* rejected (503) and the next in the queue tries for itself.
FetchFails ==
    /\ writer # NoToken
    /\ at' = [at EXCEPT ![writer] = "idle"] /\ writer' = NoToken /\ fetched' = NoFetch
    /\ UNCHANGED <<time, cache, queue, got>>

Without(q, p) == SubSeq(q, 1, p - 1) \o SubSeq(q, p + 1, Len(q))

\* The request is dropped while it waits or fetches: its place in the queue goes,
\* or its lock and the fetch with it.
Dropped(u) ==
    /\ \/ /\ at[u] = "queued"
          /\ \E p \in DOMAIN queue :
                /\ queue[p].user = u
                /\ queue' = Without(queue, p)
          /\ UNCHANGED <<writer, fetched>>
       \/ /\ at[u] = "fetch"
          /\ writer' = NoToken /\ fetched' = NoFetch /\ UNCHANGED queue
    /\ at' = [at EXCEPT ![u] = "idle"]
    /\ UNCHANGED <<time, cache, got>>

TimePasses ==
    /\ time < MaxSeconds /\ time' = time + 1
    /\ writer # NoToken => time < fetched.since + RoundTrip
    /\ UNCHANGED <<cache, queue, writer, at, fetched, got>>

TokenNext ==
    \/ \E u \in Users : Call(u) \/ Read(u) \/ Write(u) \/ Dropped(u)
    \/ \E ttl \in Lifetimes : Issue(ttl)
    \/ Reply \/ FetchFails \/ TimePasses

TokenSpec == TokenInit /\ [][TokenNext]_tokenVars

-----------------------------------------------------------------------------
(***************************************************************************)
(* A token taken from the cache is never past the issuer's expiry, if its    *)
(* reply took no longer than the safety margin and half its lifetime.  No    *)
(* token is fetched while a valid one is cached, however many requests found *)
(* the cache stale together, and nobody who gives up keeps the lock or a     *)
(* place in its queue.                                                       *)
(***************************************************************************)
TokensFresh ==
    /\ \A u \in Users : got[u] # NoToken /\ got[u].time > got[u].token.issued + got[u].late =>
          LET t == got[u].token
          IN  got[u].late <= Margin /\ 2 * got[u].late <= t.ttl =>
                  got[u].time < t.issued + t.ttl
    /\ writer # NoToken => ~Valid(cache)
    /\ \A u \in Users : at[u] = "fetch" <=> writer = u
    /\ \A u \in Users : Cardinality({i \in DOMAIN queue : queue[i].user = u})
                          = IF at[u] = "queued" THEN 1 ELSE 0
=============================================================================
