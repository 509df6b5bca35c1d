--------------------------- MODULE Filters_proofs ---------------------------
(***************************************************************************)
(* Proofs about six parts of the filters: the credential token cache       *)
(* (TokenCache), the routes learned for A2A tasks (A2aTaskRoutes), the     *)
(* connection pool of the Valkey quota backends (TransactionPool), the     *)
(* marker that keeps their quota state apart (AccountingMarker), the       *)
(* overlay of the provider router (RouteOverlay) and the exchange with an  *)
(* external processor (ExtProc).  Each part has its own invariant; they    *)
(* hold for any number of requests, tasks, connections and gateways, and   *)
(* for every margin, limit and configuration.                              *)
(***************************************************************************)
EXTENDS TokenCache, A2aTaskRoutes, RouteOverlay, ExtProc, TransactionPool, AccountingMarker,
        FiniteSums, SequenceTheorems, TLAPS

-----------------------------------------------------------------------------
(* TokenCache: the inductive invariant                                     *)

Tokens == [issued : Nat, ttl : Lifetimes]
Entries == [token : Tokens, expiresAt : Nat, late : Nat]
Uses == [token : Tokens, time : Nat, late : Nat]
Waiters == [user : Users, lock : {"read", "write"}]

Types ==
  /\ time \in Nat
  /\ cache \in Entries \cup {NoToken}
  /\ queue \in Seq(Waiters)
  /\ writer \in Users \cup {NoToken}
  /\ at \in [Users -> {"idle", "queued", "fetch"}]
  /\ fetched \in [since : Nat, token : Tokens \cup {NoToken}]
  /\ got \in [Users -> Uses \cup {NoToken}]

\* The token under way was issued, the cached one expires its margin before the
\* lifetime counted from the reply has passed.
EntriesDated ==
  /\ fetched.token # NoToken => fetched.token.issued <= time
  /\ cache # NoToken =>
       cache.expiresAt = cache.token.issued + cache.late
                         + (cache.token.ttl - effective_margin(cache.token.ttl))

\* A token is used as it arrives, or before its entry expires.
UsesTimely ==
  \A u \in Users : got[u] # NoToken =>
    \/ got[u].time = got[u].token.issued + got[u].late
    \/ got[u].time < got[u].token.issued + got[u].late
                     + (got[u].token.ttl - effective_margin(got[u].token.ttl))

\* One fetches at a time, under the lock, and only while no cached token is valid.
FetchesNeeded ==
  /\ \A u \in Users : at[u] = "fetch" <=> writer = u
  /\ writer # NoToken => ~Valid(cache)

\* Who waits has exactly one place in the queue, and nobody else has one.
PlacesKept ==
  /\ \A i, j \in DOMAIN queue : queue[i].user = queue[j].user => i = j
  /\ \A i \in DOMAIN queue : at[queue[i].user] = "queued"
  /\ \A u \in Users : at[u] = "queued" => \E i \in DOMAIN queue : queue[i].user = u

CacheInv ==
  /\ CacheConstants /\ Types /\ EntriesDated /\ UsesTimely
  /\ FetchesNeeded /\ PlacesKept

-----------------------------------------------------------------------------
(* Margins and queues                                                      *)

\* The margin is at most the configured one and half of the lifetime; it leaves at
\* least half of it.
LEMMA MarginBounds ==
  ASSUME CacheConstants, NEW ttl \in Nat
  PROVE  /\ effective_margin(ttl) \in Nat /\ effective_margin(ttl) <= ttl
         /\ \A n \in Nat : n <= Margin /\ 2 * n <= ttl => n <= effective_margin(ttl)
<1>1. Margin \in Nat
  BY DEF CacheConstants
<1>2. PICK h \in Nat : h = ttl \div 2 /\ 2 * h <= ttl /\ ttl <= 2 * h + 1
  OBVIOUS
<1>3. effective_margin(ttl) = IF Margin < h THEN Margin ELSE h
  BY <1>2 DEF effective_margin
<1> QED BY <1>1, <1>2, <1>3

\* A part of a queue.
LEMMA PartOfQueue ==
  ASSUME NEW q \in Seq(Waiters), NEW m \in Nat \ {0}, NEW n \in Nat, n <= Len(q), m <= n + 1,
         NEW t, t = SubSeq(q, m, n)
  PROVE  t \in Seq(Waiters) /\ Len(t) = n - m + 1
         /\ \A i \in 1..(n - m + 1) : t[i] = q[m + i - 1]
<1>1. \A i \in m..n : q[i] \in Waiters
  <2>1. Len(q) \in Nat /\ \A i \in 1..Len(q) : q[i] \in Waiters
    BY LenProperties, ElementOfSeq
  <2> QED BY <2>1
<1>2. m \in Int /\ n \in Int
  OBVIOUS
<1>3. /\ t \in Seq(Waiters) /\ Len(t) = IF m <= n THEN n - m + 1 ELSE 0
      /\ \A i \in 1..(n - m + 1) : t[i] = q[m + i - 1]
  BY <1>1, <1>2, SubSeqProperties
<1> QED BY <1>3

\* Leaving: the places of the others keep their order.
LEMMA PlaceLeft ==
  ASSUME NEW q \in Seq(Waiters), NEW p \in 1..Len(q), NEW t, t = Without(q, p)
  PROVE  /\ t \in Seq(Waiters) /\ Len(t) = Len(q) - 1
         /\ \A i \in DOMAIN t :
              \/ i < p /\ i \in DOMAIN q /\ t[i] = q[i]
              \/ ~(i < p) /\ i + 1 \in DOMAIN q /\ t[i] = q[i + 1]
         /\ \A i \in DOMAIN q : i # p =>
              \/ i < p /\ i \in DOMAIN t /\ t[i] = q[i]
              \/ i > p /\ i - 1 \in DOMAIN t /\ t[i - 1] = q[i]
<1>1. PICK n \in Nat : n = Len(q) /\ DOMAIN q = 1..n /\ \A i \in 1..n : q[i] \in Waiters
  BY LenProperties, ElementOfSeq
<1>2. p \in 1..n
  BY <1>1
<1>3. PICK a : a = SubSeq(q, 1, p - 1)
  OBVIOUS
<1>4. PICK b : b = SubSeq(q, p + 1, n)
  OBVIOUS
<1>5. a \in Seq(Waiters) /\ Len(a) = p - 1 /\ \A i \in 1..(p - 1) : a[i] = q[i]
  <2>1. PICK k \in Nat : k = p - 1
    BY <1>2
  <2>2. k <= Len(q) /\ 1 <= k + 1 /\ a = SubSeq(q, 1, k)
    BY <1>1, <1>2, <1>3, <2>1
  <2>3. /\ a \in Seq(Waiters) /\ Len(a) = k - 1 + 1
        /\ \A i \in 1..(k - 1 + 1) : a[i] = q[1 + i - 1]
    BY <2>1, <2>2, PartOfQueue
  <2>4. k - 1 + 1 = k /\ \A i \in 1..k : 1 + i - 1 = i
    OBVIOUS
  <2> QED BY <2>1, <2>3, <2>4
<1>6. b \in Seq(Waiters) /\ Len(b) = n - p /\ \A i \in 1..(n - p) : b[i] = q[p + i]
  <2>1. PICK m \in Nat \ {0} : m = p + 1
    BY <1>2
  <2>2. n <= Len(q) /\ m <= n + 1 /\ b = SubSeq(q, m, n)
    BY <1>1, <1>2, <1>4, <2>1
  <2>3. /\ b \in Seq(Waiters) /\ Len(b) = n - m + 1
        /\ \A i \in 1..(n - m + 1) : b[i] = q[m + i - 1]
    BY <2>1, <2>2, PartOfQueue
  <2>4. n - m + 1 = n - p /\ \A i \in 1..(n - p) : m + i - 1 = p + i
    BY <1>2, <2>1
  <2> QED BY <2>3, <2>4
<1>7. /\ t \in Seq(Waiters) /\ Len(t) = n - 1
      /\ \A i \in 1..(n - 1) : t[i] = IF i < p THEN q[i] ELSE q[i + 1]
  <2>1. t = a \o b
    BY <1>1, <1>3, <1>4 DEF Without
  <2>2. /\ t \in Seq(Waiters) /\ Len(t) = (p - 1) + (n - p)
        /\ \A i \in 1..((p - 1) + (n - p)) :
             t[i] = IF i <= p - 1 THEN a[i] ELSE b[i - (p - 1)]
    <3>1. /\ a \o b \in Seq(Waiters) /\ Len(a \o b) = Len(a) + Len(b)
          /\ \A i \in 1..(Len(a) + Len(b)) :
               (a \o b)[i] = IF i <= Len(a) THEN a[i] ELSE b[i - Len(a)]
      BY <1>5, <1>6, ConcatProperties
    <3> QED BY <1>5, <1>6, <2>1, <3>1
  <2>3. ASSUME NEW i \in 1..(n - 1) PROVE t[i] = IF i < p THEN q[i] ELSE q[i + 1]
    <3>1. CASE i < p
      BY <1>2, <1>5, <2>2, <3>1
    <3>2. CASE ~(i < p)
      <4>1. i - (p - 1) \in 1..(n - p) /\ p + (i - (p - 1)) = i + 1 /\ ~(i <= p - 1)
        BY <1>2, <3>2
      <4> QED BY <1>2, <1>6, <2>2, <3>2, <4>1
    <3> QED BY <3>1, <3>2
  <2> QED BY <1>2, <2>2, <2>3
<1>8. DOMAIN t = 1..(n - 1)
  BY <1>7, LenProperties
<1> QED BY <1>1, <1>2, <1>7, <1>8

\* Who waits is a user.
LEMMA WaitersAreUsers ==
  ASSUME NEW q \in Seq(Waiters), NEW i \in DOMAIN q
  PROVE  q[i].user \in Users
<1>1. q[i] \in Waiters
  BY LenProperties, ElementOfSeq
<1> QED BY <1>1 DEF Waiters

\* Joining at the end, and leaving the front.
LEMMA PlaceTaken ==
  ASSUME NEW q \in Seq(Waiters), NEW w \in Waiters, NEW t, t = Append(q, w)
  PROVE  /\ t \in Seq(Waiters) /\ Len(q) + 1 \in DOMAIN t /\ t[Len(q) + 1] = w
         /\ \A i \in DOMAIN t : (i \in DOMAIN q /\ t[i] = q[i]) \/ i = Len(q) + 1
         /\ \A i \in DOMAIN q : i \in DOMAIN t /\ t[i] = q[i] /\ i # Len(q) + 1
<1>1. Len(q) \in Nat /\ DOMAIN q = 1..Len(q)
  BY LenProperties
<1>2. /\ t \in Seq(Waiters) /\ Len(t) = Len(q) + 1
      /\ \A i \in 1..Len(q) : t[i] = q[i]
      /\ t[Len(q) + 1] = w
  BY AppendProperties
<1>3. DOMAIN t = 1..(Len(q) + 1)
  BY <1>2, LenProperties
<1> QED BY <1>1, <1>2, <1>3

\* Being served first.
LEMMA PlaceServed ==
  ASSUME NEW q \in Seq(Waiters), q # <<>>, NEW t, t = Tail(q)
  PROVE  /\ t \in Seq(Waiters) /\ 1 \in DOMAIN q /\ Head(q) = q[1] /\ q[1] \in Waiters
         /\ \A i \in DOMAIN t : i + 1 \in DOMAIN q /\ t[i] = q[i + 1] /\ i \in Nat /\ i > 0
         /\ \A i \in DOMAIN q : i # 1 => i - 1 \in DOMAIN t /\ t[i - 1] = q[i]
<1>1. Len(q) \in Nat \ {0} /\ DOMAIN q = 1..Len(q) /\ \A i \in 1..Len(q) : q[i] \in Waiters
  BY LenProperties, EmptySeq, ElementOfSeq
<1>2. /\ t \in Seq(Waiters) /\ Len(t) = Len(q) - 1
      /\ \A i \in 1..Len(t) : t[i] = q[i + 1]
  BY HeadTailProperties
<1>3. DOMAIN t = 1..(Len(q) - 1)
  BY <1>2, LenProperties
<1>4. \A i \in DOMAIN q : i # 1 => i - 1 \in DOMAIN t /\ t[i - 1] = q[i]
  <2> SUFFICES ASSUME NEW i \in DOMAIN q, i # 1 PROVE i - 1 \in DOMAIN t /\ t[i - 1] = q[i]
    OBVIOUS
  <2>1. i - 1 \in 1..(Len(q) - 1) /\ (i - 1) + 1 = i
    BY <1>1
  <2> QED BY <1>2, <1>3, <2>1
<1> QED BY <1>1, <1>2, <1>3, <1>4

\* The places when the first in the queue is served.
LEMMA ServedPlaces ==
  ASSUME CacheInv, NEW u \in Users, queue # <<>>, Head(queue).user = u,
         queue' = Tail(queue), NEW where \in {"idle", "fetch"},
         at' = [at EXCEPT ![u] = where]
  PROVE  PlacesKept' /\ queue' \in Seq(Waiters)
<1>1. /\ queue \in Seq(Waiters) /\ at \in [Users -> {"idle", "queued", "fetch"}]
  BY DEF CacheInv, Types
<1>2. /\ queue' \in Seq(Waiters) /\ 1 \in DOMAIN queue /\ queue[1].user = u
      /\ \A i \in DOMAIN queue' :
           i + 1 \in DOMAIN queue /\ queue'[i] = queue[i + 1] /\ i \in Nat /\ i > 0
      /\ \A i \in DOMAIN queue : i # 1 => i - 1 \in DOMAIN queue' /\ queue'[i - 1] = queue[i]
  BY <1>1, PlaceServed
<1>3. \A i \in DOMAIN queue' : queue'[i].user # u
  <2> TAKE i \in DOMAIN queue'
  <2>1. i + 1 # 1 /\ i + 1 \in DOMAIN queue /\ queue'[i] = queue[i + 1]
    BY <1>2
  <2> QED BY <1>2, <2>1 DEF CacheInv, PlacesKept
<1>4. \A i, j \in DOMAIN queue' : queue'[i].user = queue'[j].user => i = j
  <2> SUFFICES ASSUME NEW i \in DOMAIN queue', NEW j \in DOMAIN queue',
                      queue'[i].user = queue'[j].user
               PROVE  i = j
    OBVIOUS
  <2>1. i + 1 = j + 1
    BY <1>2 DEF CacheInv, PlacesKept
  <2> QED BY <1>2, <2>1
<1>5. \A i \in DOMAIN queue' : at'[queue'[i].user] = "queued"
  <2> TAKE i \in DOMAIN queue'
  <2>1. at[queue'[i].user] = "queued"
    BY <1>2 DEF CacheInv, PlacesKept
  <2>2. queue'[i].user \in Users
    BY <1>2, WaitersAreUsers
  <2> QED BY <1>1, <1>3, <2>1, <2>2
<1>6. ASSUME NEW v \in Users, at'[v] = "queued"
      PROVE  \E i \in DOMAIN queue' : queue'[i].user = v
  <2>1. v # u /\ at[v] = "queued"
    BY <1>1, <1>6
  <2>2. PICK i \in DOMAIN queue : queue[i].user = v
    BY <2>1 DEF CacheInv, PlacesKept
  <2>3. i # 1
    BY <1>2, <2>1, <2>2
  <2> QED BY <1>2, <2>2, <2>3
<1> QED BY <1>2, <1>4, <1>5, <1>6 DEF PlacesKept

\* The places when somebody joins.
LEMMA JoinedPlaces ==
  ASSUME CacheInv, NEW u \in Users, NEW q \in Seq(Waiters),
         \A i \in DOMAIN q : \E j \in DOMAIN queue : q[i].user = queue[j].user,
         \A i, j \in DOMAIN q : q[i].user = q[j].user => i = j,
         \A i \in DOMAIN q : q[i].user # u,
         \A v \in Users : at[v] = "queued" /\ v # u => \E i \in DOMAIN q : q[i].user = v,
         NEW lock \in {"read", "write"},
         queue' = Append(q, [user |-> u, lock |-> lock]), at' = [at EXCEPT ![u] = "queued"]
  PROVE  PlacesKept' /\ queue' \in Seq(Waiters)
<1>1. /\ queue \in Seq(Waiters) /\ at \in [Users -> {"idle", "queued", "fetch"}]
  BY DEF CacheInv, Types
<1>2. PICK w \in Waiters : w = [user |-> u, lock |-> lock]
  BY DEF Waiters
<1>3. /\ queue' \in Seq(Waiters) /\ Len(q) + 1 \in DOMAIN queue' /\ queue'[Len(q) + 1] = w
      /\ \A i \in DOMAIN queue' : (i \in DOMAIN q /\ queue'[i] = q[i]) \/ i = Len(q) + 1
      /\ \A i \in DOMAIN q : i \in DOMAIN queue' /\ queue'[i] = q[i] /\ i # Len(q) + 1
  BY <1>2, PlaceTaken
<1>4. w.user = u
  BY <1>2
<1>5. ASSUME NEW i \in DOMAIN queue', NEW j \in DOMAIN queue', queue'[i].user = queue'[j].user
      PROVE  i = j
  BY <1>3, <1>4, <1>5
<1>6. ASSUME NEW i \in DOMAIN queue' PROVE at'[queue'[i].user] = "queued"
  <2>1. CASE i = Len(q) + 1
    BY <1>1, <1>3, <1>4, <2>1
  <2>2. CASE i \in DOMAIN q /\ queue'[i] = q[i]
    <3>1. at[q[i].user] = "queued" /\ q[i].user # u
      BY <2>2 DEF CacheInv, PlacesKept
    <3>2. q[i].user \in Users
      BY <2>2, WaitersAreUsers
    <3> QED BY <1>1, <2>2, <3>1, <3>2
  <2> QED BY <1>3, <2>1, <2>2
<1>7. ASSUME NEW v \in Users, at'[v] = "queued"
      PROVE  \E i \in DOMAIN queue' : queue'[i].user = v
  <2>1. CASE v = u
    BY <1>3, <1>4, <2>1
  <2>2. CASE v # u
    <3>1. at[v] = "queued"
      BY <1>1, <1>7, <2>2
    <3> QED BY <1>3, <2>2, <3>1
  <2> QED BY <2>1, <2>2
<1> QED BY <1>3, <1>5, <1>6, <1>7 DEF PlacesKept

\* The places when somebody who waits gives up.
LEMMA LeftPlaces ==
  ASSUME CacheInv, NEW u \in Users, NEW p \in DOMAIN queue, queue[p].user = u,
         queue' = Without(queue, p), at' = [at EXCEPT ![u] = "idle"]
  PROVE  PlacesKept' /\ queue' \in Seq(Waiters)
<1>1. /\ queue \in Seq(Waiters) /\ at \in [Users -> {"idle", "queued", "fetch"}]
  BY DEF CacheInv, Types
<1>2. p \in 1..Len(queue) /\ DOMAIN queue = 1..Len(queue) /\ Len(queue) \in Nat
  BY <1>1, LenProperties
<1>3. /\ queue' \in Seq(Waiters)
      /\ \A i \in DOMAIN queue' :
           \/ i < p /\ i \in DOMAIN queue /\ queue'[i] = queue[i]
           \/ ~(i < p) /\ i + 1 \in DOMAIN queue /\ queue'[i] = queue[i + 1]
      /\ \A i \in DOMAIN queue : i # p =>
           \/ i < p /\ i \in DOMAIN queue' /\ queue'[i] = queue[i]
           \/ i > p /\ i - 1 \in DOMAIN queue' /\ queue'[i - 1] = queue[i]
  <2>1. PICK q \in Seq(Waiters) : q = queue
    BY <1>1
  <2>2. PICK t : t = queue'
    OBVIOUS
  <2>3. p \in 1..Len(q) /\ t = Without(q, p)
    BY <1>2, <2>1, <2>2
  <2>4. /\ t \in Seq(Waiters)
        /\ \A i \in DOMAIN t :
             \/ i < p /\ i \in DOMAIN q /\ t[i] = q[i]
             \/ ~(i < p) /\ i + 1 \in DOMAIN q /\ t[i] = q[i + 1]
        /\ \A i \in DOMAIN q : i # p =>
             \/ i < p /\ i \in DOMAIN t /\ t[i] = q[i]
             \/ i > p /\ i - 1 \in DOMAIN t /\ t[i - 1] = q[i]
    BY ONLY q \in Seq(Waiters), <2>3, PlaceLeft
  <2> QED BY <2>1, <2>2, <2>4
<1>4. \A i \in DOMAIN queue' : i \in Nat
  BY <1>3, LenProperties
<1>5. ASSUME NEW i \in DOMAIN queue' PROVE queue'[i].user # u
  <2>1. CASE i < p /\ i \in DOMAIN queue /\ queue'[i] = queue[i]
    BY <1>2, <1>4, <2>1 DEF CacheInv, PlacesKept
  <2>2. CASE ~(i < p) /\ i + 1 \in DOMAIN queue /\ queue'[i] = queue[i + 1]
    <3>1. i + 1 # p
      BY <1>2, <1>4, <2>2
    <3> QED BY <2>2, <3>1 DEF CacheInv, PlacesKept
  <2> QED BY <1>3, <2>1, <2>2
<1>6. ASSUME NEW i \in DOMAIN queue', NEW j \in DOMAIN queue', queue'[i].user = queue'[j].user
      PROVE  i = j
  <2> DEFINE old(k) == IF k < p THEN k ELSE k + 1
  <2>1. \A k \in DOMAIN queue' : old(k) \in DOMAIN queue /\ queue'[k] = queue[old(k)]
    BY <1>3
  <2>2. old(i) = old(j)
    <3> HIDE DEF old
    <3> QED BY <1>6, <2>1 DEF CacheInv, PlacesKept
  <2> QED BY <1>2, <1>4, <2>2
<1>7. ASSUME NEW i \in DOMAIN queue' PROVE at'[queue'[i].user] = "queued"
  <2>1. queue'[i].user \in Users
    BY <1>3, WaitersAreUsers
  <2>2. at[queue'[i].user] = "queued"
    BY <1>3 DEF CacheInv, PlacesKept
  <2> QED BY <1>1, <1>5, <2>1, <2>2
<1>8. ASSUME NEW v \in Users, at'[v] = "queued"
      PROVE  \E i \in DOMAIN queue' : queue'[i].user = v
  <2>1. v # u /\ at[v] = "queued"
    BY <1>1, <1>8
  <2>2. PICK i \in DOMAIN queue : queue[i].user = v
    BY <2>1 DEF CacheInv, PlacesKept
  <2>3. i # p
    BY <2>1, <2>2
  <2> QED BY <1>3, <2>2, <2>3
<1> QED BY <1>3, <1>6, <1>7, <1>8 DEF PlacesKept

-----------------------------------------------------------------------------
(* Every step keeps the invariant                                          *)

\* A valid entry may be handed out.
LEMMA TakeKeeps ==
  ASSUME CacheInv, NEW u \in Users, Valid(cache), Take(u, cache)
  PROVE  got' \in [Users -> Uses \cup {NoToken}] /\ UsesTimely'
<1>1. /\ cache \in Entries /\ cache # NoToken /\ cache.expiresAt > time /\ time \in Nat
      /\ got \in [Users -> Uses \cup {NoToken}]
      /\ cache.expiresAt = cache.token.issued + cache.late
                           + (cache.token.ttl - effective_margin(cache.token.ttl))
  BY DEF CacheInv, Types, EntriesDated, Valid
<1>2. PICK use : use = [token |-> cache.token, time |-> time, late |-> cache.late]
  OBVIOUS
<1>3. /\ use \in Uses /\ use.token = cache.token /\ use.time = time /\ use.late = cache.late
  BY <1>1, <1>2 DEF Entries, Uses
<1>4. got' = [got EXCEPT ![u] = use]
  BY <1>2 DEF Take
<1>5. got' \in [Users -> Uses \cup {NoToken}]
  BY <1>1, <1>3, <1>4
<1>6. use.time < use.token.issued + use.late
                 + (use.token.ttl - effective_margin(use.token.ttl))
  <2>1. PICK e : e = cache.token.issued + cache.late
                     + (cache.token.ttl - effective_margin(cache.token.ttl))
    OBVIOUS
  <2>2. e > time /\ e \in Nat
    BY <1>1, <2>1 DEF Entries
  <2>3. time < e
    BY <1>1, <2>2
  <2> QED BY <1>3, <2>1, <2>3
<1>7. ASSUME NEW v \in Users, got'[v] # NoToken
      PROVE  \/ got'[v].time = got'[v].token.issued + got'[v].late
             \/ got'[v].time < got'[v].token.issued + got'[v].late
                               + (got'[v].token.ttl - effective_margin(got'[v].token.ttl))
  <2>1. CASE v = u
    BY <1>1, <1>4, <1>6, <2>1
  <2>2. CASE v # u
    <3>1. got'[v] = got[v]
      BY <1>1, <1>4, <2>2
    <3> QED BY <1>7, <3>1 DEF CacheInv, UsesTimely
  <2> QED BY <2>1, <2>2
<1> QED BY <1>5, <1>7 DEF UsesTimely, effective_margin

\* A request asks for a token.
LEMMA CallKeeps == ASSUME CacheInv, NEW u \in Users, Call(u) PROVE CacheInv'
<1>1. /\ at[u] = "idle" /\ at' = [at EXCEPT ![u] = "queued"]
      /\ queue' = Append(queue, [user |-> u, lock |-> "read"])
      /\ got' = [got EXCEPT ![u] = NoToken]
      /\ time' = time /\ cache' = cache /\ writer' = writer /\ fetched' = fetched
  BY DEF Call
<1>2. CacheConstants /\ Types /\ EntriesDated /\ UsesTimely /\ FetchesNeeded /\ PlacesKept
  BY DEF CacheInv
<1>3. /\ queue \in Seq(Waiters) /\ at \in [Users -> {"idle", "queued", "fetch"}]
      /\ got \in [Users -> Uses \cup {NoToken}]
  BY <1>2 DEF Types
<1>4. PlacesKept' /\ queue' \in Seq(Waiters)
  <2>1. \A i \in DOMAIN queue : queue[i].user # u
    BY <1>1, <1>2 DEF PlacesKept
  <2>2. \A v \in Users : at[v] = "queued" /\ v # u => \E i \in DOMAIN queue : queue[i].user = v
    BY <1>2 DEF PlacesKept
  <2>3. \A i, j \in DOMAIN queue : queue[i].user = queue[j].user => i = j
    BY <1>2 DEF PlacesKept
  <2> QED BY <1>1, <1>3, <2>1, <2>2, <2>3, JoinedPlaces
<1>5. Types'
  BY <1>1, <1>2, <1>3, <1>4 DEF Types
<1>6. EntriesDated'
  BY <1>1, <1>2 DEF EntriesDated, effective_margin
<1>7. UsesTimely'
  BY <1>1, <1>2, <1>3 DEF UsesTimely, effective_margin
<1>8. FetchesNeeded'
  BY <1>1, <1>2, <1>3 DEF FetchesNeeded, Valid
<1> QED BY <1>2, <1>4, <1>5, <1>6, <1>7, <1>8 DEF CacheInv, CacheConstants

\* Under the read lock: the valid token, or a place for the write lock.
LEMMA ReadKeeps == ASSUME CacheInv, NEW u \in Users, Read(u) PROVE CacheInv'
<1>1. /\ queue # <<>> /\ Head(queue) = [user |-> u, lock |-> "read"] /\ writer = NoToken
      /\ time' = time /\ cache' = cache /\ writer' = writer /\ fetched' = fetched
  BY DEF Read
<1>2. CacheConstants /\ Types /\ EntriesDated /\ UsesTimely /\ FetchesNeeded /\ PlacesKept
  BY DEF CacheInv
<1>3. /\ queue \in Seq(Waiters) /\ at \in [Users -> {"idle", "queued", "fetch"}]
      /\ Head(queue).user = u
  BY <1>1, <1>2 DEF Types
<1>4. /\ 1 \in DOMAIN queue /\ queue[1].user = u
  BY <1>1, <1>3, PlaceServed
<1>5. at[u] = "queued"
  BY <1>2, <1>4 DEF PlacesKept
<1>6. EntriesDated'
  BY <1>1, <1>2 DEF EntriesDated, effective_margin
<1>7. CASE Valid(cache)
  <2>1. at' = [at EXCEPT ![u] = "idle"] /\ Take(u, cache) /\ queue' = Tail(queue)
    BY <1>7 DEF Read
  <2>2. got' \in [Users -> Uses \cup {NoToken}] /\ UsesTimely'
    BY <1>7, <2>1, TakeKeeps
  <2>3. PlacesKept' /\ queue' \in Seq(Waiters)
    BY <1>1, <1>3, <2>1, ServedPlaces
  <2>4. Types'
    BY <1>1, <1>2, <1>3, <2>1, <2>2, <2>3 DEF Types
  <2>5. FetchesNeeded'
    BY <1>1, <1>2, <1>3, <1>5, <2>1 DEF FetchesNeeded, Valid
  <2> QED BY <1>2, <1>6, <2>2, <2>3, <2>4, <2>5 DEF CacheInv, CacheConstants
<1>8. CASE ~Valid(cache)
  <2>1. /\ queue' = Append(Tail(queue), [user |-> u, lock |-> "write"])
        /\ at' = at /\ got' = got
    BY <1>8 DEF Read
  <2>2. at' = [at EXCEPT ![u] = "queued"]
    BY <1>3, <1>5, <2>1
  <2>3. PICK q : q = Tail(queue)
    OBVIOUS
  <2>4. /\ q \in Seq(Waiters)
        /\ \A i \in DOMAIN q :
             i + 1 \in DOMAIN queue /\ q[i] = queue[i + 1] /\ i \in Nat /\ i > 0
        /\ \A i \in DOMAIN queue : i # 1 => i - 1 \in DOMAIN q /\ q[i - 1] = queue[i]
    BY <1>1, <1>3, <2>3, PlaceServed
  <2>5. ASSUME NEW i \in DOMAIN q PROVE q[i].user # u
    <3>1. i + 1 # 1 /\ i + 1 \in DOMAIN queue /\ q[i] = queue[i + 1]
      BY <2>4
    <3> QED BY <1>2, <1>4, <3>1 DEF PlacesKept
  <2>6. ASSUME NEW i \in DOMAIN q, NEW j \in DOMAIN q, q[i].user = q[j].user PROVE i = j
    <3>1. i + 1 = j + 1
      BY <1>2, <2>4, <2>6 DEF PlacesKept
    <3> QED BY <2>4, <3>1
  <2>7. ASSUME NEW v \in Users, at[v] = "queued", v # u
        PROVE  \E i \in DOMAIN q : q[i].user = v
    <3>1. PICK i \in DOMAIN queue : queue[i].user = v
      BY <1>2, <2>7 DEF PlacesKept
    <3>2. i # 1
      BY <1>4, <2>7, <3>1
    <3> QED BY <2>4, <3>1, <3>2
  <2>8. \A i \in DOMAIN q : \E j \in DOMAIN queue : q[i].user = queue[j].user
    BY <2>4
  <2>9. PlacesKept' /\ queue' \in Seq(Waiters)
    <3>1. queue' = Append(q, [user |-> u, lock |-> "write"])
      BY <2>1, <2>3
    <3>2. \A i, j \in DOMAIN q : q[i].user = q[j].user => i = j
      BY <2>6
    <3>3. \A v \in Users : at[v] = "queued" /\ v # u => \E i \in DOMAIN q : q[i].user = v
      BY <2>7
    <3> QED BY <2>2, <2>4, <2>5, <2>8, <3>1, <3>2, <3>3, JoinedPlaces
  <2>10. Types' /\ UsesTimely'
    BY <1>1, <1>2, <2>1, <2>9 DEF Types, UsesTimely, effective_margin
  <2>11. FetchesNeeded'
    BY <1>1, <1>2, <2>1 DEF FetchesNeeded, Valid
  <2> QED BY <1>2, <1>6, <2>9, <2>10, <2>11 DEF CacheInv, CacheConstants
<1> QED BY <1>7, <1>8

\* Under the write lock: the token another request has fetched, or the fetch.
LEMMA WriteKeeps == ASSUME CacheInv, NEW u \in Users, Write(u) PROVE CacheInv'
<1>1. /\ queue # <<>> /\ Head(queue) = [user |-> u, lock |-> "write"] /\ writer = NoToken
      /\ time' = time /\ cache' = cache /\ queue' = Tail(queue) /\ WriteLocked(u)
  BY DEF Write
<1>2. CacheConstants /\ Types /\ EntriesDated /\ UsesTimely /\ FetchesNeeded /\ PlacesKept
  BY DEF CacheInv
<1>3. /\ queue \in Seq(Waiters) /\ at \in [Users -> {"idle", "queued", "fetch"}]
      /\ Head(queue).user = u /\ time \in Nat
  BY <1>1, <1>2 DEF Types
<1>4. 1 \in DOMAIN queue /\ queue[1].user = u
  BY <1>1, <1>3, PlaceServed
<1>5. at[u] = "queued"
  BY <1>2, <1>4 DEF PlacesKept
<1>6. CASE Valid(cache)
  <2>1. /\ at' = [at EXCEPT ![u] = "idle"] /\ Take(u, cache)
        /\ writer' = writer /\ fetched' = fetched
    BY <1>1, <1>6 DEF WriteLocked
  <2>2. got' \in [Users -> Uses \cup {NoToken}] /\ UsesTimely'
    BY <1>6, <2>1, TakeKeeps
  <2>3. PlacesKept' /\ queue' \in Seq(Waiters)
    BY <1>1, <1>3, <2>1, ServedPlaces
  <2>4. Types' /\ EntriesDated'
    BY <1>1, <1>2, <1>3, <2>1, <2>2, <2>3 DEF Types, EntriesDated, effective_margin
  <2>5. FetchesNeeded'
    BY <1>1, <1>2, <1>3, <1>5, <2>1 DEF FetchesNeeded, Valid
  <2> QED BY <1>2, <2>2, <2>3, <2>4, <2>5 DEF CacheInv, CacheConstants
<1>7. CASE ~Valid(cache)
  <2>1. /\ at' = [at EXCEPT ![u] = "fetch"] /\ writer' = u
        /\ fetched' = [NoFetch EXCEPT !.since = time] /\ got' = got
    BY <1>1, <1>7 DEF WriteLocked
  <2>2. fetched' = [since |-> time, token |-> NoToken]
    BY <2>1 DEF NoFetch
  <2>3. PlacesKept' /\ queue' \in Seq(Waiters)
    BY <1>1, <1>3, <2>1, ServedPlaces
  <2>4. Types' /\ EntriesDated'
    <3>1. fetched' \in [since : Nat, token : Tokens \cup {NoToken}] /\ fetched'.token = NoToken
      BY <1>3, <2>2
    <3>2. at' \in [Users -> {"idle", "queued", "fetch"}]
      BY <1>3, <2>1
    <3>3. Types'
      BY <1>1, <1>2, <2>1, <2>3, <3>1, <3>2 DEF Types
    <3> QED BY <1>1, <1>2, <3>1, <3>3 DEF EntriesDated, effective_margin
  <2>5. FetchesNeeded'
    BY <1>1, <1>2, <1>3, <1>7, <2>1 DEF FetchesNeeded, Valid, CacheConstants
  <2>6. UsesTimely'
    BY <1>2, <2>1 DEF UsesTimely, effective_margin
  <2> QED BY <1>2, <2>3, <2>4, <2>5, <2>6 DEF CacheInv, CacheConstants
<1> QED BY <1>6, <1>7

\* The endpoint issues a token.
LEMMA IssueKeeps == ASSUME CacheInv, NEW ttl \in Lifetimes, Issue(ttl) PROVE CacheInv'
<1>1. /\ fetched' = [fetched EXCEPT !.token = [issued |-> time, ttl |-> ttl]]
      /\ time' = time /\ cache' = cache /\ queue' = queue /\ writer' = writer /\ at' = at
      /\ got' = got
  BY DEF Issue
<1>2. CacheConstants /\ Types /\ EntriesDated /\ UsesTimely /\ FetchesNeeded /\ PlacesKept
  BY DEF CacheInv
<1>3. PICK t : t = [issued |-> time, ttl |-> ttl]
  OBVIOUS
<1>4. t \in Tokens /\ t.issued = time /\ time \in Nat
  BY <1>2, <1>3 DEF Types, Tokens
<1>5. fetched' \in [since : Nat, token : Tokens \cup {NoToken}] /\ fetched'.token = t
  BY <1>1, <1>2, <1>3, <1>4 DEF Types
<1>6. Types' /\ EntriesDated'
  BY <1>1, <1>2, <1>4, <1>5 DEF Types, EntriesDated, effective_margin
<1>7. UsesTimely' /\ FetchesNeeded' /\ PlacesKept'
  BY <1>1, <1>2 DEF UsesTimely, FetchesNeeded, PlacesKept, Valid, effective_margin
<1> QED BY <1>2, <1>6, <1>7 DEF CacheInv, CacheConstants

\* The places when a fetch ends: whoever fetched had none.
LEMMA FetchEnds ==
  ASSUME CacheInv, NEW u \in Users, writer = u, queue' = queue,
         at' = [at EXCEPT ![u] = "idle"], writer' = NoToken
  PROVE  /\ PlacesKept' /\ FetchesNeeded' /\ at' \in [Users -> {"idle", "queued", "fetch"}]
<1>1. CacheConstants /\ Types /\ FetchesNeeded /\ PlacesKept
  BY DEF CacheInv
<1>2. at \in [Users -> {"idle", "queued", "fetch"}] /\ queue \in Seq(Waiters)
  BY <1>1 DEF Types
<1>3. at[u] = "fetch"
  BY <1>1 DEF FetchesNeeded
<1>4. \A i \in DOMAIN queue : queue[i].user \in Users /\ queue[i].user # u
  BY <1>1, <1>2, <1>3, WaitersAreUsers DEF PlacesKept
<1>5. PlacesKept'
  BY <1>1, <1>2, <1>3, <1>4 DEF PlacesKept
<1>6. FetchesNeeded'
  BY <1>1, <1>2 DEF FetchesNeeded, CacheConstants
<1> QED BY <1>2, <1>5, <1>6

\* The reply is cached and used.
LEMMA ReplyKeeps == ASSUME CacheInv, Reply PROVE CacheInv'
<1>1. /\ writer # NoToken /\ fetched.token # NoToken
      /\ cache' = Cached(fetched.token) /\ Take(writer, cache')
      /\ at' = [at EXCEPT ![writer] = "idle"] /\ writer' = NoToken /\ fetched' = NoFetch
      /\ time' = time /\ queue' = queue
  BY DEF Reply
<1>2. CacheConstants /\ Types /\ EntriesDated /\ UsesTimely /\ FetchesNeeded /\ PlacesKept
  BY DEF CacheInv
<1>3. /\ writer \in Users /\ time \in Nat /\ fetched.token \in Tokens
      /\ got \in [Users -> Uses \cup {NoToken}] /\ queue \in Seq(Waiters)
  BY <1>1, <1>2 DEF Types
<1>4. PICK t \in Tokens : t = fetched.token
  BY <1>3
<1>5. t.issued \in Nat /\ t.ttl \in Nat /\ t.issued <= time
  BY <1>1, <1>2, <1>4 DEF Tokens, EntriesDated, CacheConstants
<1>6. PICK m \in Nat : m = effective_margin(t.ttl) /\ m <= t.ttl
  BY <1>2, <1>5, MarginBounds
<1>7. cache' = [token |-> t, expiresAt |-> time + t.ttl - m, late |-> time - t.issued]
  BY <1>1, <1>4, <1>6 DEF Cached
<1>8. time + t.ttl - m \in Nat /\ time - t.issued \in Nat
      /\ time + t.ttl - m = t.issued + (time - t.issued) + (t.ttl - m)
      /\ time = t.issued + (time - t.issued)
  BY <1>3, <1>5, <1>6
<1>9. /\ cache' \in Entries /\ cache'.token = t /\ cache'.late = time - t.issued
      /\ cache'.expiresAt = time + t.ttl - m
  BY <1>7, <1>8 DEF Entries
<1>10. PICK use : use = [token |-> cache'.token, time |-> time, late |-> cache'.late]
  OBVIOUS
<1>11. /\ use \in Uses /\ use.time = use.token.issued + use.late
  BY <1>3, <1>8, <1>9, <1>10 DEF Uses, Entries
<1>12. got' = [got EXCEPT ![writer] = use]
  BY <1>1, <1>10 DEF Take
<1>13. /\ PlacesKept' /\ FetchesNeeded' /\ at' \in [Users -> {"idle", "queued", "fetch"}]
  BY <1>1, <1>3, FetchEnds
<1>14. Types'
  BY <1>1, <1>2, <1>3, <1>9, <1>11, <1>12, <1>13 DEF Types, NoFetch
<1>15. EntriesDated'
  <2>1. cache'.expiresAt = cache'.token.issued + cache'.late
          + (cache'.token.ttl - effective_margin(cache'.token.ttl))
    BY <1>6, <1>8, <1>9
  <2> QED BY <1>1, <2>1 DEF EntriesDated, NoFetch, effective_margin
<1>16. UsesTimely'
  <2>1. ASSUME NEW v \in Users, got'[v] # NoToken
        PROVE  \/ got'[v].time = got'[v].token.issued + got'[v].late
               \/ got'[v].time < got'[v].token.issued + got'[v].late
                                 + (got'[v].token.ttl - effective_margin(got'[v].token.ttl))
    <3>1. CASE v = writer
      BY <1>3, <1>11, <1>12, <3>1
    <3>2. CASE v # writer
      <4>1. got'[v] = got[v]
        BY <1>3, <1>12, <3>2
      <4> QED BY <1>2, <2>1, <4>1 DEF UsesTimely
    <3> QED BY <3>1, <3>2
  <2> QED BY <2>1 DEF UsesTimely, effective_margin
<1> QED BY <1>2, <1>13, <1>14, <1>15, <1>16 DEF CacheInv, CacheConstants

\* The fetch fails, or the request is dropped.
LEMMA FailKeeps == ASSUME CacheInv, FetchFails PROVE CacheInv'
<1>1. /\ writer # NoToken /\ at' = [at EXCEPT ![writer] = "idle"]
      /\ writer' = NoToken /\ fetched' = NoFetch
      /\ time' = time /\ cache' = cache /\ queue' = queue /\ got' = got
  BY DEF FetchFails
<1>2. CacheConstants /\ Types /\ EntriesDated /\ UsesTimely
  BY DEF CacheInv
<1>3. writer \in Users
  BY <1>1, <1>2 DEF Types
<1>4. PlacesKept' /\ FetchesNeeded' /\ at' \in [Users -> {"idle", "queued", "fetch"}]
  BY <1>1, <1>3, FetchEnds
<1>5. Types' /\ EntriesDated' /\ UsesTimely'
  BY <1>1, <1>2, <1>4 DEF Types, EntriesDated, UsesTimely, NoFetch, effective_margin
<1> QED BY <1>2, <1>4, <1>5 DEF CacheInv, CacheConstants

\* The same when the request that waits or fetches is dropped.
LEMMA DropKeeps == ASSUME CacheInv, NEW u \in Users, Dropped(u) PROVE CacheInv'
<1>1. at' = [at EXCEPT ![u] = "idle"] /\ time' = time /\ cache' = cache /\ got' = got
  BY DEF Dropped
<1>2. CacheConstants /\ Types /\ EntriesDated /\ UsesTimely /\ FetchesNeeded /\ PlacesKept
  BY DEF CacheInv
<1>3. at \in [Users -> {"idle", "queued", "fetch"}]
  BY <1>2 DEF Types
<1>4. CASE /\ at[u] = "queued"
           /\ \E p \in DOMAIN queue : queue[p].user = u /\ queue' = Without(queue, p)
           /\ UNCHANGED <<writer, fetched>>
  <2>1. PlacesKept' /\ queue' \in Seq(Waiters)
    BY <1>1, <1>4, LeftPlaces
  <2>2. Types' /\ EntriesDated' /\ UsesTimely'
    BY <1>1, <1>2, <1>3, <1>4, <2>1 DEF Types, EntriesDated, UsesTimely, effective_margin
  <2>3. FetchesNeeded'
    BY <1>1, <1>2, <1>3, <1>4 DEF FetchesNeeded, Valid
  <2> QED BY <1>2, <2>1, <2>2, <2>3 DEF CacheInv, CacheConstants
<1>5. CASE at[u] = "fetch" /\ writer' = NoToken /\ fetched' = NoFetch /\ UNCHANGED queue
  <2>1. writer = u
    BY <1>2, <1>5 DEF FetchesNeeded
  <2>2. PlacesKept' /\ FetchesNeeded' /\ at' \in [Users -> {"idle", "queued", "fetch"}]
    BY <1>1, <1>5, <2>1, FetchEnds
  <2>3. Types' /\ EntriesDated' /\ UsesTimely'
    BY <1>1, <1>2, <1>5, <2>2 DEF Types, EntriesDated, UsesTimely, NoFetch, effective_margin
  <2> QED BY <1>2, <2>2, <2>3 DEF CacheInv, CacheConstants
<1> QED BY <1>4, <1>5 DEF Dropped

\* Time passes: what has expired stays so.
LEMMA TickKeeps == ASSUME CacheInv, TimePasses PROVE CacheInv'
<1>1. /\ time' = time + 1 /\ cache' = cache /\ queue' = queue /\ writer' = writer /\ at' = at
      /\ fetched' = fetched /\ got' = got
  BY DEF TimePasses
<1>2. CacheConstants /\ Types /\ EntriesDated /\ UsesTimely /\ FetchesNeeded /\ PlacesKept
  BY DEF CacheInv
<1>3. Types' /\ UsesTimely' /\ PlacesKept'
  BY <1>1, <1>2 DEF Types, UsesTimely, PlacesKept, effective_margin
<1>4. EntriesDated'
  <2>1. fetched.token # NoToken => fetched.token.issued <= time + 1
    BY <1>2 DEF Types, Tokens, EntriesDated
  <2> QED BY <1>1, <1>2, <2>1 DEF EntriesDated, effective_margin
<1>5. FetchesNeeded'
  <2>1. cache # NoToken /\ cache.expiresAt > time + 1 => cache.expiresAt > time
    BY <1>2 DEF Types, Entries
  <2> QED BY <1>1, <1>2, <2>1 DEF FetchesNeeded, Valid
<1> QED BY <1>2, <1>3, <1>4, <1>5 DEF CacheInv, CacheConstants

-----------------------------------------------------------------------------
(* The theorems                                                            *)

\* The invariant holds at first and every step keeps it.
LEMMA CacheInductive ==
  /\ CacheConstants /\ TokenInit => CacheInv
  /\ CacheInv /\ [TokenNext]_tokenVars => CacheInv'
<1>1. ASSUME CacheConstants, TokenInit PROVE CacheInv
  <2>1. Types
    BY <1>1 DEF TokenInit, Types, NoFetch
  <2>2. EntriesDated /\ UsesTimely /\ FetchesNeeded
    BY <1>1 DEF TokenInit, EntriesDated, UsesTimely, FetchesNeeded, NoFetch, CacheConstants
  <2>3. PlacesKept
    <3>1. DOMAIN queue = {}
      BY <1>1 DEF TokenInit
    <3> QED BY <1>1, <3>1 DEF TokenInit, PlacesKept
  <2> QED BY <1>1, <2>1, <2>2, <2>3 DEF CacheInv
<1>2. ASSUME CacheInv, [TokenNext]_tokenVars PROVE CacheInv'
  <2>1. CASE UNCHANGED tokenVars
    BY <1>2, <2>1 DEF tokenVars, CacheInv, CacheConstants, Types, EntriesDated, UsesTimely,
                      FetchesNeeded, PlacesKept, Valid, effective_margin
  <2> QED BY <1>2, <2>1, CallKeeps, ReadKeeps, WriteKeeps, DropKeeps, IssueKeeps, ReplyKeeps,
             FailKeeps, TickKeeps DEF TokenNext
<1> QED BY <1>1, <1>2

\* No token is used past the issuer's expiry when its reply was in time, none is
\* fetched while a valid one is cached, and nobody who gave up keeps the lock or a
\* place in its queue (TokenCache::get_or_refresh).
THEOREM TokensStayFresh == TokenSpec => []TokensFresh
<1>1. CacheInv => TokensFresh
  <2> SUFFICES ASSUME CacheInv PROVE TokensFresh
    OBVIOUS
  <2>1. CacheConstants /\ Types /\ UsesTimely /\ FetchesNeeded /\ PlacesKept
    BY DEF CacheInv
  <2>2. ASSUME NEW u \in Users, got[u] # NoToken,
               got[u].time > got[u].token.issued + got[u].late,
               got[u].late <= Margin, 2 * got[u].late <= got[u].token.ttl
        PROVE  got[u].time < got[u].token.issued + got[u].token.ttl
    <3>1. PICK g \in Uses : g = got[u]
      BY <2>1, <2>2 DEF Types
    <3>2. /\ g.time \in Nat /\ g.late \in Nat /\ g.token.issued \in Nat /\ g.token.ttl \in Nat
      BY <2>1, <3>1 DEF Uses, Tokens, CacheConstants
    <3>3. PICK m \in Nat : /\ m = effective_margin(g.token.ttl) /\ m <= g.token.ttl
                           /\ g.late <= m
      BY <2>1, <2>2, <3>1, <3>2, MarginBounds
    <3>4. \/ g.time = g.token.issued + g.late
          \/ g.time < g.token.issued + g.late + (g.token.ttl - m)
      BY <2>1, <2>2, <3>1, <3>3 DEF UsesTimely
    <3> QED BY <2>2, <3>1, <3>2, <3>3, <3>4
  <2>3. ASSUME NEW u \in Users
        PROVE  Cardinality({i \in DOMAIN queue : queue[i].user = u})
                 = IF at[u] = "queued" THEN 1 ELSE 0
    <3>1. CASE at[u] = "queued"
      <4>1. PICK p \in DOMAIN queue : queue[p].user = u
        BY <2>1, <3>1 DEF PlacesKept
      <4>2. {i \in DOMAIN queue : queue[i].user = u} = {p}
        BY <2>1, <4>1 DEF PlacesKept
      <4> QED BY <3>1, <4>2, FS_Singleton
    <3>2. CASE at[u] # "queued"
      <4>1. {i \in DOMAIN queue : queue[i].user = u} = {}
        BY <2>1, <3>2 DEF PlacesKept
      <4> QED BY <3>2, <4>1, FS_EmptySet
    <3> QED BY <3>1, <3>2
  <2> QED BY <2>1, <2>2, <2>3 DEF TokensFresh, FetchesNeeded
<1>2. TokenInit => CacheInv
  BY TokenAssumption, CacheInductive
<1>3. CacheInv /\ [TokenNext]_tokenVars => CacheInv'
  BY CacheInductive
<1> QED BY <1>1, <1>2, <1>3, PTL DEF TokenSpec

-----------------------------------------------------------------------------
(* A2aTaskRoutes: the inductive invariant                                  *)

ExchangeRecords ==
  [pc : {"forward", "purge", "reply", "store", "context"}, method : Methods,
   task : Tasks \cup {None}, context : Contexts \cup {None},
   cluster : Clusters \cup {None}, event : {None, "terminal", "working"},
   expires : Nat]

\* What an exchange carries was right when it was read: a task method goes to the
\* owner, a reply comes from it, and a terminal event is about a finished task.
ExchangeSound(r) ==
  /\ task_routable(r.method) => r.task \in Tasks
  /\ r.pc = "forward" /\ task_routable(r.method) => r.cluster \in {None, owner[r.task]}
  /\ r.pc \in {"reply", "store", "context"} =>
       r.task \in Tasks /\ r.cluster \in Clusters /\ r.cluster = owner[r.task]
  /\ r.pc = "purge" =>
       r.cluster = None /\ LookupKey(r.method, r.task, r.context) \in Ids
  /\ r.pc = "store" /\ r.event = "terminal" => r.task \in finished

RouteTypes ==
  /\ now \in Nat
  /\ routes \in [Ids -> Routes \cup {None}]
  /\ ex \in [Exchanges -> ExchangeRecords \cup {None}]
  /\ owner \in [Tasks -> Clusters \cup {None}]

\* The route of a task names the cluster that created it.
OwnersNamed == \A t \in Tasks : routes[t] # None => routes[t].cluster = owner[t]

ExchangesSound == \A e \in Exchanges : ex[e] # None => ExchangeSound(ex[e])

MapsBounded ==
  \A m \in {"task", "context"} :
    IsFiniteSet(InMap(m)) /\ Cardinality(InMap(m)) <= MaxRoutes

RoutesInv == RouteTypes /\ OwnersNamed /\ ExchangesSound /\ MapsBounded

-----------------------------------------------------------------------------
(* The route store                                                         *)

\* A store that loses routes stays within its limits.
LEMMA FewerRoutes ==
  ASSUME MapsBounded, \A id \in Ids : routes'[id] # None => routes[id] # None
  PROVE  MapsBounded'
<1> SUFFICES ASSUME NEW m \in {"task", "context"}
             PROVE  IsFiniteSet(InMap(m)') /\ Cardinality(InMap(m)') <= MaxRoutes
  BY DEF MapsBounded
<1>1. IsFiniteSet(InMap(m)) /\ Cardinality(InMap(m)) <= MaxRoutes
  BY DEF MapsBounded
<1>2. InMap(m)' \subseteq InMap(m) BY DEF InMap
<1>3. IsFiniteSet(InMap(m)') /\ Cardinality(InMap(m)') <= Cardinality(InMap(m))
  BY <1>1, <1>2, FS_Subset
<1> QED BY <1>1, <1>3, FS_CardinalityType, RoutesAssumption

\* put writes a route of the map's own, keeps the limits and drops no live route;
\* when it is due, its sweep leaves only live routes behind.
LEMMA PutSound ==
  ASSUME RouteTypes, OwnersNamed, MapsBounded,
         NEW id \in Ids, NEW cl \in Clusters, NEW x \in Nat,
         Put(MapOf(id), id, cl, x),
         id \in Tasks => cl = owner[id]
  PROVE  /\ routes' \in [Ids -> Routes \cup {None}]
         /\ \A t \in Tasks : routes'[t] # None => routes'[t].cluster = owner[t]
         /\ MapsBounded'
         /\ \A i \in Ids : Fresh(i) => routes'[i] # None
<1> DEFINE m == MapOf(id)
           r == [cluster |-> cl, expires |-> x]
           after == Swept(m)
           held == {k \in Ids : MapOf(k) = m /\ after[k] # None}
<1>1. /\ routes \in [Ids -> Routes \cup {None}]
      /\ Tasks \subseteq Ids /\ r \in Routes /\ r # None /\ r.cluster = cl
      /\ m \in {"task", "context"}
      /\ MaxRoutes \in Nat \ {0}
  BY RoutesAssumption DEF RouteTypes, Routes, Ids, MapOf
<1>2. /\ after \in [Ids -> Routes \cup {None}]
      /\ \A i \in Ids : after[i] # None => after[i] = routes[i]
      /\ \A i \in Ids : Fresh(i) => after[i] = routes[i] /\ routes[i] # None
  BY <1>1 DEF Swept, Fresh
<1>3. held \subseteq InMap(m) BY <1>2 DEF InMap
<1>4. IsFiniteSet(InMap(m)) /\ Cardinality(InMap(m)) \in Nat /\ Cardinality(InMap(m)) <= MaxRoutes
  BY <1>1, FS_CardinalityType DEF MapsBounded
<1>5. IsFiniteSet(held) /\ Cardinality(held) \in Nat /\ Cardinality(held) <= MaxRoutes
  <2>1. IsFiniteSet(held) /\ Cardinality(held) <= Cardinality(InMap(m))
    BY <1>3, <1>4, FS_Subset
  <2>2. Cardinality(held) \in Nat BY <2>1, FS_CardinalityType
  <2> QED BY <2>1, <2>2, <1>1, <1>4
<1>6. routes' = Written(m, id, r) BY DEF Put
<1>7. CASE ~Room(m, id, after)
  <2>1. routes' = after BY <1>6, <1>7 DEF Written
  <2>2. \A i \in Ids : routes'[i] # None => routes[i] # None BY <2>1, <1>2
  <2>3. MapsBounded' BY <2>2, FewerRoutes
  <2> QED BY <2>1, <2>3, <1>1, <1>2 DEF OwnersNamed
<1>8. CASE Room(m, id, after)
  <2>1. routes' = [after EXCEPT ![id] = r] BY <1>6, <1>8 DEF Written
  <2>2. routes' \in [Ids -> Routes \cup {None}] BY <2>1, <1>1, <1>2
  <2>3. \A i \in Ids : routes'[i] = IF i = id THEN r ELSE after[i] BY <2>1, <1>1, <1>2
  <2>4. \A t \in Tasks : routes'[t] # None => routes'[t].cluster = owner[t]
    BY <2>3, <1>1, <1>2 DEF OwnersNamed
  <2>5. \A i \in Ids : Fresh(i) => routes'[i] # None BY <2>3, <1>1, <1>2
  <2>6. ASSUME NEW n \in {"task", "context"}
        PROVE  IsFiniteSet(InMap(n)') /\ Cardinality(InMap(n)') <= MaxRoutes
    <3>1. CASE n # m
      <4>1. InMap(n)' \subseteq InMap(n) BY <2>3, <1>1, <1>2, <3>1 DEF InMap
      <4>2. IsFiniteSet(InMap(n)) /\ Cardinality(InMap(n)) <= MaxRoutes BY DEF MapsBounded
      <4>3. IsFiniteSet(InMap(n)') /\ Cardinality(InMap(n)') <= Cardinality(InMap(n))
        BY <4>1, <4>2, FS_Subset
      <4> QED BY <4>2, <4>3, <1>1, FS_CardinalityType
    <3>2. CASE n = m
      <4>1. InMap(n)' = held \cup {id} BY <2>3, <1>1, <1>2, <3>2 DEF InMap
      <4>2. IsFiniteSet(held \cup {id})
            /\ Cardinality(held \cup {id})
                 = IF id \in held THEN Cardinality(held) ELSE Cardinality(held) + 1
        BY <1>5, FS_AddElement
      <4>3. id \in held \/ Cardinality(held) < MaxRoutes BY <1>8 DEF Room
      <4> QED BY <4>1, <4>2, <4>3, <1>1, <1>5
    <3> QED BY <3>1, <3>2
  <2>7. MapsBounded' BY <2>6 DEF MapsBounded
  <2> QED BY <2>2, <2>4, <2>5, <2>7
<1> QED BY <1>7, <1>8

\* A put that is refused although its sweep was due met a map full of live routes.
LEMMA PutRefused ==
  ASSUME RouteTypes, MapsBounded, NEW t \in Tasks, NEW cl \in Clusters, NEW x \in Nat,
         Put("task", t, cl, x), routes'[t] = None, SweepDue("task")
  PROVE  Cardinality({k \in Tasks : Fresh(k)}) >= MaxRoutes
<1> DEFINE r == [cluster |-> cl, expires |-> x]
           after == Swept("task")
           held == {k \in Ids : MapOf(k) = "task" /\ after[k] # None}
           fresh == {k \in Tasks : Fresh(k)}
<1>1. /\ routes \in [Ids -> Routes \cup {None}]
      /\ t \in Ids /\ r \in Routes /\ r # None /\ MaxRoutes \in Nat \ {0}
      /\ \A k \in Ids : MapOf(k) = "task" <=> k \in Tasks
  BY RoutesAssumption DEF RouteTypes, Routes, Ids, MapOf
<1>2. /\ after \in [Ids -> Routes \cup {None}]
      /\ \A i \in Ids : MapOf(i) = "task" => (after[i] # None <=> Fresh(i))
  BY <1>1 DEF Swept, Fresh
<1>3. ~Room("task", t, after)
  <2>1. SUFFICES ASSUME Room("task", t, after) PROVE FALSE OBVIOUS
  <2>2. routes' = [after EXCEPT ![t] = r] BY <2>1 DEF Put, Written
  <2> QED BY <2>2, <1>1, <1>2
<1>4. held = fresh BY <1>1, <1>2 DEF Ids
<1>5. fresh \subseteq InMap("task") BY <1>1 DEF InMap, Fresh, Ids
<1>6. IsFiniteSet(InMap("task")) BY DEF MapsBounded
<1>7. IsFiniteSet(fresh) BY <1>5, <1>6, FS_Subset
<1>8. Cardinality(fresh) \in Nat BY <1>7, FS_CardinalityType
<1> QED BY <1>1, <1>3, <1>4, <1>8 DEF Room

-----------------------------------------------------------------------------
(* Steps                                                                   *)

\* A live route goes only with its finished task, when such routes are not kept.
LiveKept ==
  \A id \in Ids : Fresh(id) /\ routes'[id] = None => TerminalTtl = 0 /\ id \in finished

\* An exchange that stored its task and left no route met a full map, or one that
\* was not due for a sweep.
RefusedFull ==
  \A e \in Exchanges :
    At(e, {"store"}) /\ ~Removes(e) /\ ex'[e] # ex[e] /\ routes'[ex[e].task] = None =>
      \/ ~SweepDue("task")
      \/ Cardinality({k \in Tasks : Fresh(k)}) >= MaxRoutes

Good == RoutesInv' /\ LiveKept /\ RefusedFull

\* One exchange moves on: the others still carry what is right while no owner of
\* theirs changes and no task becomes unfinished.
LEMMA ExchangeMoves ==
  ASSUME RouteTypes, ExchangesSound,
         NEW e \in Exchanges, NEW r, Move(e, r),
         r # None => r \in ExchangeRecords /\ ExchangeSound(r)',
         finished \subseteq finished',
         \A t \in Tasks : owner[t] # None => owner'[t] = owner[t]
  PROVE  ex' \in [Exchanges -> ExchangeRecords \cup {None}] /\ ExchangesSound'
<1>1. /\ ex' = [ex EXCEPT ![e] = r]
      /\ ex \in [Exchanges -> ExchangeRecords \cup {None}]
  BY DEF Move, RouteTypes
<1>2. ex' \in [Exchanges -> ExchangeRecords \cup {None}] BY <1>1
<1>3. ASSUME NEW f \in Exchanges, ex'[f] # None PROVE ExchangeSound(ex[f])'
  <2>1. CASE f = e BY <2>1, <1>1, <1>3
  <2>2. CASE f # e
    <3>1. ex'[f] = ex[f] /\ ex[f] \in ExchangeRecords /\ ExchangeSound(ex[f])
      BY <2>2, <1>1, <1>3 DEF ExchangesSound
    <3>2. PICK s \in ExchangeRecords : s = ex[f] BY <3>1
    <3>3. ExchangeSound(s) BY <3>1, <3>2
    <3>4. s.pc = "forward" /\ task_routable(s.method) => s.cluster \in {None, owner'[s.task]}
      BY <3>3 DEF ExchangeSound
    <3>5. s.pc \in {"reply", "store", "context"} =>
            s.task \in Tasks /\ s.cluster \in Clusters /\ s.cluster = owner'[s.task]
      BY <3>3, RoutesAssumption DEF ExchangeSound
    <3>6. ExchangeSound(s)' BY <3>3, <3>4, <3>5 DEF ExchangeSound
    <3> QED BY <3>1, <3>2, <3>6
  <2> QED BY <2>1, <2>2
<1> QED BY <1>2, <1>3 DEF ExchangesSound

\* The exchange that moves was not storing its task: nobody was refused.
LEMMA NobodyRefused ==
  ASSUME RouteTypes, NEW e \in Exchanges, NEW r, Move(e, r), ~At(e, {"store"})
  PROVE  RefusedFull
<1>1. \A f \in Exchanges : f # e => ex'[f] = ex[f] BY DEF Move, RouteTypes
<1> QED BY <1>1 DEF RefusedFull

\* An exchange moves and the store stays as it is.
LEMMA StoreUntouched ==
  ASSUME RoutesInv, NEW e \in Exchanges, NEW r, Move(e, r), ~At(e, {"store"}),
         r # None => r \in ExchangeRecords /\ ExchangeSound(r)',
         UNCHANGED <<now, routes>>, finished \subseteq finished',
         owner' \in [Tasks -> Clusters \cup {None}],
         \A t \in Tasks : owner[t] # None => owner'[t] = owner[t]
  PROVE  Good
<1>1. RouteTypes /\ OwnersNamed /\ ExchangesSound /\ MapsBounded BY DEF RoutesInv
<1>2. ex' \in [Exchanges -> ExchangeRecords \cup {None}] /\ ExchangesSound'
  BY <1>1, ExchangeMoves
<1>3. RefusedFull BY <1>1, NobodyRefused
<1>4. RouteTypes' BY <1>1, <1>2 DEF RouteTypes
<1>5. OwnersNamed'
  <2>1. \A t \in Tasks : routes[t] # None => routes[t].cluster \in Clusters
    BY <1>1 DEF RouteTypes, Ids, Routes
  <2> QED BY <1>1, <2>1, RoutesAssumption DEF OwnersNamed
<1>6. MapsBounded' BY <1>1 DEF MapsBounded, InMap
<1>7. LiveKept BY DEF LiveKept, Fresh
<1> QED BY <1>2, <1>3, <1>4, <1>5, <1>6, <1>7 DEF Good, RoutesInv

\* A request reads the route of its task or context.
LEMMA LookupKeeps ==
  ASSUME RoutesInv, NEW e \in Exchanges, NEW m \in Methods, NEW t \in Tasks \cup {None},
         NEW c \in Contexts \cup {None}, task_routable(m) <=> t # None, Lookup(e, m, t, c)
  PROVE  Good
<1> DEFINE key == LookupKey(m, t, c)
           base == [pc |-> "forward", method |-> m, task |-> t, context |-> c,
                    cluster |-> None, event |-> None, expires |-> 0]
           r == IF key = None \/ routes[key] = None THEN base
                ELSE IF Fresh(key) THEN [base EXCEPT !.cluster = routes[key].cluster]
                ELSE [base EXCEPT !.pc = "purge"]
<1>1. /\ RouteTypes /\ OwnersNamed /\ ex[e] = None /\ Move(e, r)
      /\ UNCHANGED <<now, routes, swept, owner, finished>>
  BY DEF RoutesInv, Lookup
<1>2. base \in ExchangeRecords BY DEF ExchangeRecords
<1>3. task_routable(m) => t \in Tasks /\ key = t BY DEF LookupKey
<1>4. key \in Ids \cup {None} BY <1>3 DEF LookupKey, Ids
<1>5. CASE key = None \/ routes[key] = None
  <2>1. ExchangeSound(base)' BY <1>3 DEF ExchangeSound
  <2> QED BY <1>5, <1>1, <1>2, <2>1, StoreUntouched DEF At, RouteTypes
<1>6. CASE key # None /\ routes[key] # None /\ Fresh(key)
  <2>1. routes[key] \in Routes BY <1>1, <1>4, <1>6 DEF RouteTypes
  <2>2. PICK cl \in Clusters : cl = routes[key].cluster BY <2>1 DEF Routes
  <2>3. r = [base EXCEPT !.cluster = cl] BY <1>6, <2>2
  <2>4. task_routable(m) => cl = owner[t] BY <1>1, <1>3, <1>6, <2>2 DEF OwnersNamed
  <2>5. PICK s : s = [base EXCEPT !.cluster = cl] OBVIOUS
  <2>6. /\ s \in ExchangeRecords /\ s.pc = "forward" /\ s.method = m
        /\ s.task = t /\ s.cluster = cl
    BY <2>5, <1>2 DEF ExchangeRecords
  <2>7. ExchangeSound(s)' BY <2>4, <2>6, <1>1, <1>3 DEF ExchangeSound
  <2>8. Move(e, s) BY <1>1, <2>3, <2>5
  <2> QED BY <1>1, <2>6, <2>7, <2>8, StoreUntouched DEF At, RouteTypes
<1>7. CASE key # None /\ routes[key] # None /\ ~Fresh(key)
  <2>1. r = [base EXCEPT !.pc = "purge"] BY <1>7
  <2>2. PICK s : s = [base EXCEPT !.pc = "purge"] OBVIOUS
  <2>3. /\ s \in ExchangeRecords /\ s.pc = "purge" /\ s.method = m
        /\ s.task = t /\ s.context = c /\ s.cluster = None
    BY <2>2, <1>2 DEF ExchangeRecords
  <2>4. ExchangeSound(s)' BY <2>3, <1>3, <1>4, <1>7 DEF ExchangeSound
  <2>5. Move(e, s) BY <1>1, <2>1, <2>2
  <2> QED BY <1>1, <2>3, <2>4, <2>5, StoreUntouched DEF At, RouteTypes
<1> QED BY <1>5, <1>6, <1>7

\* A record of an exchange that is at `pc`.
LEMMA CarriedOn ==
  ASSUME RoutesInv, NEW e \in Exchanges, NEW pcs, At(e, pcs)
  PROVE  /\ ex[e] # None /\ ex[e] \in ExchangeRecords /\ ExchangeSound(ex[e])
         /\ ex[e].pc \in pcs
BY DEF RoutesInv, RouteTypes, ExchangesSound, At

\* The write-locked half of a lookup looks again before it removes.
LEMMA PurgeKeeps == ASSUME RoutesInv, NEW e \in Exchanges, Purge(e) PROVE Good
<1>1. PICK s \in ExchangeRecords : s = ex[e] /\ ExchangeSound(s) /\ s.pc = "purge"
  BY CarriedOn DEF Purge
<1> DEFINE key == LookupKey(s.method, s.task, s.context)
           r == [s EXCEPT !.pc = "forward"]
<1>2. /\ RouteTypes /\ OwnersNamed /\ ExchangesSound /\ MapsBounded
      /\ ~At(e, {"store"}) /\ Move(e, r) /\ routes' = Purged(key)
      /\ UNCHANGED <<now, swept, owner, finished>>
  BY <1>1 DEF RoutesInv, Purge, At
<1>3. r \in ExchangeRecords /\ ExchangeSound(r)'
  BY <1>1, <1>2 DEF ExchangeSound, ExchangeRecords
<1>4. /\ routes' \in [Ids -> Routes \cup {None}]
      /\ \A i \in Ids : routes'[i] # None => routes'[i] = routes[i]
      /\ \A i \in Ids : Fresh(i) => routes'[i] = routes[i] /\ routes[i] # None
  BY <1>2 DEF RouteTypes, Purged, Fresh
<1>5. ex' \in [Exchanges -> ExchangeRecords \cup {None}] /\ ExchangesSound'
  BY <1>2, <1>3, ExchangeMoves
<1>6. RefusedFull BY <1>2, NobodyRefused
<1>7. RouteTypes' BY <1>2, <1>4, <1>5 DEF RouteTypes
<1>8. OwnersNamed' BY <1>2, <1>4 DEF OwnersNamed, Ids
<1>9. MapsBounded' BY <1>2, <1>4, FewerRoutes
<1>10. LiveKept BY <1>4 DEF LiveKept
<1> QED BY <1>5, <1>6, <1>7, <1>8, <1>9, <1>10 DEF Good, RoutesInv

\* A cluster answers a task method only about a task of its own.
LEMMA ForwardTaskKeeps ==
  ASSUME RoutesInv, NEW e \in Exchanges, NEW cl \in Clusters, ForwardTask(e, cl)
  PROVE  Good
<1>1. PICK s \in ExchangeRecords : s = ex[e] /\ ExchangeSound(s) /\ s.pc = "forward"
  BY CarriedOn DEF ForwardTask, Sent
<1>2. PICK r : r = IF owner[s.task] # cl THEN None
                   ELSE [s EXCEPT !.pc = "reply", !.cluster = cl]
  OBVIOUS
<1>3. /\ Move(e, r) /\ ~At(e, {"store"}) /\ task_routable(s.method)
      /\ UNCHANGED <<now, routes, swept, owner, finished>>
  BY <1>1, <1>2 DEF ForwardTask, At
<1>4. ASSUME r # None PROVE r \in ExchangeRecords /\ ExchangeSound(r)'
  <2>1. r = [s EXCEPT !.pc = "reply", !.cluster = cl] /\ owner[s.task] = cl BY <1>2, <1>4
  <2>2. /\ r \in ExchangeRecords /\ r.pc = "reply" /\ r.method = s.method
        /\ r.task = s.task /\ r.cluster = cl
    BY <2>1 DEF ExchangeRecords
  <2> QED BY <2>1, <2>2, <1>1, <1>3 DEF ExchangeSound
<1> QED BY <1>3, <1>4, StoreUntouched DEF RoutesInv, RouteTypes

\* A message creates a task, which its cluster owns from then on.
LEMMA ForwardMessageKeeps ==
  ASSUME RoutesInv, NEW e \in Exchanges, NEW cl \in Clusters, NEW t \in Tasks,
         NEW c \in Contexts, ForwardMessage(e, cl, t, c)
  PROVE  Good
<1>1. PICK s \in ExchangeRecords : s = ex[e] /\ ExchangeSound(s) /\ s.pc = "forward"
  BY CarriedOn DEF ForwardMessage, Sent
<1>2. PICK r : r = [s EXCEPT !.pc = "reply", !.cluster = cl, !.task = t, !.context = c]
  OBVIOUS
<1>3. /\ Move(e, r) /\ ~At(e, {"store"}) /\ ~task_routable(s.method)
      /\ owner[t] = None /\ owner' = [owner EXCEPT ![t] = cl]
      /\ UNCHANGED <<now, routes, swept, finished>>
  BY <1>1, <1>2 DEF ForwardMessage, At
<1>4. /\ r \in ExchangeRecords /\ r.pc = "reply" /\ r.method = s.method
      /\ r.task = t /\ r.cluster = cl
  BY <1>2 DEF ExchangeRecords
<1>5. /\ owner' \in [Tasks -> Clusters \cup {None}] /\ owner'[t] = cl
      /\ \A u \in Tasks : owner[u] # None => owner'[u] = owner[u]
  BY <1>3 DEF RoutesInv, RouteTypes
<1>6. ExchangeSound(r)' BY <1>3, <1>4, <1>5 DEF ExchangeSound
<1> QED BY <1>3, <1>4, <1>5, <1>6, StoreUntouched

\* A backend completes a task: a terminal event that is under way stays about a
\* finished task.
LEMMA CompleteKeeps == ASSUME RoutesInv, NEW t \in Tasks, CompleteTask(t) PROVE Good
<1>1. UNCHANGED <<now, routes, swept, ex, owner>> /\ finished \subseteq finished'
  BY DEF CompleteTask
<1>2. RouteTypes' /\ OwnersNamed' /\ MapsBounded'
  BY <1>1 DEF RoutesInv, RouteTypes, OwnersNamed, MapsBounded, InMap
<1>3. ExchangesSound' BY <1>1 DEF RoutesInv, ExchangesSound, ExchangeSound
<1>4. LiveKept BY <1>1 DEF LiveKept, Fresh
<1>5. RefusedFull BY <1>1 DEF RefusedFull
<1> QED BY <1>2, <1>3, <1>4, <1>5 DEF Good, RoutesInv

\* An exchange ends without storing anything.
LEMMA EndKeeps ==
  ASSUME RoutesInv, NEW e \in Exchanges, Cancel(e) \/ EndReply(e) PROVE Good
<1>1. /\ Move(e, None) /\ ~At(e, {"store"}) /\ UNCHANGED <<now, routes, swept, owner>>
      /\ finished \subseteq finished'
  BY DEF Cancel, EndReply, At
<1> QED BY <1>1, StoreUntouched DEF RoutesInv, RouteTypes

\* A capture notes the state the reply names, and its expiry, before any lock.
LEMMA CaptureKeeps == ASSUME RoutesInv, NEW e \in Exchanges, Capture(e) PROVE Good
<1>1. PICK s \in ExchangeRecords : s = ex[e] /\ ExchangeSound(s) /\ s.pc = "reply"
  BY CarriedOn DEF Capture
<1> DEFINE over == s.task \in finished
<1>2. PICK x : x = now + (IF over THEN TerminalTtl ELSE Ttl) OBVIOUS
<1>3. x \in Nat BY <1>2, RoutesAssumption DEF RoutesInv, RouteTypes
<1>4. PICK v : v = IF over THEN "terminal" ELSE "working" OBVIOUS
<1>5. PICK r : r = [s EXCEPT !.pc = "store", !.event = v, !.expires = x] OBVIOUS
<1>6. /\ Move(e, r) /\ ~At(e, {"store"})
      /\ UNCHANGED <<now, routes, swept, owner, finished>>
  BY <1>1, <1>2, <1>4, <1>5 DEF Capture, At
<1>7. /\ r \in ExchangeRecords /\ r.pc = "store" /\ r.method = s.method
      /\ r.task = s.task /\ r.cluster = s.cluster /\ r.event = v
  BY <1>3, <1>4, <1>5 DEF ExchangeRecords
<1>8. ExchangeSound(r)' BY <1>1, <1>4, <1>6, <1>7 DEF ExchangeSound
<1> QED BY <1>6, <1>7, <1>8, StoreUntouched DEF RoutesInv, RouteTypes

\* The task's route is written, or removed with its finished task.
LEMMA StoreTaskKeeps == ASSUME RoutesInv, NEW e \in Exchanges, StoreTask(e) PROVE Good
<1>1. PICK s \in ExchangeRecords : s = ex[e] /\ ExchangeSound(s) /\ s.pc = "store"
  BY CarriedOn DEF StoreTask
<1>2. PICK x : x = now + Ttl OBVIOUS
<1>3. PICK r : r = [s EXCEPT !.pc = "context", !.expires = x] OBVIOUS
<1>4. /\ RouteTypes /\ OwnersNamed /\ ExchangesSound /\ MapsBounded
      /\ Move(e, r) /\ UNCHANGED <<now, owner, finished>>
  BY <1>1, <1>2, <1>3 DEF RoutesInv, StoreTask
<1>5. x \in Nat BY <1>2, <1>4, RoutesAssumption DEF RouteTypes
<1>6. /\ r \in ExchangeRecords /\ r.pc = "context" /\ r.method = s.method
      /\ r.task = s.task /\ r.cluster = s.cluster
  BY <1>3, <1>5 DEF ExchangeRecords
<1>7. ExchangeSound(r)' BY <1>1, <1>4, <1>6 DEF ExchangeSound
<1>8. ex' \in [Exchanges -> ExchangeRecords \cup {None}] /\ ExchangesSound'
  BY <1>4, <1>6, <1>7, ExchangeMoves
<1>9. /\ s.task \in Tasks /\ s.task \in Ids /\ MapOf(s.task) = "task"
      /\ s.cluster \in Clusters /\ s.cluster = owner[s.task] /\ s.expires \in Nat
      /\ \A f \in Exchanges : f # e => ex'[f] = ex[f]
  BY <1>1, <1>4 DEF ExchangeSound, ExchangeRecords, Ids, MapOf, Move, RouteTypes
<1>10. CASE Removes(e)
  <2>1. routes' = [routes EXCEPT ![s.task] = None]
    BY <1>1, <1>10 DEF StoreTask
  <2>2. s.event = "terminal" /\ TerminalTtl = 0 /\ s.task \in finished
    BY <1>1, <1>10 DEF Removes, ExchangeSound
  <2>3. /\ routes' \in [Ids -> Routes \cup {None}]
        /\ \A i \in Ids : routes'[i] # None => routes'[i] = routes[i]
        /\ \A i \in Ids : i # s.task => routes'[i] = routes[i]
    BY <2>1, <1>4 DEF RouteTypes
  <2>4. RouteTypes' BY <1>4, <1>8, <2>3 DEF RouteTypes
  <2>5. OwnersNamed' BY <1>4, <2>3 DEF OwnersNamed, Ids
  <2>6. MapsBounded' BY <1>4, <2>3, FewerRoutes
  <2>7. LiveKept BY <2>2, <2>3 DEF LiveKept, Fresh
  <2>8. RefusedFull BY <1>9, <1>10 DEF RefusedFull
  <2> QED BY <1>8, <2>4, <2>5, <2>6, <2>7, <2>8 DEF Good, RoutesInv
<1>11. CASE ~Removes(e)
  <2>1. Put("task", s.task, s.cluster, s.expires) BY <1>1, <1>11 DEF StoreTask
  <2>2. /\ routes' \in [Ids -> Routes \cup {None}]
        /\ \A t \in Tasks : routes'[t] # None => routes'[t].cluster = owner[t]
        /\ MapsBounded'
        /\ \A i \in Ids : Fresh(i) => routes'[i] # None
    BY <1>4, <1>9, <2>1, PutSound
  <2>3. RouteTypes' BY <1>4, <1>8, <2>2 DEF RouteTypes
  <2>4. OwnersNamed' BY <1>4, <2>2 DEF OwnersNamed
  <2>5. LiveKept BY <2>2 DEF LiveKept
  <2>6. routes'[s.task] = None /\ SweepDue("task") =>
          Cardinality({k \in Tasks : Fresh(k)}) >= MaxRoutes
    BY <1>4, <1>9, <2>1, PutRefused
  <2>7. RefusedFull BY <1>1, <1>9, <2>6 DEF RefusedFull
  <2> QED BY <1>8, <2>2, <2>3, <2>4, <2>5, <2>7 DEF Good, RoutesInv
<1> QED BY <1>10, <1>11

\* ... and then the context's.
LEMMA StoreContextKeeps == ASSUME RoutesInv, NEW e \in Exchanges, StoreContext(e) PROVE Good
<1>1. PICK s \in ExchangeRecords : s = ex[e] /\ ExchangeSound(s) /\ s.pc = "context"
  BY CarriedOn DEF StoreContext
<1>2. PICK r : r = IF sse_capable(s.method)
                   THEN [s EXCEPT !.pc = "reply", !.event = None, !.expires = 0] ELSE None
  OBVIOUS
<1>3. /\ RouteTypes /\ OwnersNamed /\ ExchangesSound /\ MapsBounded
      /\ Move(e, r) /\ ~At(e, {"store"}) /\ UNCHANGED <<now, owner, finished>>
  BY <1>1, <1>2 DEF RoutesInv, StoreContext, At
<1>4. ASSUME r # None PROVE r \in ExchangeRecords /\ ExchangeSound(r)'
  <2>1. r = [s EXCEPT !.pc = "reply", !.event = None, !.expires = 0] BY <1>2, <1>4
  <2>2. /\ r \in ExchangeRecords /\ r.pc = "reply" /\ r.method = s.method
        /\ r.task = s.task /\ r.cluster = s.cluster
    BY <2>1 DEF ExchangeRecords
  <2> QED BY <2>2, <1>1, <1>3 DEF ExchangeSound
<1>5. CASE s.context = None
  <2>1. UNCHANGED routes BY <1>1, <1>5 DEF StoreContext
  <2> QED BY <1>3, <1>4, <2>1, StoreUntouched DEF RouteTypes
<1>6. CASE s.context # None
  <2>1. /\ s.context \in Contexts /\ s.context \in Ids /\ s.context \notin Tasks
        /\ MapOf(s.context) = "context"
        /\ s.cluster \in Clusters /\ s.expires \in Nat
    BY <1>1, <1>6, RoutesAssumption DEF ExchangeSound, ExchangeRecords, Ids, MapOf
  <2>2. Put("context", s.context, s.cluster, s.expires) BY <1>1, <1>6 DEF StoreContext
  <2>3. /\ routes' \in [Ids -> Routes \cup {None}]
        /\ \A t \in Tasks : routes'[t] # None => routes'[t].cluster = owner[t]
        /\ MapsBounded'
        /\ \A i \in Ids : Fresh(i) => routes'[i] # None
    BY <1>3, <2>1, <2>2, PutSound
  <2>4. ex' \in [Exchanges -> ExchangeRecords \cup {None}] /\ ExchangesSound'
    BY <1>3, <1>4, ExchangeMoves
  <2>5. RouteTypes' BY <1>3, <2>3, <2>4 DEF RouteTypes
  <2>6. OwnersNamed' BY <1>3, <2>3 DEF OwnersNamed
  <2>7. LiveKept BY <2>3 DEF LiveKept
  <2>8. RefusedFull BY <1>3, NobodyRefused
  <2> QED BY <2>3, <2>4, <2>5, <2>6, <2>7, <2>8 DEF Good, RoutesInv
<1> QED BY <1>5, <1>6

\* Time makes routes expire; it changes nothing in the store.
LEMMA RouteTickKeeps == ASSUME RoutesInv, Tick PROVE Good
<1>1. now \in Nat /\ now' = now + 1 /\ UNCHANGED <<routes, swept, ex, owner, finished>>
  BY DEF Tick, RoutesInv, RouteTypes
<1>2. RouteTypes' /\ OwnersNamed' /\ MapsBounded'
  BY <1>1 DEF RoutesInv, RouteTypes, OwnersNamed, MapsBounded, InMap
<1>3. ExchangesSound' BY <1>1 DEF RoutesInv, ExchangesSound, ExchangeSound
<1>4. LiveKept BY <1>1 DEF LiveKept, Fresh
<1>5. RefusedFull BY <1>1 DEF RefusedFull
<1> QED BY <1>2, <1>3, <1>4, <1>5 DEF Good, RoutesInv

\* Every step keeps the invariant, the live routes and the promise of the sweeps.
LEMMA RouteStep == ASSUME RoutesInv, Next PROVE Good
<1>1. CASE Tick BY <1>1, RouteTickKeeps
<1>2. CASE \E t \in Tasks : CompleteTask(t) BY <1>2, CompleteKeeps
<1>3. ASSUME NEW e \in Exchanges,
             \E m \in Methods, t \in Tasks \cup {None}, c \in Contexts \cup {None} :
               (task_routable(m) <=> t # None) /\ Lookup(e, m, t, c)
      PROVE  Good
  BY <1>3, LookupKeeps
<1>4. ASSUME NEW e \in Exchanges, NEW cl \in Clusters,
             ForwardTask(e, cl) \/ \E t \in Tasks, c \in Contexts : ForwardMessage(e, cl, t, c)
      PROVE  Good
  BY <1>4, ForwardTaskKeeps, ForwardMessageKeeps
<1>5. ASSUME NEW e \in Exchanges,
             Purge(e) \/ Cancel(e) \/ Capture(e) \/ EndReply(e) \/ StoreTask(e) \/ StoreContext(e)
      PROVE  Good
  BY <1>5, PurgeKeeps, EndKeeps, CaptureKeeps, StoreTaskKeeps, StoreContextKeeps
<1> QED BY <1>1, <1>2, <1>3, <1>4, <1>5 DEF Next

\* A step that changes nothing keeps the invariant.
LEMMA RouteStutter == ASSUME RoutesInv, UNCHANGED vars PROVE RoutesInv'
<1>1. UNCHANGED <<now, routes, swept, ex, owner, finished>> BY DEF vars
<1>2. RouteTypes' /\ OwnersNamed' /\ MapsBounded'
  BY <1>1 DEF RoutesInv, RouteTypes, OwnersNamed, MapsBounded, InMap
<1>3. ExchangesSound' BY <1>1 DEF RoutesInv, ExchangesSound, ExchangeSound
<1> QED BY <1>2, <1>3 DEF RoutesInv

\* Empty maps are sound.
LEMMA RoutesStart == Init => RoutesInv
<1> SUFFICES ASSUME Init PROVE RoutesInv OBVIOUS
<1>1. RouteTypes /\ OwnersNamed /\ ExchangesSound
  BY DEF Init, RouteTypes, OwnersNamed, ExchangesSound, Ids
<1>2. \A m \in {"task", "context"} : InMap(m) = {} BY DEF Init, InMap
<1>3. IsFiniteSet({}) /\ Cardinality({}) = 0 BY FS_EmptySet
<1>4. MapsBounded BY <1>2, <1>3, RoutesAssumption DEF MapsBounded
<1> QED BY <1>1, <1>4 DEF RoutesInv

\* Routing by task ownership, for any number of exchanges, tasks, contexts and
\* clusters, all limits and times to live: a task method is never sent to a
\* cluster that does not own its task, and neither map outgrows its limit.
THEOREM RoutesStaySound == Spec => []RoutesSound
<1>1. Init => RoutesInv BY RoutesStart
<1>2. RoutesInv /\ [Next]_vars => RoutesInv' BY RouteStep, RouteStutter DEF Good
<1>3. RoutesInv => RoutesSound
  <2> SUFFICES ASSUME RoutesInv PROVE RoutesSound OBVIOUS
  <2>1. RoutedToOwner
    BY DEF RoutesInv, OwnersNamed, ExchangesSound, ExchangeSound, RoutedToOwner, At
  <2>2. WithinCapacity BY DEF RoutesInv, MapsBounded, WithinCapacity
  <2> QED BY <2>1, <2>2 DEF RoutesSound
<1> QED BY <1>1, <1>2, <1>3, PTL DEF Spec

\* The lazy removal of expired routes races with captures that refresh them; it
\* never removes a live one, and a refused route met a map full of live routes or
\* one swept less than an interval ago.
THEOREM RoutesDoTurnOver == Spec => RoutesTurnOver
<1>1. Init => RoutesInv BY RoutesStart
<1>2. RoutesInv /\ [Next]_vars => RoutesInv' BY RouteStep, RouteStutter DEF Good
<1>3. RoutesInv /\ [Next]_vars =>
        [\A id \in Ids : Fresh(id) /\ routes'[id] = None =>
            TerminalTtl = 0 /\ id \in finished]_vars
  BY RouteStep DEF Good, LiveKept
<1>4. RoutesInv /\ [Next]_vars =>
        [\A e \in Exchanges :
          LET t == ex[e].task
              fresh == {k \in Tasks : Fresh(k)}
          IN  At(e, {"store"}) /\ ~Removes(e) /\ ex'[e] # ex[e]
                 /\ routes'[t] = None =>
                    \/ ~SweepDue("task")
                    \/ Cardinality(fresh) >= MaxRoutes]_vars
  BY RouteStep DEF Good, RefusedFull
<1> QED BY <1>1, <1>2, <1>3, <1>4, PTL DEF Spec, RoutesTurnOver, LiveRouteKept, StaleRoutesYield

-----------------------------------------------------------------------------
(* TransactionPool: the inductive invariant                                *)

Stages == [at : {"out", "permit"}]
            \cup [at : {"conn", "watched", "done"}, conn : Connections]

PoolTypes ==
  /\ permits \in Nat
  /\ idle \in Seq(Connections)
  /\ watching \subseteq opened
  /\ opened \subseteq Connections
  /\ user \in [PoolUsers -> Stages]
  /\ failures \in [Connections -> Nat]

\* Every idle connection is there once, and nobody uses it.
IdleApart ==
  /\ Len(idle) <= MaxIdle
  /\ \A i, j \in DOMAIN idle : idle[i] = idle[j] => i = j
  /\ \A u \in PoolUsers : Held(u) => \A i \in DOMAIN idle : idle[i] # user[u].conn

HeldApart == \A u, v \in PoolUsers : Held(u) /\ Held(v) /\ user[u].conn = user[v].conn => u = v

\* What is idle or in use was opened and has failed nobody.
Unfailed(c) == c \in opened /\ failures[c] = 0
StillGood ==
  /\ \A i \in DOMAIN idle : Unfailed(idle[i])
  /\ \A u \in PoolUsers : Held(u) => Unfailed(user[u].conn)
  /\ \A c \in Connections : failures[c] <= 1 /\ (c \notin opened => failures[c] = 0)

\* Only a transaction between its WATCH and its end watches.
WatchesEnd ==
  /\ \A i \in DOMAIN idle : idle[i] \notin watching
  /\ \A u \in PoolUsers : user[u].at \in {"conn", "done"} => user[u].conn \notin watching

PermitsHeld == IsFiniteSet(Holders) /\ permits + Cardinality(Holders) = MaxOut

PoolInv == PoolTypes /\ IdleApart /\ HeldApart /\ StillGood /\ WatchesEnd /\ PermitsHeld

-----------------------------------------------------------------------------
(* Permits                                                                 *)

\* A task that enters the pool takes the permit that is counted for it.
LEMMA PermitTaken ==
  ASSUME PoolTypes, PermitsHeld, NEW u \in PoolUsers, user[u].at = "out",
         NEW s \in Stages, s.at # "out", user' = [user EXCEPT ![u] = s],
         permits > 0, permits' = permits - 1
  PROVE  permits' \in Nat /\ PermitsHeld'
<1>1. IsFiniteSet(Holders) /\ permits + Cardinality(Holders) = MaxOut
      /\ permits \in Nat /\ user \in [PoolUsers -> Stages]
  BY DEF PermitsHeld, PoolTypes
<1>2. Holders' = Holders \cup {u} /\ u \notin Holders BY <1>1 DEF Holders
<1>3. IsFiniteSet(Holders') /\ Cardinality(Holders') = Cardinality(Holders) + 1
  BY <1>1, <1>2, FS_AddElement
<1>4. Cardinality(Holders) \in Nat BY <1>1, FS_CardinalityType
<1> QED BY <1>1, <1>3, <1>4 DEF PermitsHeld

\* A task that leaves it gives the permit back.
LEMMA PermitGiven ==
  ASSUME PoolTypes, PermitsHeld, NEW u \in PoolUsers, user[u].at # "out",
         user' = [user EXCEPT ![u] = OutOfPool], permits' = permits + 1
  PROVE  permits' \in Nat /\ PermitsHeld'
<1>1. IsFiniteSet(Holders) /\ permits + Cardinality(Holders) = MaxOut
      /\ permits \in Nat /\ user \in [PoolUsers -> Stages]
  BY DEF PermitsHeld, PoolTypes
<1>2. Holders' = Holders \ {u} /\ u \in Holders BY <1>1 DEF Holders, OutOfPool
<1>3. IsFiniteSet(Holders') /\ Cardinality(Holders') = Cardinality(Holders) - 1
  BY <1>1, <1>2, FS_RemoveElement
<1>4. Cardinality(Holders) \in Nat BY <1>1, FS_CardinalityType
<1> QED BY <1>1, <1>3, <1>4 DEF PermitsHeld

\* A task that stays in the pool keeps it.
LEMMA PermitKept ==
  ASSUME PoolTypes, PermitsHeld, NEW u \in PoolUsers, user[u].at # "out",
         NEW s \in Stages, s.at # "out", user' = [user EXCEPT ![u] = s], permits' = permits
  PROVE  PermitsHeld'
<1>1. Holders' = Holders BY DEF Holders, PoolTypes
<1> QED BY <1>1 DEF PermitsHeld

-----------------------------------------------------------------------------
(* Steps                                                                   *)

\* A permit is taken.
LEMMA AcquireKeeps == ASSUME PoolInv, NEW u \in PoolUsers, Acquire(u) PROVE PoolInv'
<1>1. PoolTypes /\ IdleApart /\ HeldApart /\ StillGood /\ WatchesEnd /\ PermitsHeld
  BY DEF PoolInv
<1>2. PICK s : s = [at |-> "permit"] OBVIOUS
<1>3. /\ user[u].at = "out" /\ permits > 0 /\ permits' = permits - 1
      /\ user' = [user EXCEPT ![u] = s]
      /\ UNCHANGED <<idle, dead, watching, opened, failures>>
  BY <1>2 DEF Acquire, AtStage
<1>4. s \in Stages /\ s.at = "permit" BY <1>2 DEF Stages
<1>5. permits' \in Nat /\ PermitsHeld' BY <1>1, <1>3, <1>4, PermitTaken
<1>6. user' \in [PoolUsers -> Stages] /\ user'[u] = s
      /\ \A v \in PoolUsers : v # u => user'[v] = user[v]
  BY <1>1, <1>3, <1>4 DEF PoolTypes
<1>7. \A v \in PoolUsers : (Held(v)' => Held(v) /\ user'[v] = user[v])
  BY <1>4, <1>6 DEF Held
<1>8. PoolTypes' BY <1>1, <1>3, <1>5, <1>6 DEF PoolTypes
<1>9. IdleApart' BY <1>1, <1>3, <1>7 DEF IdleApart
<1>10. HeldApart' BY <1>1, <1>7 DEF HeldApart
<1>11. StillGood' BY <1>1, <1>3, <1>7 DEF StillGood, Unfailed
<1>12. WatchesEnd' BY <1>1, <1>3, <1>4, <1>6 DEF WatchesEnd
<1> QED BY <1>5, <1>8, <1>9, <1>10, <1>11, <1>12 DEF PoolInv

\* A connection is handed out: nobody else has it, it has failed nobody and it
\* watches nothing.
LEMMA HandedOut ==
  ASSUME PoolInv, NEW u \in PoolUsers, AtStage(u, "permit"), NEW c \in Connections,
         Holding(u, "conn", c), UNCHANGED <<permits, dead, watching, failures>>,
         idle' \in Seq(Connections), Len(idle') <= MaxIdle,
         \A i \in DOMAIN idle' : i \in DOMAIN idle /\ idle'[i] = idle[i] /\ idle[i] # c,
         opened \subseteq opened', opened' \subseteq Connections, c \in opened',
         failures[c] = 0, c \notin watching,
         \A v \in PoolUsers : Held(v) => user[v].conn # c
  PROVE  PoolInv'
<1>1. PoolTypes /\ IdleApart /\ HeldApart /\ StillGood /\ WatchesEnd /\ PermitsHeld
  BY DEF PoolInv
<1>2. PICK s : s = [at |-> "conn", conn |-> c] OBVIOUS
<1>3. user' = [user EXCEPT ![u] = s] /\ user[u].at = "permit"
  BY <1>2 DEF Holding, AtStage
<1>4. s \in Stages /\ s.at = "conn" /\ s.conn = c BY <1>2 DEF Stages
<1>5. PermitsHeld' BY <1>1, <1>3, <1>4, PermitKept
<1>6. user' \in [PoolUsers -> Stages] /\ user'[u] = s
      /\ \A v \in PoolUsers : v # u => user'[v] = user[v]
  BY <1>1, <1>3, <1>4 DEF PoolTypes
<1>7. \A v \in PoolUsers : Held(v)' => (v = u /\ user'[v].conn = c)
                                       \/ (v # u /\ Held(v) /\ user'[v] = user[v])
  BY <1>4, <1>6 DEF Held
<1>8. PoolTypes' BY <1>1, <1>6 DEF PoolTypes
<1>9. IdleApart' BY <1>1, <1>7 DEF IdleApart
<1>10. HeldApart' BY <1>1, <1>7 DEF HeldApart
<1>11. StillGood'
  <2>1. \A i \in DOMAIN idle' : Unfailed(idle[i])' BY <1>1 DEF StillGood, Unfailed
  <2>2. \A v \in PoolUsers : Held(v)' => Unfailed(user[v].conn)'
    BY <1>1, <1>7 DEF StillGood, Unfailed
  <2> QED BY <1>1, <2>1, <2>2 DEF StillGood
<1>12. WatchesEnd' BY <1>1, <1>4, <1>6 DEF WatchesEnd
<1> QED BY <1>5, <1>8, <1>9, <1>10, <1>11, <1>12 DEF PoolInv

\* The connection that was returned last is taken from the list.
LEMMA CheckOutIdleKeeps ==
  ASSUME PoolInv, NEW u \in PoolUsers, CheckOutIdle(u) PROVE PoolInv'
<1>1. PoolTypes /\ IdleApart /\ HeldApart /\ StillGood /\ WatchesEnd /\ PermitsHeld
  BY DEF PoolInv
<1>2. PICK n \in Nat : n = Len(idle) BY <1>1 DEF PoolTypes
<1>3. /\ idle \in Seq(Connections) /\ DOMAIN idle = 1..n /\ n # 0 /\ n <= MaxIdle
      /\ MaxIdle \in Nat
  BY <1>1, <1>2, ConnectionsAssumption DEF PoolTypes, CheckOutIdle, IdleApart
<1>4. PICK c \in Connections : c = idle[n] BY <1>3
<1>5. /\ AtStage(u, "permit") /\ Holding(u, "conn", c) /\ idle' = SubSeq(idle, 1, n - 1)
      /\ UNCHANGED <<permits, dead, watching, opened, failures>>
  BY <1>2, <1>4 DEF CheckOutIdle, Last, Front
<1>6. /\ idle' \in Seq(Connections) /\ DOMAIN idle' = 1..(n - 1) /\ Len(idle') = n - 1
      /\ \A i \in 1..(n - 1) : idle'[i] = idle[i]
  BY <1>3, <1>5
<1>7. \A i \in DOMAIN idle' : i \in DOMAIN idle /\ idle'[i] = idle[i] /\ idle[i] # c
  BY <1>1, <1>3, <1>4, <1>6 DEF IdleApart
<1>8. Len(idle') <= MaxIdle BY <1>3, <1>6
<1>9. Unfailed(c) /\ c \notin watching /\ \A v \in PoolUsers : Held(v) => user[v].conn # c
  BY <1>1, <1>3, <1>4 DEF StillGood, WatchesEnd, IdleApart
<1>10. opened' = opened /\ opened' \subseteq Connections BY <1>1, <1>5 DEF PoolTypes
<1> QED BY <1>5, <1>6, <1>7, <1>8, <1>9, <1>10, HandedOut DEF Unfailed

\* Nothing is idle: a connection is opened.
LEMMA CheckOutNewKeeps ==
  ASSUME PoolInv, NEW u \in PoolUsers, CheckOutNew(u) PROVE PoolInv'
<1>1. PoolTypes /\ IdleApart /\ StillGood BY DEF PoolInv
<1>2. PICK c \in Connections \ opened : Holding(u, "conn", c) /\ opened' = opened \cup {c}
  BY DEF CheckOutNew
<1>3. AtStage(u, "permit") /\ idle = <<>> /\ UNCHANGED <<permits, idle, dead, watching, failures>>
  BY DEF CheckOutNew
<1>4. /\ failures[c] = 0 /\ c \notin watching
      /\ \A v \in PoolUsers : Held(v) => user[v].conn # c
  BY <1>1, <1>2 DEF PoolTypes, StillGood, Unfailed
<1>5. /\ idle' \in Seq(Connections) /\ Len(idle') <= MaxIdle /\ DOMAIN idle' = {}
  BY <1>1, <1>3 DEF PoolTypes, IdleApart
<1>6. opened \subseteq opened' /\ opened' \subseteq Connections /\ c \in opened'
  BY <1>1, <1>2 DEF PoolTypes
<1> QED BY <1>2, <1>3, <1>4, <1>5, <1>6, HandedOut

\* A transaction goes on with its connection: a WATCH is its own, and gone when it
\* is done.
LEMMA GoesOn ==
  ASSUME PoolInv, NEW u \in PoolUsers, Held(u), NEW l \in {"watched", "done"},
         Holding(u, l, user[u].conn), UNCHANGED <<permits, idle, dead, opened, failures>>,
         watching' \subseteq watching \cup {user[u].conn},
         l = "done" => user[u].conn \notin watching'
  PROVE  PoolInv'
<1>1. PoolTypes /\ IdleApart /\ HeldApart /\ StillGood /\ WatchesEnd /\ PermitsHeld
  BY DEF PoolInv
<1>2. user[u] \in Stages /\ user[u].at \in {"conn", "watched", "done"} BY <1>1 DEF PoolTypes, Held
<1>3. PICK c \in Connections : c = user[u].conn BY <1>2 DEF Stages
<1>4. PICK s : s = [at |-> l, conn |-> c] OBVIOUS
<1>5. user' = [user EXCEPT ![u] = s] /\ user[u].at # "out" BY <1>2, <1>3, <1>4 DEF Holding
<1>6. s \in Stages /\ s.at = l /\ s.conn = c /\ s.at # "out" BY <1>4 DEF Stages
<1>7. PermitsHeld' BY <1>1, <1>5, <1>6, PermitKept
<1>8. user' \in [PoolUsers -> Stages] /\ user'[u] = s
      /\ \A v \in PoolUsers : v # u => user'[v] = user[v]
  BY <1>1, <1>5, <1>6 DEF PoolTypes
<1>9. \A v \in PoolUsers : Held(v)' => Held(v) /\ user'[v].conn = user[v].conn
  BY <1>3, <1>6, <1>8 DEF Held
<1>10. c \in opened /\ \A i \in DOMAIN idle : idle[i] # c
  BY <1>1, <1>3 DEF StillGood, Unfailed, IdleApart
<1>11. PoolTypes' BY <1>1, <1>3, <1>8, <1>10 DEF PoolTypes
<1>12. IdleApart' BY <1>1, <1>9 DEF IdleApart
<1>13. HeldApart' BY <1>1, <1>9 DEF HeldApart
<1>14. StillGood' BY <1>1, <1>9 DEF StillGood, Unfailed
<1>15. WatchesEnd'
  <2>1. \A i \in DOMAIN idle' : idle'[i] \notin watching'
    BY <1>1, <1>3, <1>10 DEF WatchesEnd
  <2>2. ASSUME NEW v \in PoolUsers, user'[v].at \in {"conn", "done"}
        PROVE  user'[v].conn \notin watching'
    <3>1. CASE v = u BY <3>1, <2>2, <1>3, <1>6, <1>8
    <3>2. CASE v # u
      <4>1. user'[v] = user[v] /\ Held(v) BY <3>2, <2>2, <1>8 DEF Held
      <4>2. user[v].conn # c BY <4>1, <3>2, <1>1, <1>3 DEF HeldApart
      <4> QED BY <4>1, <4>2, <2>2, <1>1, <1>3 DEF WatchesEnd
    <3> QED BY <3>1, <3>2
  <2> QED BY <2>1, <2>2 DEF WatchesEnd
<1> QED BY <1>7, <1>11, <1>12, <1>13, <1>14, <1>15 DEF PoolInv

\* WATCH, and what ends it.
LEMMA WatchKeeps ==
  ASSUME PoolInv, NEW u \in PoolUsers, Watch(u) \/ Complete(u) PROVE PoolInv'
<1>1. CASE Watch(u)
  <2>1. Held(u) /\ Holding(u, "watched", user[u].conn) BY <1>1 DEF Watch, AtStage, Held
  <2> QED BY <1>1, <2>1, GoesOn DEF Watch
<1>2. CASE Complete(u)
  <2>1. Held(u) /\ Holding(u, "done", user[u].conn) BY <1>2 DEF Complete, AtStage, Held
  <2> QED BY <1>2, <2>1, GoesOn DEF Complete, EndWatch
<1> QED BY <1>1, <1>2

\* A task leaves the pool; its connection is kept only if it is done, and what is
\* dropped may have failed.
LEMMA LeavesPool ==
  ASSUME PoolInv, NEW u \in PoolUsers, user[u].at # "out",
         user' = [user EXCEPT ![u] = OutOfPool], permits' = permits + 1,
         UNCHANGED <<dead, watching, opened>>,
         \/ idle' = idle
         \/ /\ user[u].at = "done" /\ Len(idle) < MaxIdle
            /\ idle' = Append(idle, user[u].conn) /\ failures' = failures,
         \/ failures' = failures
         \/ Held(u) /\ failures' = [failures EXCEPT ![user[u].conn] = @ + 1]
  PROVE  PoolInv'
<1>1. PoolTypes /\ IdleApart /\ HeldApart /\ StillGood /\ WatchesEnd /\ PermitsHeld
  BY DEF PoolInv
<1>2. permits' \in Nat /\ PermitsHeld' BY <1>1, PermitGiven
<1>3. /\ user' \in [PoolUsers -> Stages] /\ user'[u] = OutOfPool
      /\ \A v \in PoolUsers : v # u => user'[v] = user[v]
  BY <1>1 DEF PoolTypes, Stages, OutOfPool
<1>4. \A v \in PoolUsers : Held(v)' => v # u /\ Held(v) /\ user'[v] = user[v]
  BY <1>3 DEF Held, OutOfPool
<1>5. \A v \in PoolUsers : user'[v].at \in {"conn", "done"} => user'[v] = user[v]
  BY <1>3 DEF OutOfPool
<1>6. HeldApart' BY <1>1, <1>4 DEF HeldApart
<1>7. CASE idle' = idle /\ failures' = failures
  <2>1. PoolTypes' BY <1>1, <1>2, <1>3, <1>7 DEF PoolTypes
  <2>2. IdleApart' BY <1>1, <1>4, <1>7 DEF IdleApart
  <2>3. StillGood' BY <1>1, <1>4, <1>7 DEF StillGood, Unfailed
  <2>4. WatchesEnd' BY <1>1, <1>5, <1>7 DEF WatchesEnd
  <2> QED BY <1>2, <1>6, <2>1, <2>2, <2>3, <2>4 DEF PoolInv
<1>8. CASE idle' = idle /\ Held(u) /\ failures' = [failures EXCEPT ![user[u].conn] = @ + 1]
  <2>1. PICK c \in Connections : c = user[u].conn BY <1>1, <1>8 DEF PoolTypes, Stages, Held
  <2>2. /\ failures \in [Connections -> Nat] /\ failures' = [failures EXCEPT ![c] = failures[c] + 1]
        /\ Unfailed(c) /\ (\A i \in DOMAIN idle : idle[i] # c)
        /\ \A v \in PoolUsers : Held(v)' => user'[v].conn # c
    BY <1>1, <1>4, <1>8, <2>1 DEF PoolTypes, StillGood, IdleApart, HeldApart
  <2>3. /\ failures' \in [Connections -> Nat] /\ failures'[c] = 1
        /\ \A d \in Connections : d # c => failures'[d] = failures[d]
    BY <2>2 DEF Unfailed
  <2>4. PoolTypes' BY <1>1, <1>2, <1>3, <1>8, <2>3 DEF PoolTypes
  <2>5. IdleApart' BY <1>1, <1>4, <1>8 DEF IdleApart
  <2>6. \A i \in DOMAIN idle' : Unfailed(idle[i])'
    BY <1>1, <1>8, <2>2, <2>3 DEF StillGood, Unfailed, PoolTypes
  <2>7. \A v \in PoolUsers : Held(v)' => Unfailed(user[v].conn)'
    BY <1>1, <1>4, <2>2, <2>3 DEF StillGood, Unfailed, PoolTypes
  <2>8. \A d \in Connections : failures'[d] <= 1 /\ (d \notin opened' => failures'[d] = 0)
    BY <1>1, <2>2, <2>3 DEF StillGood, Unfailed
  <2>9. StillGood' BY <2>6, <2>7, <2>8 DEF StillGood
  <2>10. WatchesEnd' BY <1>1, <1>5, <1>8 DEF WatchesEnd
  <2> QED BY <1>2, <1>6, <2>4, <2>5, <2>9, <2>10 DEF PoolInv
<1>9. CASE /\ user[u].at = "done" /\ Len(idle) < MaxIdle
           /\ idle' = Append(idle, user[u].conn) /\ failures' = failures
  <2>1. PICK c \in Connections : c = user[u].conn BY <1>1, <1>9 DEF PoolTypes, Stages
  <2>2. PICK n \in Nat : n = Len(idle) BY <1>1 DEF PoolTypes
  <2>3. idle \in Seq(Connections) /\ DOMAIN idle = 1..n /\ idle' = Append(idle, c)
        /\ n < MaxIdle /\ MaxIdle \in Nat
    BY <1>1, <1>9, <2>1, <2>2, ConnectionsAssumption DEF PoolTypes
  <2>4. /\ idle' \in Seq(Connections) /\ DOMAIN idle' = 1..(n + 1) /\ Len(idle') = n + 1
        /\ idle'[n + 1] = c /\ \A i \in 1..n : idle'[i] = idle[i]
    BY <2>2, <2>3
  <2>5. Held(u) /\ Unfailed(c) /\ c \notin watching /\ (\A i \in 1..n : idle[i] # c)
        /\ \A v \in PoolUsers : Held(v)' => user'[v].conn # c
    <3>1. Held(u) /\ user[u].at = "done" /\ user[u].conn = c
      BY <1>9, <2>1 DEF Held
    <3>2. Unfailed(c) /\ c \notin watching
      BY <1>1, <3>1 DEF StillGood, WatchesEnd
    <3>3. \A i \in 1..n : idle[i] # c
      BY <1>1, <2>3, <3>1 DEF IdleApart
    <3>4. \A v \in PoolUsers : Held(v)' => user'[v].conn # c
      BY <1>1, <1>4, <3>1 DEF HeldApart
    <3> QED BY <3>1, <3>2, <3>3, <3>4
  <2>6. PoolTypes' BY <1>1, <1>2, <1>3, <1>9, <2>4 DEF PoolTypes
  <2>7. \A i \in 1..(n + 1) : i \in 1..n \/ i = n + 1 BY <2>2
  <2>8. \A i, j \in DOMAIN idle' : idle'[i] = idle'[j] => i = j
    BY <1>1, <2>3, <2>4, <2>5, <2>7 DEF IdleApart
  <2>9. \A v \in PoolUsers : Held(v)' => \A i \in DOMAIN idle' : idle'[i] # user'[v].conn
    BY <1>1, <1>4, <2>3, <2>4, <2>5, <2>7 DEF IdleApart
  <2>10. IdleApart' BY <2>3, <2>4, <2>8, <2>9 DEF IdleApart
  <2>11. \A i \in DOMAIN idle' : Unfailed(idle[i])'
    BY <1>1, <1>9, <2>3, <2>4, <2>5, <2>7 DEF StillGood, Unfailed
  <2>12. StillGood' BY <1>1, <1>4, <1>9, <2>11 DEF StillGood, Unfailed
  <2>13. WatchesEnd' BY <1>1, <1>5, <2>3, <2>4, <2>5, <2>7 DEF WatchesEnd
  <2> QED BY <1>2, <1>6, <2>6, <2>10, <2>12, <2>13 DEF PoolInv
<1> QED BY <1>7, <1>8, <1>9

\* Finished, failed or dropped at an await.
LEMMA LeavingKeeps ==
  ASSUME PoolInv, NEW u \in PoolUsers, FinishWith(u) \/ Fails(u) \/ Abandon(u) PROVE PoolInv'
<1>1. CASE FinishWith(u)
  <2>1. user[u].at = "done" /\ user[u].at # "out" BY <1>1 DEF FinishWith, AtStage
  <2> QED BY <1>1, <2>1, LeavesPool DEF FinishWith
<1>2. CASE Fails(u)
  <2>1. Held(u) /\ user[u].at # "out" BY <1>2 DEF Fails, Held
  <2> QED BY <1>2, <2>1, LeavesPool DEF Fails, AfterFailure
<1>3. CASE Abandon(u)
  <2>1. user[u].at # "out" BY <1>3 DEF Abandon
  <2> QED BY <1>3, <2>1, LeavesPool DEF Abandon, Released
<1> QED BY <1>1, <1>2, <1>3

\* A restart of the server forgets every WATCH.
LEMMA RestartKeeps == ASSUME PoolInv, Restart PROVE PoolInv'
<1>1. watching' = {} /\ UNCHANGED <<permits, idle, opened, user, failures>> BY DEF Restart
<1>2. PoolTypes' /\ IdleApart' /\ HeldApart' /\ StillGood'
  BY <1>1 DEF PoolInv, PoolTypes, IdleApart, HeldApart, StillGood, Held, Unfailed
<1>3. WatchesEnd' BY <1>1 DEF WatchesEnd
<1>4. PermitsHeld' BY <1>1 DEF PoolInv, PermitsHeld, Holders
<1> QED BY <1>2, <1>3, <1>4 DEF PoolInv

\* As many distinct connections are idle as the list is long.
LEMMA IdleCounted ==
  ASSUME idle \in Seq(Connections), \A i, j \in DOMAIN idle : idle[i] = idle[j] => i = j
  PROVE  Cardinality(ToSet(idle)) = Len(idle)
<1>1. PICK n \in Nat : n = Len(idle) OBVIOUS
<1>2. DOMAIN idle = 1..n BY <1>1
<1>3. PICK S : S = ToSet(idle) OBVIOUS
<1>4. S = {idle[i] : i \in 1..n} BY <1>2, <1>3 DEF ToSet
<1>5. idle \in Bijection(1..n, S)
  BY <1>2, <1>4 DEF Bijection, Injection, Surjection, IsInjective
<1>6. ExistsBijection(1..n, S) BY <1>5 DEF ExistsBijection
<1>7. Cardinality(S) = n BY <1>6, FS_CountingElements
<1> QED BY <1>1, <1>3, <1>7

\* The pool of connections for transactions, for any number of tasks, connections,
\* permits and idle slots, whatever fails, is dropped or restarts: no connection is
\* shared or handed on with a WATCH, no permit is lost, and a connection fails at
\* most one request.
THEOREM PoolStaysSound == PoolSpec => []PoolSound
<1>1. PoolInit => PoolInv
  <2> SUFFICES ASSUME PoolInit PROVE PoolInv OBVIOUS
  <2>1. /\ permits = MaxOut /\ idle = <<>> /\ watching = {} /\ opened = {}
        /\ user = [u \in PoolUsers |-> OutOfPool] /\ failures = [c \in Connections |-> 0]
    BY DEF PoolInit
  <2>2. \A u \in PoolUsers : user[u].at = "out" /\ user[u] \in Stages BY <2>1 DEF OutOfPool, Stages
  <2>3. PoolTypes BY <2>1, <2>2, ConnectionsAssumption DEF PoolTypes
  <2>4. IdleApart /\ HeldApart /\ StillGood /\ WatchesEnd
    BY <2>1, <2>2, ConnectionsAssumption DEF IdleApart, HeldApart, StillGood, WatchesEnd, Held
  <2>5. Holders = {} BY <2>2 DEF Holders
  <2>6. PermitsHeld BY <2>1, <2>5, FS_EmptySet, ConnectionsAssumption DEF PermitsHeld
  <2> QED BY <2>3, <2>4, <2>6 DEF PoolInv
<1>2. PoolInv /\ [PoolNext]_poolVars => PoolInv'
  <2> SUFFICES ASSUME PoolInv, [PoolNext]_poolVars PROVE PoolInv' OBVIOUS
  <2>1. CASE \E u \in PoolUsers : PoolStep(u)
    BY <2>1, AcquireKeeps, CheckOutIdleKeeps, CheckOutNewKeeps, WatchKeeps, LeavingKeeps
       DEF PoolStep
  <2>2. CASE Restart BY <2>2, RestartKeeps
  <2>3. CASE UNCHANGED poolVars
    <3>1. UNCHANGED <<permits, idle, dead, watching, opened, user, failures>>
      BY <2>3 DEF poolVars
    <3>2. PoolTypes' /\ IdleApart' /\ HeldApart' /\ StillGood' /\ WatchesEnd'
      BY <3>1 DEF PoolInv, PoolTypes, IdleApart, HeldApart, StillGood, WatchesEnd, Held, Unfailed
    <3>3. PermitsHeld' BY <3>1 DEF PoolInv, PermitsHeld, Holders
    <3> QED BY <3>2, <3>3 DEF PoolInv
  <2> QED BY <2>1, <2>2, <2>3 DEF PoolNext
<1>3. PoolInv => PoolSound
  <2> SUFFICES ASSUME PoolInv PROVE PoolSound OBVIOUS
  <2>1. PoolTypes /\ IdleApart /\ HeldApart /\ StillGood /\ WatchesEnd /\ PermitsHeld
    BY DEF PoolInv
  <2>2. Cardinality(ToSet(idle)) = Len(idle)
    BY <2>1, IdleCounted DEF PoolTypes, IdleApart
  <2>3. ConnectionsExclusive
    BY <2>1, <2>2 DEF ConnectionsExclusive, IdleApart, HeldApart, ToSet
  <2>4. NoDanglingWatch BY <2>1 DEF NoDanglingWatch, WatchesEnd, ToSet, AtStage
  <2>5. PermitsConserved /\ OneFailureEach
    BY <2>1 DEF PermitsConserved, OneFailureEach, PermitsHeld, StillGood
  <2> QED BY <2>3, <2>4, <2>5 DEF PoolSound
<1> QED BY <1>1, <1>2, <1>3, PTL DEF PoolSpec

-----------------------------------------------------------------------------
(* AccountingMarker: the inductive invariant                               *)

Waypoints == {"idle", "generation", "scan", "scan2", "claim", "watch", "init", "owner",
              "mismatch"}

MarkerTypes ==
  /\ generation \in {"none", "v3", "legacy"}
  /\ sequence \in BOOLEAN /\ index \in BOOLEAN /\ legacyRan \in BOOLEAN
  /\ pc \in [Gateways -> Waypoints]
  /\ found \in [Gateways -> BOOLEAN]
  /\ clean \in [Gateways -> BOOLEAN]

\* Nobody gets past the generation, and no marker is set, before it is claimed.
GenerationFirst ==
  /\ marker # NoMarker => generation = "v3"
  /\ \A g \in Gateways : pc[g] \in {"watch", "init", "owner"} => generation = "v3"
  /\ \A g \in Gateways : pc[g] = "owner" => marker = Config[g]

\* A transaction whose WATCH still holds would find no marker and no index.
WatchHolds == \A g \in Gateways : pc[g] = "init" /\ clean[g] => marker = NoMarker /\ ~index

\* Before the claim there is only what legacy writers wrote, and a scan that found
\* something found that.
LegacyOnly ==
  /\ generation = "none" => (sequence \/ quota # {} \/ index => legacyRan)
  /\ generation = "none" => \A g \in Gateways : found[g] => legacyRan
  /\ generation = "legacy" => legacyRan

\* Quota state without an index is a leftover, and every scan sees its sequence.
LeftoversSeen ==
  quota # {} /\ ~index =>
    /\ sequence /\ generation # "v3"
    /\ \A g \in Gateways : pc[g] \in {"scan2", "claim"} => found[g]

MarkerInv ==
  MarkerTypes /\ NeverMixed /\ GenerationFirst /\ WatchHolds /\ LegacyOnly /\ LeftoversSeen

\* The marker is claimed only while no quota state is alive.
Adopts == marker = NoMarker /\ marker' # NoMarker => quota = {}

-----------------------------------------------------------------------------
(* Steps                                                                   *)

\* A gateway moves on and writes nothing; the generation allows where it goes.
LEMMA MovesOn ==
  ASSUME MarkerInv, NEW g \in Gateways, NEW l \in Waypoints, GoTo(g, l),
         UNCHANGED <<generation, marker, sequence, quota, index, legacyRan>>,
         found' \in [Gateways -> BOOLEAN], clean' \in [Gateways -> BOOLEAN],
         \A h \in Gateways : h # g => found'[h] = found[h] /\ clean'[h] = clean[h],
         l \in {"watch", "init", "owner"} => generation = "v3",
         l = "owner" => marker = Config[g],
         l = "init" /\ clean'[g] => marker = NoMarker /\ ~index,
         generation = "none" /\ found'[g] => legacyRan,
         l \in {"scan2", "claim"} /\ quota # {} /\ ~index => found'[g]
  PROVE  MarkerInv' /\ Adopts
<1>1. MarkerTypes /\ NeverMixed /\ GenerationFirst /\ WatchHolds /\ LegacyOnly /\ LeftoversSeen
  BY DEF MarkerInv
<1>2. /\ pc' \in [Gateways -> Waypoints] /\ pc'[g] = l
      /\ \A h \in Gateways : h # g => pc'[h] = pc[h]
  BY <1>1 DEF GoTo, MarkerTypes
<1>3. MarkerTypes' BY <1>1, <1>2 DEF MarkerTypes
<1>4. NeverMixed' BY <1>1 DEF NeverMixed
<1>5. GenerationFirst' BY <1>1, <1>2 DEF GenerationFirst
<1>6. WatchHolds' BY <1>1, <1>2 DEF WatchHolds
<1>7. LegacyOnly' BY <1>1 DEF LegacyOnly
<1>8. LeftoversSeen' BY <1>1, <1>2 DEF LeftoversSeen
<1>9. Adopts BY DEF Adopts
<1> QED BY <1>3, <1>4, <1>5, <1>6, <1>7, <1>8, <1>9 DEF MarkerInv

\* Both markers are read; the generation is read once more.
LEMMA ReadKeepsMarkers ==
  ASSUME MarkerInv, NEW g \in Gateways, ReadMarkers(g) \/ ReadGeneration(g)
  PROVE  MarkerInv' /\ Adopts
<1>1. MarkerTypes /\ LegacyOnly BY DEF MarkerInv
<1>2. CASE ReadMarkers(g)
  <2>1. PICK l : /\ GoTo(g, l)
                 /\ l = CASE generation = "none" -> "generation"
                          [] generation = "legacy" -> "mismatch"
                          [] generation = "v3" /\ marker # NoMarker -> Verdict(g, marker)
                          [] OTHER -> "watch"
    BY <1>2 DEF ReadMarkers
  <2>2. l \in {"generation", "mismatch"} \/ (generation = "v3" /\ l = "watch")
        \/ (generation = "v3" /\ l = "owner" /\ marker = Config[g])
    BY <2>1, <1>1 DEF Verdict, MarkerTypes
  <2>3. UNCHANGED <<generation, marker, sequence, quota, index, found, clean, legacyRan>>
    BY <1>2 DEF ReadMarkers, markerKeys
  <2>4. l \in Waypoints /\ l # "init" /\ l \notin {"scan2", "claim"} BY <2>2 DEF Waypoints
  <2>5. generation = "none" /\ found'[g] => legacyRan BY <1>1, <2>3 DEF LegacyOnly
  <2> QED BY <1>1, <2>1, <2>2, <2>3, <2>4, <2>5, MovesOn DEF MarkerTypes
<1>3. CASE ReadGeneration(g)
  <2>1. PICK l : /\ GoTo(g, l)
                 /\ l = CASE generation = "none" -> "scan"
                          [] generation = "v3" -> "watch"
                          [] OTHER -> "mismatch"
    BY <1>3 DEF ReadGeneration
  <2>2. l \in {"scan", "mismatch"} \/ (generation = "v3" /\ l = "watch")
    BY <2>1, <1>1 DEF MarkerTypes
  <2>3. /\ UNCHANGED <<generation, marker, sequence, quota, index, clean, legacyRan>>
        /\ found' = [found EXCEPT ![g] = FALSE]
    BY <1>3 DEF ReadGeneration, markerKeys
  <2>4. /\ found' \in [Gateways -> BOOLEAN] /\ ~found'[g]
        /\ \A h \in Gateways : h # g => found'[h] = found[h]
    BY <1>1, <2>3 DEF MarkerTypes
  <2>5. l \in Waypoints /\ l \notin {"init", "owner", "scan2", "claim"} BY <2>2 DEF Waypoints
  <2> QED BY <1>1, <2>1, <2>2, <2>3, <2>4, <2>5, MovesOn DEF MarkerTypes
<1> QED BY <1>2, <1>3

\* A scan sees the sequence first, then what else there is.
LEMMA ScanKeeps ==
  ASSUME MarkerInv, NEW g \in Gateways, ScanFirst(g) \/ ScanRest(g)
  PROVE  MarkerInv' /\ Adopts
<1>1. MarkerTypes /\ LegacyOnly /\ LeftoversSeen BY DEF MarkerInv
<1>2. CASE ScanFirst(g)
  <2>1. /\ UNCHANGED <<generation, marker, sequence, quota, index, clean, legacyRan>>
        /\ GoTo(g, "scan2") /\ found' = [found EXCEPT ![g] = sequence]
    BY <1>2 DEF ScanFirst, markerKeys
  <2>2. /\ found' \in [Gateways -> BOOLEAN] /\ found'[g] = sequence
        /\ \A h \in Gateways : h # g => found'[h] = found[h]
    BY <1>1, <2>1 DEF MarkerTypes
  <2>3. generation = "none" /\ found'[g] => legacyRan BY <1>1, <2>2 DEF LegacyOnly
  <2>4. quota # {} /\ ~index => found'[g] BY <1>1, <2>2 DEF LeftoversSeen
  <2> QED BY <1>1, <2>1, <2>2, <2>3, <2>4, MovesOn DEF MarkerTypes, Waypoints
<1>3. CASE ScanRest(g)
  <2>1. /\ UNCHANGED <<generation, marker, sequence, quota, index, clean, legacyRan>>
        /\ GoTo(g, "claim") /\ pc[g] = "scan2"
        /\ found' = [found EXCEPT ![g] = found[g] \/ quota # {} \/ index]
    BY <1>3 DEF ScanRest, markerKeys
  <2>2. /\ found' \in [Gateways -> BOOLEAN] /\ (found'[g] <=> found[g] \/ quota # {} \/ index)
        /\ \A h \in Gateways : h # g => found'[h] = found[h]
    BY <1>1, <2>1 DEF MarkerTypes
  <2>3. generation = "none" /\ found'[g] => legacyRan BY <1>1, <2>2 DEF LegacyOnly
  <2>4. quota # {} /\ ~index => found'[g] BY <2>2
  <2> QED BY <1>1, <2>1, <2>2, <2>3, <2>4, MovesOn DEF MarkerTypes, Waypoints
<1> QED BY <1>2, <1>3

\* The claim: the first one stays, and a scan that found something leaves a tombstone.
LEMMA ClaimedRight ==
  ASSUME MarkerInv, NEW g \in Gateways, pc[g] = "claim", NEW l \in Waypoints, GoTo(g, l),
         generation' = Claimed(IF found[g] THEN "legacy" ELSE "v3"),
         l \in {"idle", "mismatch"} \/ (generation' = "v3" /\ l = "watch"),
         UNCHANGED <<marker, sequence, quota, index, found, clean, legacyRan>>
  PROVE  MarkerInv' /\ Adopts
<1>1. MarkerTypes /\ NeverMixed /\ GenerationFirst /\ WatchHolds /\ LegacyOnly /\ LeftoversSeen
  BY DEF MarkerInv
<1>2. /\ pc' \in [Gateways -> Waypoints] /\ pc'[g] = l
      /\ \A h \in Gateways : h # g => pc'[h] = pc[h]
  BY <1>1 DEF GoTo, MarkerTypes
<1>3. /\ generation # "none" => generation' = generation
      /\ generation = "none" /\ found[g] => generation' = "legacy"
      /\ generation = "none" /\ ~found[g] => generation' = "v3"
  BY DEF Claimed
<1>4. MarkerTypes' BY <1>1, <1>2, <1>3 DEF MarkerTypes
<1>5. NeverMixed' BY <1>1 DEF NeverMixed
<1>6. GenerationFirst' BY <1>1, <1>2, <1>3 DEF GenerationFirst
<1>7. WatchHolds' BY <1>1, <1>2 DEF WatchHolds
<1>8. LegacyOnly' BY <1>1, <1>3, <1>4 DEF LegacyOnly, MarkerTypes
<1>9. LeftoversSeen' BY <1>1, <1>2, <1>3 DEF LeftoversSeen
<1>10. Adopts BY DEF Adopts
<1> QED BY <1>4, <1>5, <1>6, <1>7, <1>8, <1>9, <1>10 DEF MarkerInv

\* WATCH: with no marker and no index the transaction may be sent.
LEMMA WatchKeepsMarkers ==
  ASSUME MarkerInv, NEW g \in Gateways, WatchMarker(g) PROVE MarkerInv' /\ Adopts
<1>1. MarkerTypes /\ GenerationFirst /\ LegacyOnly BY DEF MarkerInv
<1>2. PICK l : /\ GoTo(g, l)
               /\ l = IF marker # NoMarker THEN Verdict(g, marker)
                      ELSE IF index THEN "mismatch" ELSE "init"
  BY DEF WatchMarker
<1>3. /\ pc[g] = "watch" /\ clean' = [clean EXCEPT ![g] = TRUE]
      /\ UNCHANGED <<generation, marker, sequence, quota, index, found, legacyRan>>
  BY DEF WatchMarker, markerKeys
<1>4. generation = "v3" BY <1>1, <1>3 DEF GenerationFirst
<1>5. l = "mismatch" \/ (l = "owner" /\ marker = Config[g])
      \/ (l = "init" /\ marker = NoMarker /\ ~index)
  BY <1>2 DEF Verdict
<1>6. clean' \in [Gateways -> BOOLEAN] /\ \A h \in Gateways : h # g => clean'[h] = clean[h]
  BY <1>1, <1>3 DEF MarkerTypes
<1>7. l \in Waypoints /\ l \notin {"scan2", "claim"} BY <1>5 DEF Waypoints
<1> QED BY <1>1, <1>2, <1>3, <1>4, <1>5, <1>6, <1>7, MovesOn DEF MarkerTypes

\* The marker is claimed under a WATCH that still holds.
LEMMA MarkerClaimed ==
  ASSUME MarkerInv, NEW g \in Gateways, pc[g] = "init", clean[g],
         NEW l \in {"owner", "idle"}, GoTo(g, l), marker' = Config[g], Touch,
         UNCHANGED <<generation, sequence, quota, index, found, legacyRan>>
  PROVE  MarkerInv' /\ Adopts
<1>1. MarkerTypes /\ NeverMixed /\ GenerationFirst /\ WatchHolds /\ LegacyOnly /\ LeftoversSeen
  BY DEF MarkerInv
<1>2. marker = NoMarker /\ ~index /\ generation = "v3"
  BY <1>1 DEF WatchHolds, GenerationFirst
<1>3. quota = {} BY <1>1, <1>2 DEF LeftoversSeen
<1>4. /\ pc' \in [Gateways -> Waypoints] /\ pc'[g] = l
      /\ \A h \in Gateways : h # g => pc'[h] = pc[h]
  BY <1>1 DEF GoTo, MarkerTypes, Waypoints
<1>5. \A h \in Gateways : pc[h] # "owner"
  BY <1>1, <1>2, AccountingMarkerAssumption DEF GenerationFirst
<1>6. clean' \in [Gateways -> BOOLEAN] /\ \A h \in Gateways : ~clean'[h] BY DEF Touch
<1>7. MarkerTypes' BY <1>1, <1>4, <1>6 DEF MarkerTypes
<1>8. NeverMixed' BY <1>3 DEF NeverMixed
<1>9. GenerationFirst' BY <1>1, <1>2, <1>4, <1>5 DEF GenerationFirst
<1>10. WatchHolds' BY <1>6 DEF WatchHolds
<1>11. LegacyOnly' BY <1>2 DEF LegacyOnly
<1>12. LeftoversSeen' BY <1>3 DEF LeftoversSeen
<1>13. Adopts BY <1>3 DEF Adopts
<1> QED BY <1>7, <1>8, <1>9, <1>10, <1>11, <1>12, <1>13 DEF MarkerInv

\* An owner writes its quota state, with the index and the sequence.
LEMMA OwnerWrites ==
  ASSUME MarkerInv, NEW g \in Gateways, pc[g] = "owner", GoTo(g, "idle"),
         sequence' = TRUE, quota' = quota \cup {Config[g]}, index' = TRUE, Touch,
         UNCHANGED <<generation, marker, found, legacyRan>>
  PROVE  MarkerInv' /\ Adopts
<1>1. MarkerTypes /\ NeverMixed /\ GenerationFirst /\ WatchHolds /\ LegacyOnly /\ LeftoversSeen
  BY DEF MarkerInv
<1>2. marker = Config[g] /\ generation = "v3" BY <1>1 DEF GenerationFirst
<1>3. /\ pc' \in [Gateways -> Waypoints] /\ pc'[g] = "idle"
      /\ \A h \in Gateways : h # g => pc'[h] = pc[h]
  BY <1>1 DEF GoTo, MarkerTypes, Waypoints
<1>4. clean' \in [Gateways -> BOOLEAN] /\ \A h \in Gateways : ~clean'[h] BY DEF Touch
<1>5. MarkerTypes' BY <1>1, <1>3, <1>4 DEF MarkerTypes
<1>6. NeverMixed' BY <1>1, <1>2 DEF NeverMixed
<1>7. GenerationFirst' BY <1>1, <1>2, <1>3 DEF GenerationFirst
<1>8. WatchHolds' BY <1>4 DEF WatchHolds
<1>9. LegacyOnly' BY <1>2 DEF LegacyOnly
<1>10. LeftoversSeen' BY DEF LeftoversSeen
<1>11. Adopts BY DEF Adopts
<1> QED BY <1>5, <1>6, <1>7, <1>8, <1>9, <1>10, <1>11 DEF MarkerInv

\* An operation that fails may still have run its last command.
LEMMA OperationFailsKeeps ==
  ASSUME MarkerInv, NEW g \in Gateways, OperationFails(g) PROVE MarkerInv' /\ Adopts
<1>1. MarkerTypes /\ LegacyOnly BY DEF MarkerInv
<1>2. GoTo(g, "idle") /\ UNCHANGED <<found, legacyRan>> /\ "idle" \in Waypoints
  BY DEF OperationFails, Waypoints
<1>3. CASE UNCHANGED <<markerKeys, clean>>
  <2>1. UNCHANGED <<generation, marker, sequence, quota, index, clean>> BY <1>3 DEF markerKeys
  <2>2. generation = "none" /\ found'[g] => legacyRan BY <1>1, <1>2 DEF LegacyOnly
  <2> QED BY <1>1, <1>2, <2>1, <2>2, MovesOn DEF MarkerTypes
<1>4. CASE /\ pc[g] = "claim" /\ UNCHANGED <<marker, sequence, quota, index, clean>>
           /\ generation' = Claimed(IF found[g] THEN "legacy" ELSE "v3")
  BY <1>2, <1>4, ClaimedRight
<1>5. CASE /\ pc[g] = "init" /\ MayInit(g) /\ marker' = Config[g] /\ Touch
           /\ UNCHANGED <<generation, sequence, quota, index>>
  BY <1>2, <1>5, MarkerClaimed DEF MayInit
<1>6. CASE /\ pc[g] = "owner" /\ sequence' = TRUE /\ quota' = quota \cup {Config[g]}
           /\ index' = TRUE /\ Touch /\ UNCHANGED <<generation, marker>>
  BY <1>2, <1>6, OwnerWrites
<1> QED BY <1>3, <1>4, <1>5, <1>6 DEF OperationFails

\* Any other step of a gateway.
LEMMA GatewayKeeps ==
  ASSUME MarkerInv, NEW g \in Gateways,
         ClaimGeneration(g) \/ InitMarker(g) \/ WriteQuota(g) \/ Refused(g)
  PROVE  MarkerInv' /\ Adopts
<1>1. MarkerTypes /\ GenerationFirst /\ LegacyOnly BY DEF MarkerInv
<1>2. CASE ClaimGeneration(g)
  <2>1. PICK l : GoTo(g, l) /\ l = IF generation' = "v3" THEN "watch" ELSE "mismatch"
    BY <1>2 DEF ClaimGeneration
  <2>2. l \in Waypoints /\ (l = "mismatch" \/ (generation' = "v3" /\ l = "watch"))
    BY <2>1 DEF Waypoints
  <2> QED BY <1>2, <2>1, <2>2, ClaimedRight DEF ClaimGeneration
<1>3. CASE InitMarker(g)
  <2>1. CASE MayInit(g) BY <1>3, <2>1, MarkerClaimed DEF InitMarker, MayInit
  <2>2. CASE ~MayInit(g)
    <3>1. /\ pc[g] = "init" /\ GoTo(g, "watch") /\ "watch" \in Waypoints
          /\ UNCHANGED <<generation, marker, sequence, quota, index, found, clean, legacyRan>>
      BY <1>3, <2>2 DEF InitMarker, Waypoints
    <3>2. generation = "v3" BY <1>1, <3>1 DEF GenerationFirst
    <3> QED BY <1>1, <3>1, <3>2, MovesOn DEF MarkerTypes
  <2> QED BY <2>1, <2>2
<1>4. CASE WriteQuota(g) BY <1>4, OwnerWrites DEF WriteQuota
<1>5. CASE Refused(g)
  <2>1. /\ GoTo(g, "idle") /\ "idle" \in Waypoints
        /\ UNCHANGED <<generation, marker, sequence, quota, index, found, clean, legacyRan>>
    BY <1>5 DEF Refused, Waypoints, markerKeys
  <2>2. generation = "none" /\ found'[g] => legacyRan BY <1>1, <2>1 DEF LegacyOnly
  <2> QED BY <1>1, <2>1, <2>2, MovesOn DEF MarkerTypes
<1> QED BY <1>2, <1>3, <1>4, <1>5

\* Legacy writers write and keys expire at any time.
LEMMA OthersKeep == ASSUME MarkerInv, LegacyWrite \/ Expire PROVE MarkerInv' /\ Adopts
<1>1. MarkerTypes /\ NeverMixed /\ GenerationFirst /\ WatchHolds /\ LegacyOnly /\ LeftoversSeen
  BY DEF MarkerInv
<1>2. clean' \in [Gateways -> BOOLEAN] /\ \A h \in Gateways : ~clean'[h]
  BY DEF LegacyWrite, Expire, Touch
<1>3. UNCHANGED <<generation, marker, pc, found>> BY DEF LegacyWrite, Expire
<1>4. MarkerTypes' BY <1>1, <1>2, <1>3 DEF MarkerTypes, LegacyWrite, Expire
<1>5. NeverMixed' BY <1>1, <1>3 DEF NeverMixed, LegacyWrite, Expire
<1>6. GenerationFirst' BY <1>1, <1>3 DEF GenerationFirst
<1>7. WatchHolds' BY <1>2 DEF WatchHolds
<1>8. LegacyOnly' BY <1>1, <1>3 DEF LegacyOnly, LegacyWrite, Expire
<1>9. LeftoversSeen' BY DEF LeftoversSeen, LegacyWrite, Expire
<1>10. Adopts BY <1>3 DEF Adopts
<1> QED BY <1>4, <1>5, <1>6, <1>7, <1>8, <1>9, <1>10 DEF MarkerInv

\* Every step keeps the invariant and adopts no live state.
LEMMA MarkerStep == ASSUME MarkerInv, MarkerNext PROVE MarkerInv' /\ Adopts
<1>1. ASSUME NEW g \in Gateways,
             \/ ReadMarkers(g) \/ ReadGeneration(g) \/ ScanFirst(g) \/ ScanRest(g)
             \/ ClaimGeneration(g) \/ WatchMarker(g) \/ InitMarker(g) \/ WriteQuota(g)
             \/ Refused(g) \/ OperationFails(g)
      PROVE  MarkerInv' /\ Adopts
  BY <1>1, ReadKeepsMarkers, ScanKeeps, WatchKeepsMarkers, GatewayKeeps, OperationFailsKeeps
<1> QED BY <1>1, OthersKeep DEF MarkerNext

\* A step that changes nothing keeps it.
LEMMA MarkerStutter == ASSUME MarkerInv, UNCHANGED markerVars PROVE MarkerInv'
<1>1. UNCHANGED <<generation, marker, sequence, quota, index, pc, found, clean, legacyRan>>
  BY DEF markerVars, markerKeys
<1> QED BY <1>1 DEF MarkerInv, MarkerTypes, NeverMixed, GenerationFirst, WatchHolds,
                    LegacyOnly, LeftoversSeen

\* Whatever legacy writers left behind.
LEMMA MarkerStart == MarkerInit => MarkerInv
<1> SUFFICES ASSUME MarkerInit PROVE MarkerInv OBVIOUS
<1>1. /\ generation = "none" /\ marker = NoMarker /\ sequence \in BOOLEAN
      /\ quota \in {{}, {Legacy}} /\ index \in BOOLEAN /\ (index => quota # {})
      /\ (quota # {} => sequence) /\ legacyRan = sequence
  BY DEF MarkerInit
<1>2. /\ pc = [g \in Gateways |-> "idle"] /\ found = [g \in Gateways |-> FALSE]
      /\ clean = [g \in Gateways |-> FALSE]
  BY DEF MarkerInit
<1>3. MarkerTypes BY <1>1, <1>2 DEF MarkerTypes, Waypoints
<1>4. NeverMixed BY <1>1 DEF NeverMixed
<1>5. GenerationFirst /\ WatchHolds BY <1>1, <1>2 DEF GenerationFirst, WatchHolds
<1>6. LegacyOnly /\ LeftoversSeen BY <1>1, <1>2 DEF LegacyOnly, LeftoversSeen
<1> QED BY <1>3, <1>4, <1>5, <1>6 DEF MarkerInv

\* Gateways of any number and any configurations claim a namespace, with legacy
\* writers, lost replies and expiring keys between their steps: no two
\* configurations account in one state, and only legacy state leaves a tombstone.
THEOREM MarkersStaySound == MarkerSpec => []MarkerSound
<1>1. MarkerInit => MarkerInv BY MarkerStart
<1>2. MarkerInv /\ [MarkerNext]_markerVars => MarkerInv' BY MarkerStep, MarkerStutter
<1>3. MarkerInv => MarkerSound
  BY DEF MarkerInv, MarkerSound, GenerationFirst, LegacyOnly, OwnersAgree, TombstoneJustified
<1> QED BY <1>1, <1>2, <1>3, PTL DEF MarkerSpec

\* A marker is claimed only while no quota state of the rule is alive, though the
\* index is read long before the transaction runs.
THEOREM LiveStateNeverAdopted == MarkerSpec => NoLiveStateAdopted
<1>1. MarkerInit => MarkerInv BY MarkerStart
<1>2. MarkerInv /\ [MarkerNext]_markerVars => MarkerInv' BY MarkerStep, MarkerStutter
<1>3. MarkerInv /\ [MarkerNext]_markerVars =>
        [(marker = NoMarker /\ marker' # NoMarker) => quota = {}]_markerVars
  BY MarkerStep DEF Adopts
<1> QED BY <1>1, <1>2, <1>3, PTL DEF MarkerSpec, NoLiveStateAdopted

-----------------------------------------------------------------------------
(* RouteOverlay: documents                                                 *)

First(d, g) == Min(Members(d, g))

\* A set of indices with a least element.
LEMMA MinIs ==
  ASSUME NEW S, S \subseteq Nat, S # {}
  PROVE  /\ Min(S) \in S /\ \A j \in S : Min(S) <= j
<1>1. PICK x \in S : \A j \in S : x <= j
  BY LeastExists
<1> QED BY <1>1 DEF Min

\* A document's candidates.
LEMMA DocFacts ==
  ASSUME NEW d \in Docs
  PROVE  /\ d.mode \in Modes /\ d.cands \in Seq(Candidates) /\ Len(d.cands) \in Nat
         /\ DOMAIN d.cands = 1..Len(d.cands) /\ IsFiniteSet(DOMAIN d.cands)
         /\ \A i \in DOMAIN d.cands : /\ d.cands[i] \in Candidates
                                      /\ d.cands[i].id \in CandidateIds \ {Nothing}
                                      /\ d.cands[i].group \in Nat \cup {Nothing}
         /\ \A i, j \in DOMAIN d.cands : d.cands[i].id = d.cands[j].id => i = j
         /\ Groups(d) \subseteq Nat
         /\ \A g : Members(d, g) \subseteq DOMAIN d.cands
<1>1. /\ d.mode \in Modes /\ d.cands \in Seq(Candidates)
      /\ \A i, j \in DOMAIN d.cands : d.cands[i].id = d.cands[j].id => i = j
      /\ \A i \in DOMAIN d.cands : d.cands[i].id # Nothing
  BY OverlayAssumption
<1>2. Len(d.cands) \in Nat /\ DOMAIN d.cands = 1..Len(d.cands)
      /\ \A i \in DOMAIN d.cands : d.cands[i] \in Candidates
  BY <1>1
<1>3. IsFiniteSet(DOMAIN d.cands)
  <2>1. PICK L : L = Len(d.cands)
    OBVIOUS
  <2>2. L \in Int /\ 1 \in Int /\ DOMAIN d.cands = 1..L
    BY <1>2, <2>1
  <2>3. IsFiniteSet(1..L)
    BY ONLY <2>2, FS_Interval
  <2> QED BY <2>2, <2>3
<1>4. \A i \in DOMAIN d.cands : /\ d.cands[i].id \in CandidateIds
                                /\ d.cands[i].group \in Nat \cup {Nothing}
  BY <1>2 DEF Candidates
<1>5. Groups(d) \subseteq Nat
  BY <1>4 DEF Groups
<1> QED BY <1>1, <1>2, <1>3, <1>4, <1>5 DEF Members

\* The groups of an accepted document go up with the index, and all have one.
LEMMA GroupsRise ==
  ASSUME NEW d \in Docs, build(d.cands), Groups(d) # {}
  PROVE  /\ \A i \in DOMAIN d.cands : d.cands[i].group \in Nat /\ d.cands[i].group \in Groups(d)
         /\ \A i, j \in DOMAIN d.cands : i <= j => d.cands[i].group <= d.cands[j].group
         /\ \A i, j \in DOMAIN d.cands : i <= j /\ d.cands[i].group = d.cands[j].group
               => d.cands[i].admission = d.cands[j].admission
<1>1. DOMAIN d.cands = 1..Len(d.cands) /\ Len(d.cands) \in Nat
      /\ \A i \in DOMAIN d.cands : d.cands[i].group \in Nat \cup {Nothing}
  BY DocFacts
<1>2. /\ \A i \in DOMAIN d.cands : d.cands[i].group # Nothing
      /\ \A i \in 2..Len(d.cands) :
             \/ d.cands[i].group = d.cands[i - 1].group
                /\ d.cands[i].admission = d.cands[i - 1].admission
             \/ d.cands[i].group = d.cands[i - 1].group + 1
  BY DEF build, Groups
<1>3. \A i \in DOMAIN d.cands : d.cands[i].group \in Nat /\ d.cands[i].group \in Groups(d)
  BY <1>1, <1>2 DEF Groups
<1>4. ASSUME NEW i \in DOMAIN d.cands
      PROVE  \A j \in DOMAIN d.cands : i <= j => d.cands[i].group <= d.cands[j].group
  <2>1. PICK T : T = {j \in DOMAIN d.cands : i <= j /\ ~(d.cands[i].group <= d.cands[j].group)}
    OBVIOUS
  <2>2. ASSUME T # {} PROVE FALSE
    <3>1. T \subseteq Nat
      BY <1>1, <2>1
    <3>2. PICK j \in T : \A y \in T : j <= y
      BY <2>2, <3>1, LeastExists
    <3>3. j \in DOMAIN d.cands /\ i <= j /\ ~(d.cands[i].group <= d.cands[j].group) /\ i # j
      BY <1>3, <2>1, <3>2
    <3>4. j - 1 \in DOMAIN d.cands /\ i <= j - 1 /\ j \in 2..Len(d.cands) /\ j - 1 \notin T
      BY <1>1, <3>2, <3>3
    <3>5. d.cands[i].group <= d.cands[j - 1].group
      BY <2>1, <3>4
    <3>6. d.cands[j].group = d.cands[j - 1].group \/ d.cands[j].group = d.cands[j - 1].group + 1
      BY <1>2, <3>4
    <3> QED BY <1>3, <3>3, <3>4, <3>5, <3>6
  <2> QED BY <2>1, <2>2
<1>5. ASSUME NEW i \in DOMAIN d.cands
      PROVE  \A j \in DOMAIN d.cands : i <= j /\ d.cands[i].group = d.cands[j].group
               => d.cands[i].admission = d.cands[j].admission
  <2>1. PICK T : T = {j \in DOMAIN d.cands : i <= j /\ d.cands[i].group = d.cands[j].group
                                             /\ d.cands[i].admission # d.cands[j].admission}
    OBVIOUS
  <2>2. ASSUME T # {} PROVE FALSE
    <3>1. T \subseteq Nat
      BY <1>1, <2>1
    <3>2. PICK j \in T : \A y \in T : j <= y
      BY <2>2, <3>1, LeastExists
    <3>3. /\ j \in DOMAIN d.cands /\ i <= j /\ d.cands[i].group = d.cands[j].group
          /\ d.cands[i].admission # d.cands[j].admission /\ i # j
      BY <2>1, <3>2
    <3>4. j - 1 \in DOMAIN d.cands /\ i <= j - 1 /\ j \in 2..Len(d.cands) /\ j - 1 \notin T
      BY <1>1, <3>2, <3>3
    <3>5. /\ d.cands[i].group <= d.cands[j - 1].group
          /\ d.cands[i].group \in Nat /\ d.cands[j - 1].group \in Nat
      BY <1>3, <1>4, <3>4
    <3>6. \/ d.cands[j].group = d.cands[j - 1].group
             /\ d.cands[j].admission = d.cands[j - 1].admission
          \/ d.cands[j].group = d.cands[j - 1].group + 1
      BY <1>2, <3>4
    <3>7. d.cands[j].group = d.cands[j - 1].group
      BY <3>3, <3>5, <3>6
    <3>8. d.cands[j].admission = d.cands[j - 1].admission
      BY <3>5, <3>6, <3>7
    <3> QED BY <2>1, <3>3, <3>4, <3>7, <3>8
  <2> QED BY <2>1, <2>2
<1> QED BY <1>3, <1>4, <1>5

\* The members of a group stand side by side and admit alike.
LEMMA MembersTogether ==
  ASSUME NEW d \in Docs, build(d.cands), NEW g \in Groups(d)
  PROVE  /\ First(d, g) \in Members(d, g) /\ First(d, g) \in Nat
         /\ Cardinality(Members(d, g)) \in Nat \ {0}
         /\ Members(d, g) = First(d, g)..(First(d, g) + Cardinality(Members(d, g)) - 1)
         /\ \A i, j \in Members(d, g) : d.cands[i].admission = d.cands[j].admission
<1>1. /\ DOMAIN d.cands = 1..Len(d.cands) /\ Len(d.cands) \in Nat /\ IsFiniteSet(DOMAIN d.cands)
      /\ Groups(d) # {} /\ g \in Nat
  BY DocFacts
<1>2. /\ \A i \in DOMAIN d.cands : d.cands[i].group \in Nat
      /\ \A i, j \in DOMAIN d.cands : i <= j => d.cands[i].group <= d.cands[j].group
      /\ \A i, j \in DOMAIN d.cands : i <= j /\ d.cands[i].group = d.cands[j].group
            => d.cands[i].admission = d.cands[j].admission
  BY <1>1, GroupsRise
<1>3. PICK M : M = Members(d, g)
  OBVIOUS
<1>4. /\ M \subseteq DOMAIN d.cands /\ M # {} /\ \A i \in M : d.cands[i].group = g
      /\ \A i \in DOMAIN d.cands : d.cands[i].group = g => i \in M
  BY <1>3 DEF Members, Groups
<1>5. M \subseteq Nat /\ IsFiniteSet(M)
  BY <1>1, <1>4, FS_Subset
<1>6. PICK lo : lo = Min(M)
  OBVIOUS
<1>7. lo \in M /\ \A j \in M : lo <= j
  BY <1>4, <1>5, <1>6, MinIs
<1>8. PICK U : U = {u \in Nat : \A j \in M : j <= u}
  OBVIOUS
<1>9. Len(d.cands) \in U
  BY <1>1, <1>4, <1>8
<1>10. PICK hi \in U : \A u \in U : hi <= u
  <2>1. U \subseteq Nat /\ U # {}
    BY <1>8, <1>9
  <2> QED BY <2>1, LeastExists
<1>11. hi \in Nat /\ \A j \in M : j <= hi
  BY <1>8, <1>10
<1>12. hi \in M
  <2>1. ASSUME hi \notin M PROVE FALSE
    <3>1. hi - 1 \in Nat /\ \A j \in M : j <= hi - 1
      BY <1>5, <1>7, <1>11, <2>1
    <3>2. hi - 1 \in U
      BY <1>8, <3>1
    <3> QED BY <1>10, <1>11, <3>2
  <2> QED BY <2>1
<1>13. M = lo..hi
  <2>1. ASSUME NEW m \in lo..hi PROVE m \in M
    <3>1. m \in DOMAIN d.cands /\ lo \in DOMAIN d.cands /\ hi \in DOMAIN d.cands
          /\ lo <= m /\ m <= hi
      BY <1>1, <1>4, <1>7, <1>12, <2>1
    <3>2. d.cands[lo].group <= d.cands[m].group /\ d.cands[m].group <= d.cands[hi].group
      BY <1>2, <3>1
    <3>3. d.cands[lo].group = g /\ d.cands[hi].group = g /\ d.cands[m].group \in Nat
      BY <1>2, <1>4, <1>7, <1>12, <3>1
    <3>4. d.cands[m].group = g
      BY <1>1, <3>2, <3>3
    <3> QED BY <1>4, <3>1, <3>4
  <2>2. ASSUME NEW m \in M PROVE m \in lo..hi
    BY <1>5, <1>7, <1>11, <2>2
  <2> QED BY <2>1, <2>2
<1>14. Cardinality(M) = hi - lo + 1 /\ lo \in Nat /\ lo <= hi
  <2>1. lo \in Int /\ hi \in Int /\ lo \in Nat /\ lo <= hi
    BY <1>5, <1>7, <1>11
  <2> QED BY <1>13, <2>1, FS_Interval
<1>15. \A i, j \in M : d.cands[i].admission = d.cands[j].admission
  BY <1>2, <1>4, <1>5
<1>16. First(d, g) = lo
  BY <1>3, <1>6 DEF First
<1> QED BY <1>3, <1>7, <1>11, <1>13, <1>14, <1>15, <1>16

-----------------------------------------------------------------------------
(* RouteOverlay: the inductive invariant                                   *)

Counters == UNION {[G -> Nat] : G \in SUBSET Nat}
Snapshots == [doc : Docs, next : Counters, epoch : Nat]
Progresses ==
  [at : {"new", "lookup", "remove", "pick", "check", "evict", "recheck", "insert", "done"},
   key : SessionKeys \cup {Nothing}, snap : Nat, id : CandidateIds \cup {Nothing},
   how : {Nothing, "reused", "picked", "rejected"}]
Threads == [at : {"register", "wait", "debounce", "read", "apply", "stopped"},
            content : Docs \cup {Unreadable, Nothing}, ready : BOOLEAN]

OverlayTypes ==
  /\ file \in Docs \cup {Unreadable} /\ events \in Nat /\ raised \in BOOLEAN
  /\ watcher \in Threads /\ clock \in Nat
  /\ watcher.at = "apply" => watcher.content \in Docs \cup {Unreadable}
  /\ snaps \in Seq(Snapshots) /\ Len(snaps) >= 1
  /\ picks \in Seq([CandidateIds -> Nat])
  /\ rq \in [Requests -> Progresses] /\ peak \in Nat

\* Unless there is something for the watcher to do, it serves what the file says.
Serves(d, f) == Accepted(f) => d.bytes = f.bytes \/ is_semantically_unchanged(d, f)
Followed ==
  \/ raised \/ events > 0 \/ watcher.at \in {"register", "debounce", "read", "stopped"}
  \/ watcher.at = "apply" /\ watcher.content = file
  \/ watcher.at = "wait" /\ Serves(Served.doc, file)

\* A snapshot is of an accepted document, has an epoch of its own, and its counters
\* are at a member of their group.
SnapshotOK(n, sn) ==
  /\ build(sn.doc.cands) /\ sn.epoch = n /\ DOMAIN sn.next = Groups(sn.doc)
  /\ \A g \in Groups(sn.doc) : sn.next[g] < Cardinality(Members(sn.doc, g))
SnapshotsOK == /\ Len(picks) = Len(snaps)
               /\ \A n \in 1..Len(snaps) : SnapshotOK(n, snaps[n])

\* Every member of a group has had q turns, those before the counter one more.
TurnsOf(sn, turns, g, q) ==
  \A i \in Members(sn.doc, g) :
    turns[sn.doc.cands[i].id] = q + (IF i < First(sn.doc, g) + sn.next[g] THEN 1 ELSE 0)
TurnsKept(sn, turns) ==
  sn.doc.mode = "round_robin" =>
    \A g \in Groups(sn.doc) : \E q \in Nat : TurnsOf(sn, turns, g, q)
TurnsOK == \A n \in 1..Len(snaps) : TurnsKept(snaps[n], picks[n])

\* What a request has chosen takes new sessions, or had the session already.
Admits(d, id) ==
  \E i \in DOMAIN d.cands : d.cands[i].id = id /\ d.cands[i].admission = "new_and_existing"
RequestOK(q) ==
  /\ q.at # "new" => q.snap \in 1..Len(snaps)
  /\ q.at \notin {"new", "pick", "done"} => q.key \in SessionKeys
  /\ q.at \in {"check", "evict", "recheck", "insert"} =>
       q.id # Nothing /\ Admits(snaps[q.snap].doc, q.id)
  /\ q.at = "done" /\ q.id # Nothing =>
       \/ Admits(snaps[q.snap].doc, q.id)
       \/ q.how = "reused" /\ <<q.key, q.id>> \in bound /\ Usable(snaps[q.snap].doc, q.id)
  /\ q.at \in {"new", "lookup", "remove", "pick"} => q.id = Nothing
RequestsOK == \A r \in Requests : RequestOK(rq[r])
BindingsOK ==
  /\ DOMAIN bindings \subseteq SessionKeys /\ IsFiniteSet(DOMAIN bindings)
  /\ \A k \in DOMAIN bindings :
       bindings[k].id \in CandidateIds \ {Nothing} /\ <<k, bindings[k].id>> \in bound

\* The table has room for those that have passed its check.
Peak(p) == IF p = 0 THEN 1 ELSE p
TableOK ==
  /\ Cardinality(DOMAIN bindings) + Cardinality(Passed) < MaxBindings + Peak(peak)
  /\ IsFiniteSet(Passed)

OverlayInv ==
  /\ OverlayTypes /\ Followed /\ SnapshotsOK /\ TurnsOK /\ RequestsOK /\ BindingsOK /\ TableOK

\* Of two numbers the greater.
LEMMA GreaterIs ==
  ASSUME NEW a \in Nat, NEW b \in Nat
  PROVE  /\ Max({a, b}) \in Nat /\ Max({a, b}) >= a /\ Max({a, b}) >= b
         /\ Max({a, b}) \in {a, b}
<1>1. PICK x \in {a, b} : \A y \in {a, b} : x >= y
  <2>1. CASE a >= b
    BY <2>1
  <2>2. CASE ~(a >= b)
    BY <2>2
  <2> QED BY <2>1, <2>2
<1>2. Max({a, b}) \in {a, b} /\ \A y \in {a, b} : Max({a, b}) >= y
  BY <1>1 DEF Max
<1> QED BY <1>2

\* A choice is of a candidate that admits; round robin takes the one its group's
\* counter is at.
LEMMA SelectFacts ==
  ASSUME NEW sn \in Snapshots, NEW n, SnapshotOK(n, sn), NEW i \in select_candidate(sn)
  PROVE  /\ i \in DOMAIN sn.doc.cands /\ sn.doc.cands[i].admission = "new_and_existing"
         /\ sn.doc.mode = "round_robin" /\ Groups(sn.doc) # {} =>
              /\ sn.doc.cands[i].group \in Groups(sn.doc)
              /\ i = First(sn.doc, sn.doc.cands[i].group) + sn.next[sn.doc.cands[i].group]
<1>1. PICK d : d = sn.doc
  OBVIOUS
<1>2. d \in Docs /\ build(d.cands) /\ d.mode \in Modes
  BY <1>1, DocFacts DEF Snapshots, SnapshotOK
<1>3. /\ DOMAIN d.cands = 1..Len(d.cands) /\ Admitting(d) \subseteq DOMAIN d.cands
      /\ DOMAIN d.cands \subseteq Nat
  BY <1>2, DocFacts DEF Admitting
<1>4. Admitting(d) # {}
  BY <1>1 DEF select_candidate
<1>5. CASE Groups(d) = {}
  <2>1. select_candidate(sn) = {Min(Admitting(d))}
    BY <1>1, <1>4, <1>5 DEF select_candidate
  <2>2. Min(Admitting(d)) \in Admitting(d)
    BY <1>3, <1>4, MinIs
  <2> QED BY <1>1, <1>3, <1>5, <2>1, <2>2 DEF Admitting
<1>6. CASE Groups(d) # {}
  <2>1. PICK B : B = {d.cands[j].group : j \in Admitting(d)}
    OBVIOUS
  <2>2. B \subseteq Nat /\ B # {} /\ B \subseteq Groups(d)
    BY <1>2, <1>3, <1>4, <1>6, <2>1, GroupsRise
  <2>3. PICK g : g = Min(B)
    OBVIOUS
  <2>4. g \in B /\ g \in Groups(d) /\ g \in Nat
    BY <2>2, <2>3, MinIs
  <2>5. PICK a \in Admitting(d) : d.cands[a].group = g
    BY <2>1, <2>4
  <2>6. PICK M : M = Members(d, g)
    OBVIOUS
  <2>7. /\ First(d, g) \in M /\ First(d, g) \in Nat /\ Cardinality(M) \in Nat \ {0}
        /\ M = First(d, g)..(First(d, g) + Cardinality(M) - 1)
        /\ \A j, k \in M : d.cands[j].admission = d.cands[k].admission
    BY <1>2, <2>4, <2>6, MembersTogether
  <2>8. sn.next[g] \in Nat /\ sn.next[g] < Cardinality(M)
    BY <1>1, <2>4, <2>6 DEF SnapshotOK, Snapshots, Counters
  <2>9. select_candidate(sn) =
          CASE d.mode = "round_robin" -> {First(d, g) + sn.next[g]}
            [] d.mode = "deterministic" -> {First(d, g)}
            [] d.mode = "random" -> First(d, g)..(First(d, g) + Cardinality(M) - 1)
    BY <1>1, <1>4, <1>6, <2>1, <2>3, <2>6 DEF select_candidate, First
  <2>10. i \in M /\ (d.mode = "round_robin" => i = First(d, g) + sn.next[g])
    <3>1. CASE d.mode = "round_robin"
      <4>1. select_candidate(sn) = {First(d, g) + sn.next[g]}
        BY <2>9, <3>1
      <4>2. PICK t : t = sn.next[g]
        OBVIOUS
      <4>3. t \in Nat /\ t < Cardinality(M)
        BY <2>8, <4>2
      <4>4. First(d, g) + t \in M
        BY <2>7, <4>3
      <4> QED BY <4>1, <4>2, <4>4
    <3>2. CASE d.mode = "deterministic"
      BY <2>7, <2>9, <3>2
    <3>3. CASE d.mode = "random"
      BY <2>7, <2>9, <3>3
    <3> QED BY <1>2, <3>1, <3>2, <3>3 DEF Modes
  <2>11. a \in M /\ d.cands[a].admission = "new_and_existing"
    BY <1>3, <2>5, <2>6 DEF Members, Admitting
  <2>12. i \in DOMAIN d.cands /\ d.cands[i].group = g
    BY <2>6, <2>10 DEF Members
  <2>13. d.cands[i].admission = "new_and_existing"
    BY <2>7, <2>10, <2>11
  <2> QED BY <1>1, <2>4, <2>10, <2>12, <2>13
<1> QED BY <1>5, <1>6

-----------------------------------------------------------------------------
(* RouteOverlay: the watcher's steps                                       *)

\* The first snapshot.
LEMMA OverlayStarts == OverlayInit => OverlayInv
<1> SUFFICES ASSUME OverlayInit PROVE OverlayInv
  OBVIOUS
<1>1. file \in Docs /\ Accepted(file) /\ build(file.cands)
  BY DEF OverlayInit, Accepted
<1>2. PICK sn : sn = Snapshot(file, 1)
  OBVIOUS
<1>3. /\ sn \in Snapshots /\ SnapshotOK(1, sn) /\ sn.doc = file
      /\ \A g \in Groups(file) : sn.next[g] = 0
  <2>1. Groups(file) \subseteq Nat
    BY <1>1, DocFacts
  <2>2. [g \in Groups(file) |-> 0] \in Counters
    BY <2>1 DEF Counters
  <2>3. \A g \in Groups(file) : Cardinality(Members(file, g)) \in Nat \ {0}
    BY <1>1, MembersTogether
  <2> QED BY <1>1, <1>2, <2>2, <2>3 DEF Snapshot, Snapshots, SnapshotOK
<1>4. snaps = <<sn>> /\ picks = <<[id \in CandidateIds |-> 0]>>
  BY <1>2 DEF OverlayInit
<1>5. /\ snaps \in Seq(Snapshots) /\ Len(snaps) = 1 /\ snaps[1] = sn
      /\ picks \in Seq([CandidateIds -> Nat]) /\ Len(picks) = 1
      /\ picks[1] = [id \in CandidateIds |-> 0]
  BY <1>3, <1>4
<1>6. OverlayTypes
  <2>1. watcher \in Threads
    BY DEF OverlayInit, Threads
  <2>2. rq \in [Requests -> Progresses]
    BY DEF OverlayInit, NoRequest, Progresses
  <2>3. raised = FALSE /\ events = 0 /\ clock = 0 /\ peak = 0 /\ watcher.at = "register"
    BY DEF OverlayInit
  <2>4. raised \in BOOLEAN
    BY <2>3
  <2> QED BY <1>1, <1>5, <2>1, <2>2, <2>3, <2>4 DEF OverlayTypes
<1>7. Followed
  BY DEF OverlayInit, Followed
<1>8. SnapshotsOK
  BY <1>3, <1>5 DEF SnapshotsOK
<1>9. TurnsOK
  <2>1. TurnsKept(snaps[1], picks[1])
    <3>1. SUFFICES ASSUME NEW g \in Groups(file)
                   PROVE  TurnsOf(sn, picks[1], g, 0)
      BY <1>3, <1>5 DEF TurnsKept
    <3>2. \A i \in Members(file, g) : First(file, g) <= i /\ i \in Nat /\ First(file, g) \in Nat
      BY <1>1, MembersTogether
    <3>3. \A i \in Members(file, g) : file.cands[i].id \in CandidateIds
      BY <1>1, DocFacts
    <3> QED BY <1>3, <1>5, <3>2, <3>3 DEF TurnsOf
  <2> QED BY <1>5, <2>1 DEF TurnsOK
<1>10. RequestsOK
  BY DEF OverlayInit, NoRequest, RequestsOK, RequestOK
<1>11. BindingsOK
  <2>1. DOMAIN bindings = {}
    BY DEF OverlayInit
  <2> QED BY <2>1, FS_EmptySet DEF BindingsOK
<1>12. TableOK
  <2>1. DOMAIN bindings = {} /\ Passed = {} /\ peak = 0
    BY DEF OverlayInit, Passed, NoRequest
  <2>2. Cardinality({}) = 0 /\ IsFiniteSet({})
    BY FS_EmptySet
  <2> QED BY <2>1, <2>2, OverlayAssumption DEF TableOK, Peak
<1> QED BY <1>6, <1>7, <1>8, <1>9, <1>10, <1>11, <1>12 DEF OverlayInv

\* What the watcher and the file do leaves requests and their table alone.
RequestsStay == UNCHANGED <<snaps, picks, bindings, rq, bound, peak>>

\* Then what is said of them stays true.
LEMMA RequestsUnmoved ==
  ASSUME OverlayInv, RequestsStay
  PROVE  SnapshotsOK' /\ TurnsOK' /\ RequestsOK' /\ BindingsOK' /\ TableOK'
<1>1. SnapshotsOK'
  BY DEF OverlayInv, RequestsStay, SnapshotsOK
<1>2. TurnsOK'
  BY DEF OverlayInv, RequestsStay, TurnsOK
<1>3. RequestsOK'
  BY DEF OverlayInv, RequestsStay, RequestsOK, RequestOK
<1>4. BindingsOK'
  BY DEF OverlayInv, RequestsStay, BindingsOK
<1>5. TableOK'
  BY DEF OverlayInv, RequestsStay, TableOK, Passed
<1> QED BY <1>1, <1>2, <1>3, <1>4, <1>5

\* An edit raises an event once the watcher is registered.
LEMMA EditKeeps ==
  ASSUME OverlayInv, NEW f \in Docs \cup {Unreadable}, Edit(f)
  PROVE  OverlayInv'
<1>1. RequestsStay
  BY DEF Edit, RequestsStay
<1>2. OverlayTypes'
  BY DEF OverlayInv, OverlayTypes, Edit
<1>3. Followed'
  BY DEF OverlayInv, Edit, Followed
<1> QED BY <1>1, <1>2, <1>3, RequestsUnmoved DEF OverlayInv

\* A dropped event leaves others in the full channel.
LEMMA NotifyKeeps ==
  ASSUME OverlayInv, Notify
  PROVE  OverlayInv'
<1>1. RequestsStay
  BY DEF Notify, RequestsStay
<1>3. events' > 0 /\ events' \in Nat
  BY OverlayAssumption DEF OverlayInv, OverlayTypes, Notify
<1>5. raised' \in BOOLEAN
  BY DEF Notify
<1>6. UNCHANGED <<file, watcher, snaps, clock, bindings, rq, picks, bound, peak>>
  BY DEF Notify
<1>2. OverlayTypes'
  BY <1>3, <1>5, <1>6 DEF OverlayInv, OverlayTypes
<1>4. Followed'
  BY <1>3 DEF Followed
<1> QED BY <1>1, <1>2, <1>4, RequestsUnmoved DEF OverlayInv

\* Time alone changes no choice.
LEMMA OverlayTickKeeps ==
  ASSUME OverlayInv, OverlayTick
  PROVE  OverlayInv'
<1>1. RequestsStay
  BY DEF OverlayTick, RequestsStay
<1>2. OverlayTypes'
  BY DEF OverlayInv, OverlayTypes, OverlayTick
<1>3. Followed'
  BY DEF OverlayInv, OverlayTick, Followed, Served
<1> QED BY <1>1, <1>2, <1>3, RequestsUnmoved DEF OverlayInv

\* The thread's other steps than Apply.
LEMMA WatchingKeeps ==
  ASSUME OverlayInv,
         \/ /\ Register \/ Cancelled \/ ReadFile
            /\ UNCHANGED <<file, edits, raised, events, snaps, clock, bindings, rq, picks,
                           bound, peak>>
         \/ /\ Receive \/ Drain
            /\ UNCHANGED <<file, edits, raised, snaps, clock, bindings, rq, picks, bound, peak>>
  PROVE  OverlayInv'
<1>1. RequestsStay
  BY DEF RequestsStay
<1>2. watcher \in Threads /\ file \in Docs \cup {Unreadable} /\ events \in Nat
  BY DEF OverlayInv, OverlayTypes
<1>3. /\ watcher' \in Threads /\ events' \in Nat
      /\ watcher'.at = "apply" => watcher'.content \in Docs \cup {Unreadable}
  <2>1. CASE Register
    BY <1>2, <2>1 DEF Register, Receive, Drain, Stage, Threads
  <2>2. CASE Cancelled
    BY <1>2, <2>2 DEF Cancelled, Receive, Drain, Stage, Threads
  <2>3. CASE ReadFile
    BY <1>2, <2>3 DEF ReadFile, Receive, Drain, Threads
  <2>4. CASE Receive
    BY <1>2, <2>4 DEF Receive, Stage, Threads
  <2>5. CASE Drain
    BY <1>2, <2>5 DEF Drain, Stage, Threads
  <2> QED BY <2>1, <2>2, <2>3, <2>4, <2>5
<1>6. file' = file /\ raised' = raised /\ clock' = clock
  OBVIOUS
<1>4. OverlayTypes'
  BY <1>1, <1>3, <1>6 DEF OverlayInv, OverlayTypes, RequestsStay
<1>5. Followed'
  <2>1. CASE Register \/ Cancelled \/ Receive \/ Drain
    <3>1. watcher'.at \in {"read", "stopped", "debounce"}
      BY <1>2, <2>1 DEF Register, Cancelled, Receive, Drain, Stage, Threads
    <3> QED BY <3>1 DEF Followed
  <2>2. CASE ReadFile
    <3>1. watcher'.at = "apply" /\ watcher'.content = file /\ file' = file
      BY <1>2, <2>2 DEF ReadFile, Threads
    <3> QED BY <3>1 DEF Followed
  <2> QED BY <2>1, <2>2
<1> QED BY <1>1, <1>4, <1>5, RequestsUnmoved DEF OverlayInv

\* A document is served: one more snapshot with an epoch of its own, or none.
LEMMA ApplyKeeps ==
  ASSUME OverlayInv, Apply,
         UNCHANGED <<file, edits, raised, events, clock, bindings, rq, bound, peak>>
  PROVE  OverlayInv'
<1>1. PICK f : f = watcher.content
  OBVIOUS
<1>2. /\ f \in Docs \cup {Unreadable, Nothing} /\ snaps \in Seq(Snapshots) /\ Len(snaps) >= 1
      /\ picks \in Seq([CandidateIds -> Nat]) /\ Len(picks) = Len(snaps)
      /\ Served \in Snapshots /\ watcher \in Threads
  BY <1>1 DEF OverlayInv, OverlayTypes, SnapshotsOK, Served, Threads
<1>3. watcher' = [at |-> "wait", content |-> Nothing, ready |-> TRUE] /\ watcher.at = "apply"
  BY DEF Apply
<1>4. watcher' \in Threads
  BY <1>3 DEF Threads
<1>5. CASE UNCHANGED <<snaps, picks>>
           /\ ~(/\ Accepted(f) /\ f.bytes # Served.doc.bytes
                /\ ~is_semantically_unchanged(Served.doc, f))
  <2>1. RequestsStay
    BY <1>5 DEF RequestsStay
  <2>2. OverlayTypes'
    BY <1>3, <1>4, <1>5 DEF OverlayInv, OverlayTypes
  <2>3. Served' = Served
    BY <1>5 DEF Served
  <2>4. Followed'
    <3>1. raised \/ events > 0 \/ f = file
      BY <1>1, <1>3 DEF OverlayInv, Followed
    <3>2. f = file => Serves(Served.doc, file)
      BY <1>5 DEF Serves
    <3> QED BY <1>3, <2>3, <3>1, <3>2 DEF Followed
  <2> QED BY <2>1, <2>2, <2>4, RequestsUnmoved DEF OverlayInv
<1>6. CASE /\ Accepted(f) /\ f.bytes # Served.doc.bytes
           /\ ~is_semantically_unchanged(Served.doc, f) /\ Swap(f)
  <2>1. f \in Docs /\ build(f.cands)
    BY <1>1, <1>3, <1>6 DEF Accepted, OverlayInv, OverlayTypes
  <2>2. PICK N : N = Len(snaps) + 1
    OBVIOUS
  <2>3. PICK sn : sn = Snapshot(f, N)
    OBVIOUS
  <2>4. ~(f.rev # NoRev /\ f.rev = Served.doc.rev)
    BY <1>6 DEF is_semantically_unchanged
  <2>5. snaps' = Append(snaps, sn) /\ picks' = Append(picks, [id \in CandidateIds |-> 0])
    BY <1>2, <1>6, <2>2, <2>3, <2>4 DEF Swap
  <2>6. sn \in Snapshots /\ SnapshotOK(N, sn) /\ sn.doc = f /\ \A g \in Groups(f) : sn.next[g] = 0
    <3>1. Groups(f) \subseteq Nat
      BY <2>1, DocFacts
    <3>2. [g \in Groups(f) |-> 0] \in Counters
      BY <3>1 DEF Counters
    <3>3. \A g \in Groups(f) : Cardinality(Members(f, g)) \in Nat \ {0}
      BY <2>1, MembersTogether
    <3>4. N \in Nat
      BY <1>2, <2>2
    <3> QED BY <2>1, <2>3, <3>2, <3>3, <3>4 DEF Snapshot, Snapshots, SnapshotOK
  <2>7. /\ snaps' \in Seq(Snapshots) /\ Len(snaps') = N /\ snaps'[N] = sn /\ N >= 1 /\ N \in Nat
        /\ \A n \in 1..Len(snaps) : snaps'[n] = snaps[n]
    BY <1>2, <2>2, <2>5, <2>6
  <2>8. PICK none : none = [id \in CandidateIds |-> 0]
    OBVIOUS
  <2>9. none \in [CandidateIds -> Nat] /\ picks' = Append(picks, none)
    BY <2>5, <2>8
  <2>10. /\ picks' \in Seq([CandidateIds -> Nat]) /\ Len(picks') = N /\ picks'[N] = none
         /\ \A n \in 1..Len(snaps) : picks'[n] = picks[n]
    BY <1>2, <2>2, <2>9
  <2>11. OverlayTypes'
    BY <1>3, <1>4, <2>7, <2>10 DEF OverlayInv, OverlayTypes
  <2>12. \A n \in 1..N : n \in 1..Len(snaps) \/ n = N
    BY <1>2, <2>2
  <2>13. SnapshotsOK'
    BY <2>6, <2>7, <2>10, <2>12 DEF OverlayInv, SnapshotsOK
  <2>14. TurnsOK'
    <3>1. TurnsKept(sn, none)
      <4>1. SUFFICES ASSUME NEW g \in Groups(f) PROVE TurnsOf(sn, none, g, 0)
        BY <2>6 DEF TurnsKept
      <4>2. \A i \in Members(f, g) : First(f, g) <= i /\ i \in Nat /\ First(f, g) \in Nat
        BY <2>1, MembersTogether
      <4>3. \A i \in Members(f, g) : f.cands[i].id \in CandidateIds
        BY <2>1, DocFacts
      <4> QED BY <2>6, <2>8, <4>2, <4>3 DEF TurnsOf
    <3> QED BY <2>7, <2>10, <2>12, <3>1 DEF OverlayInv, TurnsOK
  <2>15. RequestsOK'
    <3>1. SUFFICES ASSUME NEW r \in Requests PROVE RequestOK(rq[r])'
      BY DEF RequestsOK
    <3>2. RequestOK(rq[r]) /\ rq' = rq /\ bound' = bound
      BY DEF OverlayInv, RequestsOK
    <3>3. rq[r].snap \in 1..Len(snaps) =>
            rq[r].snap \in 1..Len(snaps') /\ snaps'[rq[r].snap] = snaps[rq[r].snap]
      BY <1>2, <2>2, <2>7
    <3> QED BY <3>2, <3>3 DEF RequestOK
  <2>16. BindingsOK' /\ TableOK'
    BY DEF OverlayInv, BindingsOK, TableOK, Passed
  <2>17. Served'.doc = f
    BY <2>6, <2>7 DEF Served
  <2>18. Followed'
    <3>1. raised \/ events > 0 \/ f = file
      BY <1>1, <1>3 DEF OverlayInv, Followed
    <3>2. f = file => Serves(Served'.doc, file)
      BY <2>17 DEF Serves
    <3> QED BY <1>3, <3>1, <3>2 DEF Followed
  <2> QED BY <2>11, <2>13, <2>14, <2>15, <2>16, <2>18 DEF OverlayInv
<1> QED BY <1>1, <1>5, <1>6 DEF Apply

-----------------------------------------------------------------------------
(* RouteOverlay: the steps of requests                                     *)

\* What a step of request r leaves alone, and how it moves.
WatcherStays == UNCHANGED <<file, edits, raised, events, watcher, clock>>
DocsStay ==
  /\ Len(snaps') = Len(snaps) /\ snaps' \in Seq(Snapshots)
  /\ \A n \in 1..Len(snaps) : snaps'[n].doc = snaps[n].doc
Steps(r) ==
  /\ WatcherStays /\ DocsStay
  /\ rq' \in [Requests -> Progresses] /\ \A s \in Requests : s # r => rq'[s] = rq[s]
  /\ peak' \in Nat /\ peak' >= peak /\ peak' >= Cardinality(Passed')
  /\ bound \subseteq bound'

\* The progress of one request.
LEMMA OneStep ==
  ASSUME OverlayInv, NEW r \in Requests, NEW q \in Progresses, rq' = [rq EXCEPT ![r] = q]
  PROVE  /\ rq' \in [Requests -> Progresses] /\ rq'[r] = q
         /\ \A s \in Requests : s # r => rq'[s] = rq[s]
  BY DEF OverlayInv, OverlayTypes

\* How many have passed the check.
LEMMA PassedFinite ==
  /\ IsFiniteSet(Passed) /\ Cardinality(Passed) \in Nat
  /\ IsFiniteSet(Passed') /\ Cardinality(Passed') \in Nat
<1>1. Passed \subseteq Requests /\ Passed' \subseteq Requests
  BY DEF Passed
<1> QED BY <1>1, OverlayAssumption, FS_Subset, FS_CardinalityType

\* The ghost peak counts them all.
LEMMA PeakKept ==
  ASSUME OverlayInv, peak' = Max({peak, Cardinality(Passed')})
  PROVE  peak' \in Nat /\ peak' >= peak /\ peak' >= Cardinality(Passed')
<1>1. peak \in Nat
  BY DEF OverlayInv, OverlayTypes
<1> QED BY <1>1, PassedFinite, GreaterIs

\* Nothing to do for the watcher.
LEMMA FollowedStays ==
  ASSUME OverlayInv, WatcherStays, DocsStay
  PROVE  Followed'
<1>1. Len(snaps) \in 1..Len(snaps)
  BY DEF OverlayInv, OverlayTypes
<1>2. Served'.doc = Served.doc
  BY <1>1 DEF DocsStay, Served
<1> QED BY <1>2 DEF OverlayInv, WatcherStays, Followed

\* The other requests are where they were.
LEMMA OtherRequestsKeep ==
  ASSUME OverlayInv, NEW r \in Requests, Steps(r), RequestOK(rq[r])'
  PROVE  RequestsOK'
<1>1. SUFFICES ASSUME NEW s \in Requests, s # r PROVE RequestOK(rq[s])'
  BY DEF RequestsOK
<1>2. RequestOK(rq[s]) /\ rq'[s] = rq[s] /\ bound \subseteq bound'
  BY <1>1 DEF OverlayInv, RequestsOK, Steps
<1>3. rq[s].snap \in 1..Len(snaps) =>
        rq[s].snap \in 1..Len(snaps') /\ snaps'[rq[s].snap].doc = snaps[rq[s].snap].doc
  BY DEF Steps, DocsStay
<1> QED BY <1>2, <1>3 DEF RequestOK

\* The table and those that may insert into it become no more.
LEMMA TableStays ==
  ASSUME OverlayInv, NEW r \in Requests, Steps(r), Passed' \subseteq Passed,
         DOMAIN bindings' \subseteq DOMAIN bindings
  PROVE  TableOK'
<1>1. /\ IsFiniteSet(DOMAIN bindings) /\ IsFiniteSet(Passed) /\ peak \in Nat /\ MaxBindings \in Nat
      /\ Cardinality(DOMAIN bindings) + Cardinality(Passed) < MaxBindings + Peak(peak)
  BY OverlayAssumption DEF OverlayInv, OverlayTypes, BindingsOK, TableOK
<1>2. /\ IsFiniteSet(DOMAIN bindings')
      /\ Cardinality(DOMAIN bindings') <= Cardinality(DOMAIN bindings)
      /\ IsFiniteSet(Passed') /\ Cardinality(Passed') <= Cardinality(Passed)
      /\ Cardinality(DOMAIN bindings') \in Nat /\ Cardinality(DOMAIN bindings) \in Nat
      /\ Cardinality(Passed') \in Nat /\ Cardinality(Passed) \in Nat
  BY <1>1, FS_Subset, FS_CardinalityType
<1>3. peak' \in Nat /\ peak' >= peak
  BY DEF Steps
<1> QED BY <1>1, <1>2, <1>3 DEF TableOK, Peak

\* Steps of a request that leave the snapshots' counters alone.
LEMMA CountersStay ==
  ASSUME OverlayInv, UNCHANGED <<snaps, picks>>
  PROVE  SnapshotsOK' /\ TurnsOK'
<1>1. SnapshotsOK'
  BY DEF OverlayInv, SnapshotsOK
<1>2. TurnsOK'
  BY DEF OverlayInv, TurnsOK
<1> QED BY <1>1, <1>2

\* The types, from what a step does.
LEMMA StepTypes ==
  ASSUME OverlayInv, NEW r \in Requests, Steps(r), picks' \in Seq([CandidateIds -> Nat])
  PROVE  OverlayTypes'
<1>1. UNCHANGED <<file, events, raised, watcher, clock>>
  BY DEF Steps, WatcherStays
<1>2. snaps' \in Seq(Snapshots) /\ Len(snaps') >= 1
  BY DEF OverlayInv, OverlayTypes, Steps, DocsStay
<1>3. rq' \in [Requests -> Progresses] /\ peak' \in Nat
  BY DEF Steps
<1> QED BY <1>1, <1>2, <1>3 DEF OverlayInv, OverlayTypes

\* A request that keeps the snapshots and the history of bindings.
LEMMA PlainSteps ==
  ASSUME OverlayInv, NEW r \in Requests, NEW q \in Progresses, rq' = [rq EXCEPT ![r] = q],
         UNCHANGED <<snaps, picks, bound>>, WatcherStays,
         peak' = Max({peak, Cardinality(Passed')})
  PROVE  Steps(r)
<1>1. snaps \in Seq(Snapshots)
  BY DEF OverlayInv, OverlayTypes
<1>2. DocsStay
  BY <1>1 DEF DocsStay
<1> QED BY <1>2, OneStep, PeakKept DEF Steps

\* It and its table stay sound.
LEMMA PlainKeeps ==
  ASSUME OverlayInv, NEW r \in Requests, NEW q \in Progresses, rq' = [rq EXCEPT ![r] = q],
         UNCHANGED <<snaps, picks, bound>>, WatcherStays,
         peak' = Max({peak, Cardinality(Passed')}),
         RequestOK(q), q.at # "insert",
         DOMAIN bindings' \subseteq DOMAIN bindings,
         \A k \in DOMAIN bindings' : bindings'[k] = bindings[k]
  PROVE  OverlayInv'
<1>1. Steps(r)
  BY PlainSteps
<1>2. rq'[r] = q /\ \A s \in Requests : s # r => rq'[s] = rq[s]
  BY OneStep
<1>3. RequestOK(rq[r])'
  BY <1>2 DEF RequestOK
<1>4. RequestsOK'
  BY <1>1, <1>3, OtherRequestsKeep
<1>5. Followed'
  BY <1>1, FollowedStays DEF Steps
<1>6. OverlayTypes'
  <2>1. picks' \in Seq([CandidateIds -> Nat])
    BY DEF OverlayInv, OverlayTypes
  <2> QED BY <1>1, <2>1, StepTypes
<1>7. SnapshotsOK' /\ TurnsOK'
  BY CountersStay
<1>8. BindingsOK'
  <2>1. IsFiniteSet(DOMAIN bindings')
    BY FS_Subset DEF OverlayInv, BindingsOK
  <2> QED BY <2>1 DEF OverlayInv, BindingsOK
<1>9. Passed' \subseteq Passed
  BY <1>2 DEF Passed
<1>10. TableOK'
  BY <1>1, <1>9, TableStays
<1> QED BY <1>4, <1>5, <1>6, <1>7, <1>8, <1>10 DEF OverlayInv

\* A request moves on and keeps what it knows.
LEMMA MovedTo ==
  ASSUME OverlayInv, NEW r \in Requests,
         NEW stage \in {"remove", "pick", "evict", "recheck", "insert", "done"}, Moved(r, stage)
  PROVE  \E q \in Progresses :
            /\ rq' = [rq EXCEPT ![r] = q]
            /\ q.at = stage /\ q.key = rq[r].key /\ q.snap = rq[r].snap /\ q.id = rq[r].id
            /\ q.how = rq[r].how
<1>1. rq \in [Requests -> Progresses] /\ rq[r] \in Progresses
  BY DEF OverlayInv, OverlayTypes
<1>2. PICK q : q = [rq[r] EXCEPT !.at = stage]
  OBVIOUS
<1>3. /\ q \in Progresses /\ q.at = stage /\ q.key = rq[r].key /\ q.snap = rq[r].snap
      /\ q.id = rq[r].id /\ q.how = rq[r].how
  BY <1>1, <1>2 DEF Progresses
<1>4. rq' = [rq EXCEPT ![r] = q]
  BY <1>1, <1>2 DEF Moved
<1> QED BY <1>3, <1>4

\* The snapshot loaded is the one served.
LEMMA LoadKeeps ==
  ASSUME OverlayInv, NEW r \in Requests, NEW key \in SessionKeys \cup {Nothing}, Load(r, key),
         WatcherStays, peak' = Max({peak, Cardinality(Passed')})
  PROVE  OverlayInv'
<1>1. rq \in [Requests -> Progresses] /\ rq[r] \in Progresses /\ RequestOK(rq[r])
      /\ Len(snaps) \in Nat /\ Len(snaps) >= 1
  BY DEF OverlayInv, OverlayTypes, RequestsOK
<1>2. PICK stage : stage = IF key = Nothing THEN "pick" ELSE "lookup"
  OBVIOUS
<1>3. PICK q : q = [rq[r] EXCEPT !.at = stage, !.key = key, !.snap = Len(snaps)]
  OBVIOUS
<1>4. rq' = [rq EXCEPT ![r] = q]
  BY <1>1, <1>2, <1>3 DEF Load
<1>5. /\ q \in Progresses /\ q.at = stage /\ q.key = key /\ q.snap = Len(snaps)
      /\ q.id = rq[r].id /\ q.how = rq[r].how
  BY <1>1, <1>2, <1>3 DEF Progresses
<1>6. rq[r].id = Nothing /\ Len(snaps) \in 1..Len(snaps)
  BY <1>1 DEF Load, RequestOK
<1>7. RequestOK(q)
  BY <1>2, <1>5, <1>6 DEF RequestOK
<1>8. UNCHANGED <<snaps, picks, bound>> /\ bindings' = bindings /\ q.at # "insert"
  BY <1>2, <1>5 DEF Load
<1> QED BY <1>4, <1>5, <1>7, <1>8, PlainKeeps

\* A binding that is reused was made for the session earlier.
LEMMA BindingLookupKeeps ==
  ASSUME OverlayInv, NEW r \in Requests, lookup_binding(r),
         WatcherStays, peak' = Max({peak, Cardinality(Passed')})
  PROVE  OverlayInv'
<1>1. rq \in [Requests -> Progresses] /\ rq[r] \in Progresses /\ RequestOK(rq[r])
  BY DEF OverlayInv, OverlayTypes, RequestsOK
<1>2. UNCHANGED <<snaps, picks, bound>> /\ bindings' = bindings /\ rq[r].at = "lookup"
  BY DEF lookup_binding
<1>3. rq[r].id = Nothing /\ rq[r].snap \in 1..Len(snaps) /\ rq[r].key \in SessionKeys
  BY <1>1, <1>2 DEF RequestOK
<1>4. PICK k : k = rq[r].key
  OBVIOUS
<1>5. CASE /\ Live(k) /\ Usable(Snap(r).doc, bindings[k].id)
           /\ rq' = [rq EXCEPT ![r].at = "done", ![r].id = bindings[k].id, ![r].how = "reused"]
  <2>1. k \in DOMAIN bindings
    BY <1>5 DEF Live
  <2>2. bindings[k].id \in CandidateIds \ {Nothing} /\ <<k, bindings[k].id>> \in bound
    BY <2>1 DEF OverlayInv, BindingsOK
  <2>3. PICK q : q = [rq[r] EXCEPT !.at = "done", !.id = bindings[k].id, !.how = "reused"]
    OBVIOUS
  <2>4. rq' = [rq EXCEPT ![r] = q]
    BY <1>1, <1>5, <2>3
  <2>5. /\ q \in Progresses /\ q.at = "done" /\ q.key = k /\ q.snap = rq[r].snap
        /\ q.id = bindings[k].id /\ q.how = "reused"
    BY <1>1, <1>4, <2>2, <2>3 DEF Progresses
  <2>6. Usable(snaps[q.snap].doc, q.id)
    BY <1>5, <2>5 DEF Snap
  <2>7. RequestOK(q)
    BY <1>3, <2>2, <2>5, <2>6 DEF RequestOK
  <2> QED BY <1>2, <2>4, <2>5, <2>7, PlainKeeps
<1>6. ASSUME NEW stage \in {"remove", "pick"}, Moved(r, stage) PROVE OverlayInv'
  <2>1. PICK q \in Progresses :
            /\ rq' = [rq EXCEPT ![r] = q]
            /\ q.at = stage /\ q.key = rq[r].key /\ q.snap = rq[r].snap /\ q.id = rq[r].id
            /\ q.how = rq[r].how
    BY <1>6, MovedTo
  <2>2. RequestOK(q) /\ q.at # "insert"
    BY <1>3, <2>1 DEF RequestOK
  <2> QED BY <1>2, <2>1, <2>2, PlainKeeps
<1> QED BY <1>4, <1>5, <1>6 DEF lookup_binding

\* A binding goes, whoever made it.
LEMMA RemoveKeeps ==
  ASSUME OverlayInv, NEW r \in Requests, RemoveBinding(r),
         WatcherStays, peak' = Max({peak, Cardinality(Passed')})
  PROVE  OverlayInv'
<1>1. RequestOK(rq[r])
  BY DEF OverlayInv, RequestsOK
<1>2. UNCHANGED <<snaps, picks, bound>> /\ rq[r].at = "remove" /\ Moved(r, "pick")
  BY DEF RemoveBinding
<1>3. PICK q \in Progresses :
          /\ rq' = [rq EXCEPT ![r] = q]
          /\ q.at = "pick" /\ q.key = rq[r].key /\ q.snap = rq[r].snap /\ q.id = rq[r].id
          /\ q.how = rq[r].how
  BY <1>2, MovedTo
<1>4. RequestOK(q) /\ q.at # "insert"
  BY <1>1, <1>2, <1>3 DEF RequestOK
<1>5. /\ DOMAIN bindings' \subseteq DOMAIN bindings
      /\ \A k \in DOMAIN bindings' : bindings'[k] = bindings[k]
  BY DEF RemoveBinding, Restrict
<1> QED BY <1>2, <1>3, <1>4, <1>5, PlainKeeps

\* Expired bindings go.
LEMMA EvictKeeps ==
  ASSUME OverlayInv, NEW r \in Requests, evict_expired(r),
         WatcherStays, peak' = Max({peak, Cardinality(Passed')})
  PROVE  OverlayInv'
<1>1. RequestOK(rq[r])
  BY DEF OverlayInv, RequestsOK
<1>2. UNCHANGED <<snaps, picks, bound>> /\ rq[r].at = "evict" /\ Moved(r, "recheck")
  BY DEF evict_expired
<1>3. PICK q \in Progresses :
          /\ rq' = [rq EXCEPT ![r] = q]
          /\ q.at = "recheck" /\ q.key = rq[r].key /\ q.snap = rq[r].snap /\ q.id = rq[r].id
          /\ q.how = rq[r].how
  BY <1>2, MovedTo
<1>4. RequestOK(q) /\ q.at # "insert"
  BY <1>1, <1>2, <1>3 DEF RequestOK
<1>5. /\ DOMAIN bindings' \subseteq DOMAIN bindings
      /\ \A k \in DOMAIN bindings' : bindings'[k] = bindings[k]
  BY DEF evict_expired, Restrict
<1> QED BY <1>2, <1>3, <1>4, <1>5, PlainKeeps

\* Who passes the check a second time finds room for one more.
LEMMA CheckKeeps ==
  ASSUME OverlayInv, NEW r \in Requests, Check(r),
         WatcherStays, peak' = Max({peak, Cardinality(Passed')})
  PROVE  OverlayInv'
<1>1. RequestOK(rq[r])
  BY DEF OverlayInv, RequestsOK
<1>2. UNCHANGED <<snaps, picks, bound>> /\ bindings' = bindings
      /\ rq[r].at \in {"check", "recheck"}
  BY DEF Check
<1>3. PICK stage \in {"evict", "recheck", "done", "insert"} :
         /\ Moved(r, stage)
         /\ stage = "insert" => ~(Cardinality(DOMAIN bindings) >= MaxBindings)
  BY <1>2 DEF Check, Full
<1>4. PICK q \in Progresses :
          /\ rq' = [rq EXCEPT ![r] = q]
          /\ q.at = stage /\ q.key = rq[r].key /\ q.snap = rq[r].snap /\ q.id = rq[r].id
          /\ q.how = rq[r].how
  BY <1>3, MovedTo
<1>5. RequestOK(q)
  BY <1>1, <1>2, <1>3, <1>4 DEF RequestOK
<1>6. CASE stage # "insert"
  BY <1>2, <1>4, <1>5, <1>6, PlainKeeps
<1>7. CASE stage = "insert"
  <2>1. Steps(r)
    BY <1>2, <1>4, PlainSteps
  <2>2. rq'[r] = q /\ \A s \in Requests : s # r => rq'[s] = rq[s]
    BY <1>4, OneStep
  <2>3. RequestOK(rq[r])'
    BY <1>2, <1>5, <2>2 DEF RequestOK
  <2>4. RequestsOK'
    BY <2>1, <2>3, OtherRequestsKeep
  <2>5. Followed'
    BY <2>1, FollowedStays DEF Steps
  <2>6. OverlayTypes'
    <3>1. picks' \in Seq([CandidateIds -> Nat])
      BY <1>2 DEF OverlayInv, OverlayTypes
    <3> QED BY <2>1, <3>1, StepTypes
  <2>7. SnapshotsOK' /\ TurnsOK'
    BY <1>2, CountersStay
  <2>8. BindingsOK'
    BY <1>2 DEF OverlayInv, BindingsOK
  <2>9. TableOK'
    <3>1. /\ IsFiniteSet(DOMAIN bindings) /\ Cardinality(DOMAIN bindings) \in Nat
          /\ MaxBindings \in Nat
      BY FS_CardinalityType, OverlayAssumption DEF OverlayInv, BindingsOK
    <3>2. Cardinality(DOMAIN bindings) < MaxBindings
      BY <1>3, <1>7, <3>1
    <3>3. peak' \in Nat /\ Cardinality(Passed') <= peak'
      BY <2>1, PassedFinite DEF Steps
    <3>4. Cardinality(Passed') \in Nat /\ IsFiniteSet(Passed')
      BY PassedFinite
    <3> QED BY <1>2, <3>1, <3>2, <3>3, <3>4 DEF TableOK, Peak
  <2> QED BY <2>4, <2>5, <2>6, <2>7, <2>8, <2>9 DEF OverlayInv
<1> QED BY <1>6, <1>7

\* Who inserts takes the room it had passed the check for.
LEMMA InsertKeeps ==
  ASSUME OverlayInv, NEW r \in Requests, Insert(r),
         WatcherStays, peak' = Max({peak, Cardinality(Passed')})
  PROVE  OverlayInv'
<1>1. RequestOK(rq[r]) /\ rq[r] \in Progresses
  BY DEF OverlayInv, RequestsOK, OverlayTypes
<1>2. PICK k : k = rq[r].key
  OBVIOUS
<1>3. PICK c : c = rq[r].id
  OBVIOUS
<1>4. /\ UNCHANGED <<snaps, picks>> /\ rq[r].at = "insert" /\ Moved(r, "done")
      /\ DOMAIN bindings' = DOMAIN bindings \cup {k} /\ bindings'[k].id = c
      /\ \A x \in DOMAIN bindings : x # k => bindings'[x] = bindings[x]
      /\ bound' = bound \cup {<<k, c>>}
  BY <1>2, <1>3 DEF Insert
<1>5. PICK q \in Progresses :
          /\ rq' = [rq EXCEPT ![r] = q]
          /\ q.at = "done" /\ q.key = rq[r].key /\ q.snap = rq[r].snap /\ q.id = rq[r].id
          /\ q.how = rq[r].how
  BY <1>4, MovedTo
<1>6. k \in SessionKeys /\ c \in CandidateIds \ {Nothing} /\ q.snap \in 1..Len(snaps)
      /\ Admits(snaps[q.snap].doc, q.id)
  BY <1>1, <1>2, <1>3, <1>4, <1>5 DEF RequestOK, Progresses
<1>7. rq'[r] = q /\ rq' \in [Requests -> Progresses] /\ \A s \in Requests : s # r => rq'[s] = rq[s]
  BY <1>5, OneStep
<1>8. Steps(r)
  <2>1. DocsStay
    BY <1>4 DEF OverlayInv, OverlayTypes, DocsStay
  <2> QED BY <1>4, <1>7, <2>1, PeakKept DEF Steps
<1>9. RequestOK(rq[r])'
  BY <1>4, <1>5, <1>6, <1>7 DEF RequestOK
<1>10. RequestsOK'
  BY <1>8, <1>9, OtherRequestsKeep
<1>11. Followed'
  BY <1>8, FollowedStays DEF Steps
<1>12. OverlayTypes'
  <2>1. picks' \in Seq([CandidateIds -> Nat])
    BY <1>4 DEF OverlayInv, OverlayTypes
  <2> QED BY <1>8, <2>1, StepTypes
<1>13. SnapshotsOK' /\ TurnsOK'
  BY <1>4, CountersStay
<1>14. /\ IsFiniteSet(DOMAIN bindings') /\ Cardinality(DOMAIN bindings') \in Nat
       /\ Cardinality(DOMAIN bindings) \in Nat
       /\ Cardinality(DOMAIN bindings') <= Cardinality(DOMAIN bindings) + 1
  <2>1. IsFiniteSet(DOMAIN bindings)
    BY DEF OverlayInv, BindingsOK
  <2>2. PICK D : D = DOMAIN bindings
    OBVIOUS
  <2>3. IsFiniteSet(D) /\ DOMAIN bindings' = D \cup {k}
    BY <1>4, <2>1, <2>2
  <2>4. IsFiniteSet(D \cup {k}) /\ (Cardinality(D \cup {k}) = Cardinality(D)
                                   \/ Cardinality(D \cup {k}) = Cardinality(D) + 1)
    BY ONLY <2>3, FS_AddElement
  <2>5. Cardinality(D) \in Nat
    BY <2>3, FS_CardinalityType
  <2> QED BY <2>2, <2>3, <2>4, <2>5
<1>15. BindingsOK'
  <2>1. DOMAIN bindings' \subseteq SessionKeys
    BY <1>4, <1>6 DEF OverlayInv, BindingsOK
  <2>2. ASSUME NEW x \in DOMAIN bindings'
        PROVE  bindings'[x].id \in CandidateIds \ {Nothing} /\ <<x, bindings'[x].id>> \in bound'
    <3>1. CASE x = k
      BY <1>4, <1>6, <3>1
    <3>2. CASE x # k
      BY <1>4, <3>2 DEF OverlayInv, BindingsOK
    <3> QED BY <3>1, <3>2
  <2> QED BY <1>14, <2>1, <2>2 DEF BindingsOK
<1>16. TableOK'
  <2>1. Passed' = Passed \ {r} /\ r \in Passed
    BY <1>4, <1>5, <1>7 DEF Passed
  <2>2. /\ Cardinality(Passed') = Cardinality(Passed) - 1 /\ Cardinality(Passed) \in Nat
        /\ Cardinality(Passed') \in Nat /\ IsFiniteSet(Passed')
    BY <2>1, PassedFinite, FS_RemoveElement
  <2>3. /\ peak \in Nat /\ peak' \in Nat /\ peak' >= peak /\ MaxBindings \in Nat
        /\ Cardinality(DOMAIN bindings) + Cardinality(Passed) < MaxBindings + Peak(peak)
    BY <1>8, OverlayAssumption DEF OverlayInv, OverlayTypes, TableOK, Steps
  <2> QED BY <1>14, <2>2, <2>3 DEF TableOK, Peak
<1> QED BY <1>10, <1>11, <1>12, <1>13, <1>15, <1>16 DEF OverlayInv

\* A counter that turns.
LEMMA TurnIs ==
  ASSUME NEW C \in Nat \ {0}, NEW t \in Nat, t < C
  PROVE  (t + 1) % C = IF t + 1 = C THEN 0 ELSE t + 1
<1>1. CASE t + 1 = C
  BY <1>1
<1>2. CASE t + 1 # C
  BY <1>2
<1> QED BY <1>1, <1>2

\* A choice moves its group's counter on, and no other.
LEMMA AdvancedIs ==
  ASSUME NEW sn \in Snapshots, NEW n, SnapshotOK(n, sn), NEW i \in select_candidate(sn)
  PROVE  /\ Advanced(sn, i) \in [Groups(sn.doc) -> Nat]
         /\ \A g \in Groups(sn.doc) :
              Advanced(sn, i)[g] =
                IF sn.doc.mode = "round_robin" /\ g = sn.doc.cands[i].group
                THEN IF sn.next[g] + 1 = Cardinality(Members(sn.doc, g)) THEN 0 ELSE sn.next[g] + 1
                ELSE sn.next[g]
<1>1. PICK d : d = sn.doc
  OBVIOUS
<1>2. PICK h : h = d.cands[i].group
  OBVIOUS
<1>3. d \in Docs /\ build(d.cands) /\ Groups(d) \subseteq Nat /\ Nothing \notin Nat
  BY <1>1, DocFacts, OverlayAssumption DEF Snapshots, SnapshotOK
<1>4. sn.next \in [Groups(d) -> Nat]
  BY <1>1 DEF Snapshots, Counters, SnapshotOK
<1>5. CASE sn.doc.mode # "round_robin" \/ h = Nothing
  <2>1. Advanced(sn, i) = sn.next
    BY <1>1, <1>2, <1>5 DEF Advanced
  <2>2. h \notin Groups(d) \/ sn.doc.mode # "round_robin"
    BY <1>3, <1>5
  <2> QED BY <1>1, <1>2, <1>4, <2>1, <2>2
<1>6. CASE sn.doc.mode = "round_robin" /\ h # Nothing
  <2>1. i \in DOMAIN d.cands
    BY <1>1, SelectFacts
  <2>2. h \in Groups(d)
    BY <1>2, <1>6, <2>1 DEF Groups
  <2>3. PICK C : C = Cardinality(Members(d, h))
    OBVIOUS
  <2>4. C \in Nat \ {0} /\ sn.next[h] \in Nat /\ sn.next[h] < C
    BY <1>1, <1>3, <1>4, <2>2, <2>3, MembersTogether DEF SnapshotOK
  <2>5. PICK v : v = (sn.next[h] + 1) % C
    OBVIOUS
  <2>6. v = (IF sn.next[h] + 1 = C THEN 0 ELSE sn.next[h] + 1) /\ v \in Nat
    BY <2>4, <2>5, TurnIs
  <2>7. Advanced(sn, i) = [sn.next EXCEPT ![h] = v]
    BY <1>1, <1>2, <1>6, <2>3, <2>5 DEF Advanced
  <2> QED BY <1>1, <1>2, <1>4, <1>6, <2>2, <2>3, <2>6, <2>7
<1> QED BY <1>5, <1>6

\* A turn: the snapshot with the counter moved on, the tally with one more choice.
LEMMA TurnTaken ==
  ASSUME NEW sn \in Snapshots, NEW n, SnapshotOK(n, sn), NEW i \in select_candidate(sn),
         NEW turns \in [CandidateIds -> Nat], TurnsKept(sn, turns),
         NEW tn \in Snapshots, tn.doc = sn.doc, tn.next = Advanced(sn, i),
         NEW after \in [CandidateIds -> Nat],
         \A id \in CandidateIds :
            after[id] = turns[id] + (IF id = sn.doc.cands[i].id THEN 1 ELSE 0)
  PROVE  TurnsKept(tn, after)
<1>1. PICK d : d = sn.doc
  OBVIOUS
<1>2. d \in Docs /\ build(d.cands) /\ tn.doc = d
  BY <1>1 DEF Snapshots, SnapshotOK
<1>3. SUFFICES ASSUME d.mode = "round_robin", NEW g \in Groups(d)
               PROVE  \E q \in Nat : TurnsOf(tn, after, g, q)
  BY <1>2 DEF TurnsKept
<1>4. PICK q \in Nat : TurnsOf(sn, turns, g, q)
  BY <1>1, <1>3 DEF TurnsKept
<1>5. PICK h : h = d.cands[i].group
  OBVIOUS
<1>6. i \in DOMAIN d.cands /\ h \in Groups(d) /\ i = First(d, h) + sn.next[h]
  BY <1>1, <1>3, <1>5, SelectFacts
<1>7. PICK M : M = Members(d, g)
  OBVIOUS
<1>8. PICK C : C = Cardinality(M)
  OBVIOUS
<1>9. PICK F : F = First(d, g)
  OBVIOUS
<1>10. F \in Nat /\ C \in Nat \ {0} /\ M = F..(F + C - 1) /\ M \subseteq DOMAIN d.cands
  BY <1>2, <1>7, <1>8, <1>9, MembersTogether, DocFacts
<1>11. PICK t : t = sn.next[g]
  OBVIOUS
<1>12. t \in Nat /\ t < C
  <2>1. DOMAIN sn.next = Groups(d) /\ sn.next \in Counters /\ t < C
    BY <1>1, <1>7, <1>8, <1>11 DEF SnapshotOK, Snapshots
  <2> QED BY <1>11, <2>1 DEF Counters
<1>13. \A m \in M : turns[d.cands[m].id] = q + (IF m < F + t THEN 1 ELSE 0)
  BY <1>1, <1>4, <1>7, <1>9, <1>11 DEF TurnsOf
<1>14. \A m \in M : after[d.cands[m].id] = turns[d.cands[m].id] + (IF m = i THEN 1 ELSE 0)
  <2>1. \A m \in M : d.cands[m].id \in CandidateIds /\ (d.cands[m].id = d.cands[i].id => m = i)
    BY <1>2, <1>6, <1>10, DocFacts
  <2> QED BY <1>1, <2>1
<1>15. PICK u : u = tn.next[g]
  OBVIOUS
<1>16. u = IF g = h THEN IF t + 1 = C THEN 0 ELSE t + 1 ELSE t
  BY <1>1, <1>3, <1>5, <1>7, <1>8, <1>11, <1>15, AdvancedIs
<1>17. SUFFICES \E p \in Nat : \A m \in M : after[d.cands[m].id] = p + (IF m < F + u THEN 1 ELSE 0)
  BY <1>2, <1>7, <1>9, <1>15 DEF TurnsOf
<1>18. CASE g # h
  <2>1. \A m \in M : m # i
    BY <1>5, <1>7, <1>18 DEF Members
  <2>2. \A m \in M : after[d.cands[m].id] = q + (IF m < F + u THEN 1 ELSE 0)
    BY <1>13, <1>14, <1>16, <1>18, <2>1
  <2> QED BY <2>2
<1>19. CASE g = h /\ t + 1 # C
  <2>1. i = F + t /\ u = t + 1
    BY <1>6, <1>9, <1>11, <1>16, <1>19
  <2>2. \A m \in M : m \in Nat
    BY <1>10
  <2>3. \A m \in M : after[d.cands[m].id] = q + (IF m < F + u THEN 1 ELSE 0)
    <3>1. SUFFICES ASSUME NEW m \in M
                   PROVE  after[d.cands[m].id] = q + (IF m < F + u THEN 1 ELSE 0)
      OBVIOUS
    <3>2. PICK a : a = turns[d.cands[m].id]
      OBVIOUS
    <3>3. PICK b : b = after[d.cands[m].id]
      OBVIOUS
    <3>4. a = q + (IF m < F + t THEN 1 ELSE 0) /\ b = a + (IF m = i THEN 1 ELSE 0)
      BY <1>13, <1>14, <3>2, <3>3
    <3>5. m \in Nat /\ q \in Nat /\ F \in Nat /\ t \in Nat
      BY <1>10, <1>12, <2>2
    <3>6. CASE m = i
      BY <2>1, <2>2, <3>3, <3>4, <3>5, <3>6
    <3>7. CASE m # i
      BY <2>1, <2>2, <3>3, <3>4, <3>5, <3>7
    <3> QED BY <3>6, <3>7
  <2> QED BY <2>3
<1>20. CASE g = h /\ t + 1 = C
  <2>1. i = F + t /\ u = 0
    BY <1>6, <1>9, <1>11, <1>16, <1>20
  <2>2. \A m \in M : m \in Nat /\ F <= m /\ m <= F + t
    BY <1>10, <1>12, <1>20
  <2>3. \A m \in M : after[d.cands[m].id] = (q + 1) + (IF m < F + u THEN 1 ELSE 0)
    <3>1. SUFFICES ASSUME NEW m \in M
                   PROVE  after[d.cands[m].id] = (q + 1) + (IF m < F + u THEN 1 ELSE 0)
      OBVIOUS
    <3>2. PICK a : a = turns[d.cands[m].id]
      OBVIOUS
    <3>3. PICK b : b = after[d.cands[m].id]
      OBVIOUS
    <3>4. a = q + (IF m < F + t THEN 1 ELSE 0) /\ b = a + (IF m = i THEN 1 ELSE 0)
      BY <1>13, <1>14, <3>2, <3>3
    <3>5. m \in Nat /\ q \in Nat /\ F \in Nat /\ t \in Nat
      BY <1>10, <1>12, <2>2
    <3>6. CASE m = i
      BY <2>1, <2>2, <3>3, <3>4, <3>5, <3>6
    <3>7. CASE m # i
      BY <2>1, <2>2, <3>3, <3>4, <3>5, <3>7
    <3> QED BY <3>6, <3>7
  <2>4. q + 1 \in Nat
    OBVIOUS
  <2> QED BY <2>3, <2>4
<1> QED BY <1>18, <1>19, <1>20

\* What a choice makes of the snapshots and of the tally.
LEMMA PickKeeps ==
  ASSUME OverlayInv, NEW r \in Requests, Pick(r),
         WatcherStays, peak' = Max({peak, Cardinality(Passed')})
  PROVE  OverlayInv'
<1>1. rq \in [Requests -> Progresses] /\ rq[r] \in Progresses /\ RequestOK(rq[r])
      /\ snaps \in Seq(Snapshots) /\ picks \in Seq([CandidateIds -> Nat])
      /\ Len(picks) = Len(snaps)
  BY DEF OverlayInv, OverlayTypes, RequestsOK, SnapshotsOK
<1>2. rq[r].at = "pick" /\ UNCHANGED <<bindings, bound>>
  BY DEF Pick
<1>3. PICK n : n = rq[r].snap
  OBVIOUS
<1>4. PICK sn : sn = snaps[n]
  OBVIOUS
<1>5. /\ n \in 1..Len(snaps) /\ rq[r].id = Nothing /\ Snap(r) = sn /\ sn \in Snapshots
      /\ SnapshotOK(n, sn) /\ sn.epoch = n
  BY <1>1, <1>2, <1>3, <1>4 DEF RequestOK, Snap, OverlayInv, SnapshotsOK, SnapshotOK
<1>6. CASE /\ rq' = [rq EXCEPT ![r].at = "done", ![r].how = "rejected"]
           /\ UNCHANGED <<snaps, picks>>
  <2>1. PICK q : q = [rq[r] EXCEPT !.at = "done", !.how = "rejected"]
    OBVIOUS
  <2>2. rq' = [rq EXCEPT ![r] = q]
    BY <1>1, <1>6, <2>1
  <2>3. q \in Progresses /\ q.at = "done" /\ q.id = Nothing /\ q.snap = n
    BY <1>1, <1>3, <1>5, <2>1 DEF Progresses
  <2>4. RequestOK(q)
    BY <1>5, <2>3 DEF RequestOK
  <2> QED BY <1>2, <1>6, <2>2, <2>3, <2>4, PlainKeeps
<1>7. CASE \E i \in select_candidate(Snap(r)) :
             LET id == Snap(r).doc.cands[i].id
             IN  /\ rq' = [rq EXCEPT ![r].at = IF rq[r].key = Nothing THEN "done" ELSE "check",
                                     ![r].id = id, ![r].how = "picked"]
                 /\ snaps' = [snaps EXCEPT ![rq[r].snap].next = Advanced(Snap(r), i)]
                 /\ picks' = [picks EXCEPT ![Snap(r).epoch][id] = @ + 1]
  <2>1. PICK i \in select_candidate(sn) :
          /\ rq' = [rq EXCEPT ![r].at = IF rq[r].key = Nothing THEN "done" ELSE "check",
                              ![r].id = sn.doc.cands[i].id, ![r].how = "picked"]
          /\ snaps' = [snaps EXCEPT ![n].next = Advanced(sn, i)]
          /\ picks' = [picks EXCEPT ![n][sn.doc.cands[i].id] = @ + 1]
    BY <1>3, <1>5, <1>7
  <2>2. PICK id : id = sn.doc.cands[i].id
    OBVIOUS
  <2>3. sn.doc \in Docs /\ i \in DOMAIN sn.doc.cands
        /\ sn.doc.cands[i].admission = "new_and_existing" /\ id \in CandidateIds \ {Nothing}
    <3>1. sn.doc \in Docs /\ i \in DOMAIN sn.doc.cands
          /\ sn.doc.cands[i].admission = "new_and_existing"
      BY <1>5, SelectFacts DEF Snapshots
    <3> QED BY <2>2, <3>1, DocFacts
  <2>4. Admits(sn.doc, id)
    BY <2>2, <2>3 DEF Admits
  <2>5. PICK stage : stage = IF rq[r].key = Nothing THEN "done" ELSE "check"
    OBVIOUS
  <2>6. PICK q : q = [rq[r] EXCEPT !.at = stage, !.id = id, !.how = "picked"]
    OBVIOUS
  <2>7. rq' = [rq EXCEPT ![r] = q]
    BY <1>1, <2>1, <2>2, <2>5, <2>6
  <2>8. q \in Progresses /\ q.at = stage /\ q.id = id /\ q.snap = n /\ q.key = rq[r].key
    BY <1>1, <1>3, <2>3, <2>5, <2>6 DEF Progresses
  <2>9. PICK next : next = Advanced(sn, i)
    OBVIOUS
  <2>10. PICK tn : tn = [sn EXCEPT !.next = next]
    OBVIOUS
  <2>11. /\ next \in [Groups(sn.doc) -> Nat]
         /\ \A g \in Groups(sn.doc) : next[g] < Cardinality(Members(sn.doc, g))
    <3>1. next \in [Groups(sn.doc) -> Nat]
      BY <1>5, <2>9, AdvancedIs
    <3>2. ASSUME NEW g \in Groups(sn.doc) PROVE next[g] < Cardinality(Members(sn.doc, g))
      <4>1. PICK C : C = Cardinality(Members(sn.doc, g))
        OBVIOUS
      <4>2. PICK t : t = sn.next[g]
        OBVIOUS
      <4>3. C \in Nat \ {0} /\ t < C /\ t \in Nat
        <5>1. /\ build(sn.doc.cands) /\ DOMAIN sn.next = Groups(sn.doc) /\ t < C
              /\ sn.next \in Counters
          BY <1>5, <4>1, <4>2 DEF SnapshotOK, Snapshots
        <5>2. C \in Nat \ {0}
          BY <2>3, <4>1, <5>1, MembersTogether
        <5>3. t \in Nat
          BY <4>2, <5>1 DEF Counters
        <5> QED BY <5>1, <5>2, <5>3
      <4>4. next[g] = t \/ next[g] = (IF t + 1 = C THEN 0 ELSE t + 1)
        BY <1>5, <2>9, <4>1, <4>2, AdvancedIs
      <4> QED BY <4>1, <4>3, <4>4
    <3> QED BY <3>1, <3>2
  <2>12. tn \in Snapshots /\ tn.doc = sn.doc /\ tn.next = next /\ tn.epoch = n
    <3>1. Groups(sn.doc) \in SUBSET Nat
      BY <2>3, DocFacts
    <3>2. next \in Counters
      BY <2>11, <3>1 DEF Counters
    <3> QED BY <1>5, <2>10, <3>2 DEF Snapshots
  <2>13. SnapshotOK(n, tn)
    BY <1>5, <2>11, <2>12 DEF SnapshotOK
  <2>14. snaps' = [snaps EXCEPT ![n] = tn]
    BY <1>1, <1>4, <1>5, <2>1, <2>9, <2>10
  <2>15. /\ snaps' \in Seq(Snapshots) /\ Len(snaps') = Len(snaps) /\ snaps'[n] = tn
         /\ \A m \in 1..Len(snaps) : m # n => snaps'[m] = snaps[m]
    BY <1>1, <1>5, <2>12, <2>14
  <2>16. PICK turns : turns = picks[n]
    OBVIOUS
  <2>17. turns \in [CandidateIds -> Nat]
    BY <1>1, <1>5, <2>16
  <2>18. PICK after : after = [turns EXCEPT ![id] = @ + 1]
    OBVIOUS
  <2>19. /\ after \in [CandidateIds -> Nat]
         /\ \A c \in CandidateIds : after[c] = turns[c] + (IF c = id THEN 1 ELSE 0)
    BY <2>3, <2>17, <2>18
  <2>20. picks' = [picks EXCEPT ![n] = after]
    BY <1>1, <1>5, <2>1, <2>2, <2>16, <2>18
  <2>21. /\ picks' \in Seq([CandidateIds -> Nat]) /\ Len(picks') = Len(picks) /\ picks'[n] = after
         /\ \A m \in 1..Len(snaps) : m # n => picks'[m] = picks[m]
    BY <1>1, <1>5, <2>19, <2>20
  <2>22. DocsStay
    BY <1>4, <2>12, <2>15 DEF DocsStay
  <2>23. Steps(r)
    BY <1>2, <2>7, <2>8, <2>22, OneStep, PeakKept DEF Steps
  <2>24. RequestOK(rq[r])'
    <3>1. rq'[r] = q /\ q.snap \in 1..Len(snaps') /\ snaps'[q.snap].doc = sn.doc
      BY <1>5, <2>7, <2>8, <2>12, <2>15, OneStep
    <3>2. stage = "check" => q.key \in SessionKeys
      BY <1>1, <2>5, <2>8 DEF Progresses
    <3> QED BY <2>3, <2>4, <2>5, <2>8, <3>1, <3>2 DEF RequestOK
  <2>25. RequestsOK'
    BY <2>23, <2>24, OtherRequestsKeep
  <2>26. Followed'
    BY <2>23, FollowedStays DEF Steps
  <2>27. OverlayTypes'
    BY <2>21, <2>23, StepTypes
  <2>28. SnapshotsOK'
    BY <1>1, <2>13, <2>15, <2>21 DEF OverlayInv, SnapshotsOK
  <2>29. TurnsOK'
    <3>1. TurnsKept(sn, turns)
      BY <1>4, <1>5, <2>16 DEF OverlayInv, TurnsOK
    <3>2. TurnsKept(tn, after)
      BY <1>5, <2>2, <2>9, <2>12, <2>17, <2>19, <3>1, TurnTaken
    <3> QED BY <2>15, <2>21, <3>2 DEF OverlayInv, TurnsOK
  <2>30. BindingsOK'
    BY <1>2 DEF OverlayInv, BindingsOK
  <2>31. TableOK'
    <3>1. Passed' \subseteq Passed
      <4>1. rq'[r] = q /\ q.at # "insert" /\ \A s \in Requests : s # r => rq'[s] = rq[s]
        BY <2>5, <2>7, <2>8, OneStep
      <4> QED BY <4>1 DEF Passed
    <3> QED BY <1>2, <2>23, <3>1, TableStays
  <2> QED BY <2>25, <2>26, <2>27, <2>28, <2>29, <2>30, <2>31 DEF OverlayInv
<1> QED BY <1>6, <1>7 DEF Pick

\* Every step keeps the invariant.
LEMMA OverlayKept ==
  ASSUME OverlayInv, [OverlayNext]_overlayVars
  PROVE  OverlayInv'
<1>1. CASE UNCHANGED overlayVars
  <2>1. RequestsStay /\ UNCHANGED <<file, events, raised, watcher, clock>>
    BY <1>1 DEF overlayVars, RequestsStay
  <2>2. OverlayTypes' /\ Followed'
    BY <2>1 DEF OverlayInv, OverlayTypes, RequestsStay, Followed, Served
  <2> QED BY <2>1, <2>2, RequestsUnmoved DEF OverlayInv
<1>2. CASE \E f \in Docs \cup {Unreadable} : Edit(f)
  BY <1>2, EditKeeps
<1>3. CASE Notify
  BY <1>3, NotifyKeeps
<1>4. CASE WatcherStep
  BY <1>4, WatchingKeeps, ApplyKeeps DEF WatcherStep
<1>5. CASE OverlayTick
  BY <1>5, OverlayTickKeeps
<1>6. ASSUME NEW r \in Requests, RequestStep(r) PROVE OverlayInv'
  <2>1. WatcherStays /\ peak' = Max({peak, Cardinality(Passed')})
    BY <1>6 DEF RequestStep, WatcherStays
  <2>2. CASE \E key \in SessionKeys \cup {Nothing} : Load(r, key)
    BY <2>1, <2>2, LoadKeeps
  <2>3. CASE lookup_binding(r)
    BY <2>1, <2>3, BindingLookupKeeps
  <2>4. CASE RemoveBinding(r)
    BY <2>1, <2>4, RemoveKeeps
  <2>5. CASE Pick(r)
    BY <2>1, <2>5, PickKeeps
  <2>6. CASE Check(r)
    BY <2>1, <2>6, CheckKeeps
  <2>7. CASE evict_expired(r)
    BY <2>1, <2>7, EvictKeeps
  <2>8. CASE Insert(r)
    BY <2>1, <2>8, InsertKeeps
  <2> QED BY <1>6, <2>2, <2>3, <2>4, <2>5, <2>6, <2>7, <2>8 DEF RequestStep
<1> QED BY <1>1, <1>2, <1>3, <1>4, <1>5, <1>6 DEF OverlayNext

\* It says what the run checks.
LEMMA OverlayInvMeans ==
  ASSUME OverlayInv
  PROVE  OverlayFollowed /\ AffinitySound
<1>1. ASSUME watcher.at = "wait", events = 0, ~raised, Accepted(file)
      PROVE  Served.doc.bytes = file.bytes \/ is_semantically_unchanged(Served.doc, file)
  BY <1>1 DEF OverlayInv, Followed, Serves
<1>2. ASSUME NEW n \in DOMAIN snaps, snaps[n].doc.mode = "round_robin",
             NEW g \in Groups(snaps[n].doc),
             NEW i \in Members(snaps[n].doc, g), NEW j \in Members(snaps[n].doc, g)
      PROVE  picks[snaps[n].epoch][snaps[n].doc.cands[i].id]
               <= picks[snaps[n].epoch][snaps[n].doc.cands[j].id] + 1
  <2>1. n \in 1..Len(snaps)
    BY DEF OverlayInv, OverlayTypes
  <2>2. snaps[n].epoch = n /\ TurnsKept(snaps[n], picks[n])
    BY <2>1 DEF OverlayInv, SnapshotsOK, SnapshotOK, TurnsOK
  <2>3. PICK q \in Nat : TurnsOf(snaps[n], picks[n], g, q)
    BY <1>2, <2>2 DEF TurnsKept
  <2>4. PICK a : a = picks[n][snaps[n].doc.cands[i].id]
    OBVIOUS
  <2>5. PICK b : b = picks[n][snaps[n].doc.cands[j].id]
    OBVIOUS
  <2>6. a \in {q, q + 1} /\ b \in {q, q + 1}
    BY <2>3, <2>4, <2>5 DEF TurnsOf
  <2> QED BY <2>2, <2>4, <2>5, <2>6
<1>3. OverlayFollowed
  BY <1>1, <1>2 DEF OverlayFollowed
<1>4. ASSUME NEW r \in Requests, rq[r].at = "done", rq[r].id # Nothing
      PROVE  CASE Snap(r).doc.cands[Chosen(r)].admission = "new_and_existing" -> TRUE
               [] Snap(r).doc.cands[Chosen(r)].admission = "existing_only" ->
                     rq[r].how = "reused" /\ <<rq[r].key, rq[r].id>> \in bound
               [] OTHER -> FALSE
  <2>1. PICK d : d = Snap(r).doc
    OBVIOUS
  <2>2. PICK id : id = rq[r].id
    OBVIOUS
  <2>3. /\ rq[r].snap \in 1..Len(snaps)
        /\ \/ Admits(d, id)
           \/ rq[r].how = "reused" /\ <<rq[r].key, rq[r].id>> \in bound /\ Usable(d, id)
    BY <1>4, <2>1, <2>2 DEF OverlayInv, RequestsOK, RequestOK, Snap
  <2>4. d \in Docs
    <3>1. PICK n : n = rq[r].snap
      OBVIOUS
    <3>2. n \in 1..Len(snaps) /\ snaps \in Seq(Snapshots)
      BY <2>3, <3>1 DEF OverlayInv, OverlayTypes
    <3>3. snaps[n] \in Snapshots /\ d = snaps[n].doc
      BY <2>1, <3>1, <3>2 DEF Snap
    <3> QED BY <3>3 DEF Snapshots
  <2>5. PICK c : c = Chosen(r)
    OBVIOUS
  <2>6. ASSUME NEW i \in DOMAIN d.cands, d.cands[i].id = id PROVE c = i
    <3>1. \A j \in DOMAIN d.cands : d.cands[j].id = id => j = i
      BY <2>4, <2>6, DocFacts
    <3>2. c = CHOOSE j \in DOMAIN d.cands : d.cands[j].id = id
      BY <2>1, <2>2, <2>5 DEF Chosen
    <3> QED BY <2>6, <3>1, <3>2
  <2>7. CASE Admits(d, id)
    <3>1. d.cands[c].admission = "new_and_existing"
      BY <2>6, <2>7 DEF Admits
    <3> QED BY <2>1, <2>5, <3>1
  <2>8. CASE rq[r].how = "reused" /\ <<rq[r].key, rq[r].id>> \in bound /\ Usable(d, id)
    <3>1. c \in DOMAIN d.cands /\ d.cands[c].admission # "excluded"
      BY <2>6, <2>8 DEF Usable
    <3>2. d.cands[c] \in Candidates
      BY <2>4, <3>1, DocFacts
    <3>3. d.cands[c].admission \in {"new_and_existing", "existing_only"}
      BY <3>1, <3>2 DEF Candidates
    <3> QED BY <2>1, <2>5, <2>8, <3>3
  <2> QED BY <2>3, <2>7, <2>8
<1>5. Cardinality(DOMAIN bindings) < MaxBindings + Max({peak, 1})
  <2>1. /\ peak \in Nat /\ MaxBindings \in Nat /\ IsFiniteSet(DOMAIN bindings)
        /\ Cardinality(DOMAIN bindings) + Cardinality(Passed) < MaxBindings + Peak(peak)
    BY OverlayAssumption DEF OverlayInv, OverlayTypes, BindingsOK, TableOK
  <2>2. Cardinality(DOMAIN bindings) \in Nat /\ Cardinality(Passed) \in Nat
    BY <2>1, FS_CardinalityType, PassedFinite
  <2>3. Max({peak, 1}) \in Nat /\ Max({peak, 1}) >= peak /\ Max({peak, 1}) >= 1
    BY <2>1, GreaterIs
  <2> QED BY <2>1, <2>2, <2>3 DEF Peak
<1>6. AffinitySound
  BY <1>4, <1>5 DEF AffinitySound
<1> QED BY <1>3, <1>6

\* The watcher with nothing to do serves what the file says, and the turns of a
\* served revision stay even (overlay.rs, group_index.rs).
THEOREM OverlayIsFollowed == OverlaySpec => []OverlayFollowed
<1>1. OverlayInit => OverlayInv
  BY OverlayStarts
<1>2. OverlayInv /\ [OverlayNext]_overlayVars => OverlayInv'
  BY OverlayKept
<1>3. OverlayInv => OverlayFollowed
  BY OverlayInvMeans
<1> QED BY <1>1, <1>2, <1>3, PTL DEF OverlaySpec

\* No session reaches a candidate that does not admit it, and the table of bindings
\* passes its limit by no more than the requests that had passed its check together
\* (intelligent_route.rs).
THEOREM AffinityIsSound == OverlaySpec => []AffinitySound
<1>1. OverlayInit => OverlayInv
  BY OverlayStarts
<1>2. OverlayInv /\ [OverlayNext]_overlayVars => OverlayInv'
  BY OverlayKept
<1>3. OverlayInv => AffinitySound
  BY OverlayInvMeans
<1> QED BY <1>1, <1>2, <1>3, PTL DEF OverlaySpec

-----------------------------------------------------------------------------
(* ExtProc: the inductive invariant                                        *)

ExchangeFields == {"boot", "tx", "first", "terminal", "complete", "active", "send", "bodySent",
                   "out"}
Attempts == [expected : {Header("req"), Header("resp")}, deadline : Nat, overridden : BOOLEAN]
Replies ==
  {Header("req"), Header("resp"), Immediate}
  \cup [kind : {"body"}, dir : {"req"}, mutation : {"chunk", "eos", "absent", "plain"}, chunk : Nat]
  \cup [kind : {"trailers"}, dir : {"req"}]
  \cup [kind : {"override"}, dir : {"none"}, time : Overrides]

\* What the processor may have sent.
InboxKnown == inbox \in Seq(Replies) /\ streamed \in Nat

\* A message that is waited for has a deadline, which is extended once at most.
Awaits(a, limit) ==
  /\ a \in Attempts /\ waited <= a.deadline
  /\ a.deadline <= limit + (IF a.overridden THEN MaxMessageTimeout ELSE 0)

\* How far the timers of the current hook have come.
TimersKept ==
  /\ waited \in Nat
  /\ phase \in {"begin", "send", "recv", "trail", "delivered", "rejected"}
  /\ exch = NoExchange \/ DOMAIN exch = ExchangeFields
  /\ phase \in {"send", "recv"} => DOMAIN exch = ExchangeFields
  /\ phase = "begin" => waited = 0
  /\ phase = "send" => Hook \in {"chunk", "eos", "response"}
  /\ phase = "send" /\ Hook = "response" => waited <= MessageTimeout
  /\ phase = "recv" => Hook \in {"request", "eos", "response"}
  /\ phase = "recv" /\ Hook = "request" => Awaits(exch.active, MessageTimeout)
  /\ phase = "recv" /\ Hook = "response" => Awaits(exch.active, 2 * MessageTimeout)
  /\ phase \in {"recv", "trail"} /\ Hook = "eos" => waited <= LifecycleTimeout
  /\ phase = "trail" /\ Hook # "eos" => waited <= DeferredClose

WaitsInv == InboxKnown /\ TimersKept

\* Durations are natural numbers.
LEMMA Durations ==
  /\ MessageTimeout \in Nat /\ MaxMessageTimeout \in Nat /\ LifecycleTimeout \in Nat
  /\ DeferredClose \in Nat /\ Overrides \subseteq Nat
BY ExtProcAssumption

\* A hook that goes on waits no longer.
LEMMA ContinueKeeps ==
  ASSUME NEW e, e = NoExchange \/ DOMAIN e = ExchangeFields, Continue(e)
  PROVE  TimersKept'
BY DEF Continue, TimersKept

\* A hook that rejects drops the exchange.
LEMMA RejectKeeps ==
  ASSUME Reject
  PROVE  TimersKept'
BY DEF Reject, TimersKept

\* The trailing drain has a time of its own, or what is left of the body hook's.
LEMMA TrailKeeps ==
  ASSUME TimersKept, phase = "recv", NEW e, DOMAIN e = ExchangeFields, NEW result, Trail(e, result)
  PROVE  TimersKept'
<1>1. CASE Hook # "eos" /\ DeferredClose = 0
  <2>1. Continue(NoExchange) \/ Reject
    BY <1>1 DEF Trail
  <2> QED BY <2>1, ContinueKeeps, RejectKeeps
<1>2. CASE ~(Hook # "eos" /\ DeferredClose = 0)
  <2>1. /\ phase' = "trail" /\ exch' = finish_sending(e) /\ todo' = todo
        /\ waited' = IF Hook = "eos" THEN waited ELSE 0
    BY <1>2 DEF Trail
  <2>2. DOMAIN exch' = ExchangeFields
    BY <2>1 DEF finish_sending
  <2>3. Hook' = Hook
    BY <2>1 DEF Hook
  <2>4. waited \in Nat /\ (Hook = "eos" => waited <= LifecycleTimeout)
    BY DEF TimersKept
  <2> QED BY <2>1, <2>2, <2>3, <2>4, Durations DEF TimersKept
<1> QED BY <1>1, <1>2

\* A failure rejects, the body hook after its drain.
LEMMA FailureKeeps ==
  ASSUME TimersKept, phase = "recv", NEW e, DOMAIN e = ExchangeFields, Fail(e)
  PROVE  TimersKept'
BY TrailKeeps, RejectKeeps DEF Fail

\* A message that is sent.
LEMMA SentMessage ==
  ASSUME NEW e, DOMAIN e = ExchangeFields, NEW m
  PROVE  /\ DOMAIN apply_send_transition(e, m) = ExchangeFields
         /\ ~FullDuplex(m.dir) =>
              apply_send_transition(e, m).active =
                [expected |-> m, deadline |-> waited + MessageTimeout, overridden |-> FALSE]
BY DEF apply_send_transition, ExchangeFields

\* A new exchange.
LEMMA NewFields == DOMAIN NewExchange = ExchangeFields
BY DEF NewExchange, ExchangeFields

\* The message waited for when it has just been sent.
LEMMA JustSent ==
  ASSUME NEW d \in {"req", "resp"}, NEW limit \in Nat, waited \in Nat,
         waited + MessageTimeout <= limit
  PROVE  LET a == [expected |-> Header(d), deadline |-> waited + MessageTimeout,
                   overridden |-> FALSE]
         IN  waited' = waited => Awaits(a, limit)'
<1>1. PICK a : a = [expected |-> Header(d), deadline |-> waited + MessageTimeout,
                    overridden |-> FALSE]
  OBVIOUS
<1>2. a \in Attempts /\ a.deadline = waited + MessageTimeout /\ ~a.overridden
  BY <1>1, Durations DEF Attempts
<1>3. ASSUME waited' = waited PROVE Awaits(a, limit)'
  BY <1>2, <1>3, Durations DEF Awaits
<1> QED BY <1>1, <1>3

\* An exchange is opened with the request headers.
LEMMA OpenKeeps ==
  ASSUME InboxKnown, OpenWithHeaders
  PROVE  InboxKnown' /\ DOMAIN exch' = ExchangeFields
<1>1. DOMAIN exch' = ExchangeFields
  BY NewFields, SentMessage DEF OpenWithHeaders
<1>2. inbox' = <<>> /\ streamed' = streamed
  BY DEF OpenWithHeaders
<1> QED BY <1>1, <1>2 DEF InboxKnown

\* An exchange is opened unless there is one.
LEMMA EnsureKeeps ==
  ASSUME WaitsInv, ensure_exchange_and_send_headers
  PROVE  InboxKnown' /\ DOMAIN exch' = ExchangeFields
<1>1. CASE exch = NoExchange
  BY <1>1, OpenKeeps DEF WaitsInv, ensure_exchange_and_send_headers
<1>2. CASE exch # NoExchange
  <2>1. UNCHANGED <<exch, inbox, streamed>>
    BY <1>2 DEF ensure_exchange_and_send_headers, wire
  <2>2. DOMAIN exch = ExchangeFields
    BY <1>2 DEF WaitsInv, TimersKept
  <2> QED BY <2>1, <2>2 DEF WaitsInv, InboxKnown
<1> QED BY <1>1, <1>2

-----------------------------------------------------------------------------
(* ExtProc: the steps                                                      *)

\* The hooks begin.
LEMMA HooksBegin ==
  ASSUME WaitsInv, OnRequestFullDuplex \/ OnRequestBody \/ OnRequestHeaders \/ OnResponse
  PROVE  WaitsInv'
<1>1. CASE OnRequestFullDuplex
  <2>1. InboxKnown' /\ DOMAIN exch' = ExchangeFields
    BY <1>1, EnsureKeeps DEF OnRequestFullDuplex
  <2>2. phase' = "begin" /\ waited' = 0
    BY <1>1 DEF OnRequestFullDuplex, WaitsInv, TimersKept
  <2> QED BY <2>1, <2>2 DEF WaitsInv, TimersKept
<1>2. CASE OnRequestBody
  <2>1. InboxKnown' /\ DOMAIN exch' = ExchangeFields
    BY <1>2, EnsureKeeps DEF OnRequestBody
  <2>2. phase' = "send" /\ waited' = 0 /\ Hook' \in {"chunk", "eos"}
    BY <1>2 DEF OnRequestBody, WaitsInv, TimersKept, Hook
  <2> QED BY <2>1, <2>2 DEF WaitsInv, TimersKept
<1>3. CASE OnRequestHeaders
  <2>1. InboxKnown' /\ DOMAIN exch' = ExchangeFields
    BY <1>3, OpenKeeps DEF OnRequestHeaders, WaitsInv
  <2>2. phase' = "recv" /\ waited' = waited /\ waited = 0 /\ Hook' = "request" /\ ~cfg.fullDuplex
    BY <1>3 DEF OnRequestHeaders, WaitsInv, TimersKept, Hook
  <2>3. exch'.active = [expected |-> Header("req"), deadline |-> waited + MessageTimeout,
                        overridden |-> FALSE]
    <3>1. ~FullDuplex(Header("req").dir)
      BY <2>2 DEF FullDuplex
    <3> QED BY <1>3, <3>1, NewFields, SentMessage DEF OnRequestHeaders, OpenWithHeaders
  <2>4. Awaits(exch.active, MessageTimeout)'
    <3>1. PICK a : a = [expected |-> Header("req"), deadline |-> waited + MessageTimeout,
                        overridden |-> FALSE]
      OBVIOUS
    <3>2. waited \in Nat /\ waited + MessageTimeout <= MessageTimeout /\ MessageTimeout \in Nat
      BY <2>2, Durations
    <3>3. Awaits(a, MessageTimeout)'
      BY <2>2, <3>1, <3>2, JustSent
    <3> QED BY <2>3, <3>1, <3>3
  <2> QED BY <2>1, <2>2, <2>4 DEF WaitsInv, TimersKept
<1>4. CASE OnResponse
  <2>1. InboxKnown'
    BY <1>4 DEF OnResponse, WaitsInv, InboxKnown, wire
  <2>2. exch = NoExchange \/ DOMAIN exch = ExchangeFields
    BY DEF WaitsInv, TimersKept
  <2>3. CASE Continue(exch) \/ Reject
    BY <2>1, <2>2, <2>3, ContinueKeeps, RejectKeeps DEF WaitsInv
  <2>4. CASE exch # NoExchange /\ phase' = "send" /\ UNCHANGED <<todo, outcome, waited, exch>>
    <3>1. waited' = 0 /\ Hook' = "response" /\ DOMAIN exch' = ExchangeFields
      BY <1>4, <2>2, <2>4 DEF OnResponse, WaitsInv, TimersKept, Hook
    <3> QED BY <2>1, <2>4, <3>1, Durations DEF WaitsInv, TimersKept
  <2> QED BY <1>4, <2>3, <2>4 DEF OnResponse
<1> QED BY <1>1, <1>2, <1>3, <1>4

\* A message is sent, or cannot be.
LEMMA SendingKeeps ==
  ASSUME WaitsInv, Send \/ SendFails
  PROVE  WaitsInv'
<1>1. phase = "send" /\ DOMAIN exch = ExchangeFields /\ Hook \in {"chunk", "eos", "response"}
      /\ waited \in Nat /\ (Hook = "response" => waited <= MessageTimeout)
  BY DEF Send, SendFails, WaitsInv, TimersKept
<1>2. InboxKnown'
  BY DEF Send, SendFails, WaitsInv, InboxKnown, wire
<1>3. CASE Send
  <2>1. PICK e : e = apply_send_transition(exch, Outgoing)
    OBVIOUS
  <2>2. DOMAIN e = ExchangeFields
    BY <1>1, <2>1, SentMessage
  <2>3. CASE Hook = "chunk"
    <3>1. Continue(e)
      BY <1>3, <2>1, <2>3 DEF Send
    <3> QED BY <1>2, <2>2, <3>1, ContinueKeeps DEF WaitsInv
  <2>4. CASE Hook # "chunk"
    <3>1. /\ phase' = "recv" /\ exch' = e /\ todo' = todo
          /\ waited' = IF Hook = "eos" THEN 0 ELSE waited
      BY <1>3, <2>1, <2>4 DEF Send
    <3>2. Hook' = Hook
      BY <3>1 DEF Hook
    <3>3. CASE Hook = "eos"
      BY <1>2, <2>2, <3>1, <3>2, <3>3, Durations DEF WaitsInv, TimersKept
    <3>4. CASE Hook = "response"
      <4>1. Outgoing = Header("resp")
        BY <3>4 DEF Outgoing
      <4>2. ~FullDuplex(Header("resp").dir)
        BY DEF FullDuplex, Header
      <4>3. PICK a : a = [expected |-> Header("resp"), deadline |-> waited + MessageTimeout,
                          overridden |-> FALSE]
        OBVIOUS
      <4>4. exch'.active = a
        BY <1>1, <2>1, <3>1, <4>1, <4>2, <4>3, SentMessage
      <4>5. waited' = waited
        BY <3>1, <3>4
      <4>6. waited + MessageTimeout <= 2 * MessageTimeout /\ 2 * MessageTimeout \in Nat
        BY <1>1, <3>4, Durations
      <4>7. Awaits(a, 2 * MessageTimeout)'
        BY <1>1, <4>3, <4>5, <4>6, JustSent
      <4> QED BY <1>1, <1>2, <2>2, <3>1, <3>2, <3>4, <4>4, <4>5, <4>7 DEF WaitsInv, TimersKept
    <3> QED BY <1>1, <2>4, <3>3, <3>4
  <2> QED BY <2>3, <2>4
<1>4. CASE SendFails
  <2>1. CASE Reject
    BY <1>2, <2>1, RejectKeeps DEF WaitsInv
  <2>2. CASE Hook = "eos" /\ phase' = "recv" /\ exch' = finish_sending(exch) /\ waited' = 0
             /\ UNCHANGED <<todo, outcome>>
    <3>1. DOMAIN exch' = ExchangeFields /\ Hook' = "eos"
      BY <1>1, <2>2 DEF finish_sending, Hook
    <3> QED BY <1>2, <2>2, <3>1, Durations DEF WaitsInv, TimersKept
  <2> QED BY <1>4, <2>1, <2>2 DEF SendFails
<1> QED BY <1>3, <1>4

\* The call is driven; the exchange and its timers stay.
LEMMA ProcessKeeps ==
  ASSUME WaitsInv, Poll \/ ProcessReady \/ ProcessFails
  PROVE  WaitsInv'
<1>1. InboxKnown'
  BY DEF Poll, ProcessReady, ProcessFails, WaitsInv, InboxKnown, wire
<1>2. CASE ProcessFails
  BY <1>1, <1>2, RejectKeeps DEF ProcessFails, WaitsInv
<1>3. CASE Poll \/ ProcessReady
  <2>1. phase \in {"send", "recv"} /\ UNCHANGED <<phase, todo, waited>>
    BY <1>3 DEF Poll, ProcessReady, Waiting, SendBlocked
  <2>2. DOMAIN exch = ExchangeFields
    BY <2>1 DEF WaitsInv, TimersKept
  <2>3. PICK b : exch' = [exch EXCEPT !.boot = b]
    BY <1>3 DEF Poll, ProcessReady
  <2>4. DOMAIN exch' = ExchangeFields /\ exch'.active = exch.active
    BY <2>2, <2>3 DEF ExchangeFields
  <2>5. Hook' = Hook
    BY <2>1 DEF Hook
  <2> QED BY <1>1, <2>1, <2>4, <2>5 DEF WaitsInv, TimersKept, Awaits
<1> QED BY <1>2, <1>3

\* An override extends the deadline of a message once.
LEMMA OverrideKeeps ==
  ASSUME WaitsInv, ReceiveOverride
  PROVE  WaitsInv'
<1>1. inbox \in Seq(Replies) /\ inbox # <<>> /\ inbox' = Tail(inbox) /\ streamed' = streamed
      /\ streamed \in Nat
  BY DEF ReceiveOverride, WaitsInv, InboxKnown, wire
<1>2. InboxKnown'
  BY <1>1 DEF InboxKnown
<1>3. PICK t : t = Head(inbox).time
  OBVIOUS
<1>4. t \in Nat
  <2>1. Head(inbox) \in Replies /\ Head(inbox).kind = "override"
    BY <1>1 DEF ReceiveOverride
  <2>2. t \in Overrides
    BY <1>3, <2>1 DEF Replies, Header, Immediate
  <2> QED BY <2>2, Durations
<1>5. phase = "recv" /\ UNCHANGED <<phase, todo, waited>> /\ exch' = try_accept_override(exch, t)
  BY <1>3 DEF ReceiveOverride
<1>6. DOMAIN exch = ExchangeFields /\ Hook' = Hook /\ waited \in Nat
  BY <1>5 DEF WaitsInv, TimersKept, Hook
<1>7. CASE exch' = exch
  BY <1>2, <1>5, <1>6, <1>7 DEF WaitsInv, TimersKept, Awaits
<1>8. CASE exch' # exch
  <2>1. PICK d : d = waited + (IF t < MaxMessageTimeout THEN t ELSE MaxMessageTimeout)
    OBVIOUS
  <2>2. exch' = [exch EXCEPT !.active.deadline = d, !.active.overridden = TRUE]
        /\ ~exch.active.overridden
    BY <1>5, <1>8, <2>1 DEF try_accept_override
  <2>3. DOMAIN exch' = ExchangeFields
    BY <1>6, <2>2 DEF ExchangeFields
  <2>4. ASSUME NEW limit \in Nat, Awaits(exch.active, limit)
        PROVE  Awaits(exch.active, limit)'
    <3>1. PICK a : a = exch.active
      OBVIOUS
    <3>2. PICK b : b = exch'.active
      OBVIOUS
    <3>3. a \in Attempts /\ waited <= a.deadline /\ a.deadline <= limit
      BY <2>2, <2>4, <3>1, Durations DEF Awaits, Attempts
    <3>4. d \in Nat /\ waited <= d /\ d <= waited + MaxMessageTimeout
      BY <1>4, <1>6, <2>1, Durations
    <3>5. b = [a EXCEPT !.deadline = d, !.overridden = TRUE]
      BY <1>6, <2>2, <3>1, <3>2 DEF ExchangeFields
    <3>6. b \in Attempts /\ b.deadline = d /\ b.overridden = TRUE
      BY <3>3, <3>4, <3>5 DEF Attempts
    <3>7. a.deadline \in Nat
      BY <3>3 DEF Attempts
    <3>8. d <= limit + MaxMessageTimeout
      BY <1>6, <3>3, <3>4, <3>7, Durations
    <3> QED BY <1>5, <3>2, <3>4, <3>6, <3>8 DEF Awaits
  <2>5. MessageTimeout \in Nat /\ 2 * MessageTimeout \in Nat
    BY Durations
  <2> QED BY <1>2, <1>5, <1>6, <2>3, <2>4, <2>5 DEF WaitsInv, TimersKept
<1> QED BY <1>7, <1>8

\* An answer, or the stream's end, moves the hook on or leaves the body hook where
\* it was.
LEMMA ReceivingKeeps ==
  ASSUME WaitsInv, ReceiveAnswer \/ ReceiveEnd
  PROVE  WaitsInv'
<1>1. phase = "recv" /\ TimersKept /\ DOMAIN exch = ExchangeFields
  BY DEF ReceiveAnswer, ReceiveEnd, WaitsInv, TimersKept
<1>2. InboxKnown'
  BY DEF ReceiveAnswer, ReceiveEnd, WaitsInv, InboxKnown, wire
<1>3. CASE ReceiveEnd
  BY <1>1, <1>2, <1>3, FailureKeeps DEF ReceiveEnd, WaitsInv
<1>4. CASE ReceiveAnswer
  <2>1. PICK m : m = Head(inbox)
    OBVIOUS
  <2>2. PICK e : e = Received(exch, m)
    OBVIOUS
  <2>3. DOMAIN e = ExchangeFields
    BY <1>1, <2>2 DEF Received, ExchangeFields
  <2>4. CASE Fail(exch)
    BY <1>1, <1>2, <2>4, FailureKeeps DEF WaitsInv
  <2>5. CASE OnAnswer(e, m)
    <3>1. \/ Hook = "eos" /\ exch' = e /\ UNCHANGED <<todo, phase, outcome, waited>>
          \/ Trail(e, "reject") \/ Trail(e, "continue")
          \/ Continue([e EXCEPT !.complete = TRUE]) \/ Fail(e)
      <4>1. CASE m.kind = "body" /\ Hook = "eos"
        BY <2>5, <4>1 DEF OnAnswer, OnBodyAnswer
      <4>2. CASE ~(m.kind = "body" /\ Hook = "eos")
        BY <2>5, <4>2 DEF OnAnswer
      <4> QED BY <4>1, <4>2
    <3>2. CASE Hook = "eos" /\ exch' = e /\ UNCHANGED <<todo, phase, outcome, waited>>
      <4>1. Hook' = Hook
        BY <3>2 DEF Hook
      <4> QED BY <1>1, <1>2, <2>3, <3>2, <4>1 DEF WaitsInv, TimersKept
    <3>3. CASE Trail(e, "reject") \/ Trail(e, "continue")
      BY <1>1, <1>2, <2>3, <3>3, TrailKeeps DEF WaitsInv
    <3>4. CASE Continue([e EXCEPT !.complete = TRUE])
      <4>1. PICK f : f = [e EXCEPT !.complete = TRUE]
        OBVIOUS
      <4>2. DOMAIN f = ExchangeFields /\ Continue(f)
        BY <2>3, <3>4, <4>1
      <4> QED BY <1>2, <4>2, ContinueKeeps DEF WaitsInv
    <3>5. CASE Fail(e)
      BY <1>1, <1>2, <2>3, <3>5, FailureKeeps DEF WaitsInv
    <3> QED BY <3>1, <3>2, <3>3, <3>4, <3>5
  <2> QED BY <1>4, <2>1, <2>2, <2>4, <2>5 DEF ReceiveAnswer
<1> QED BY <1>3, <1>4

\* The drain reads on, or ends.
LEMMA DrainingKeeps ==
  ASSUME WaitsInv, DrainTrailing \/ TrailEnds
  PROVE  WaitsInv'
<1>1. InboxKnown'
  <2>1. (inbox' = inbox \/ inbox' = <<>>) /\ streamed' = streamed
    BY DEF DrainTrailing, TrailEnds, wire
  <2>2. <<>> \in Seq(Replies)
    OBVIOUS
  <2> QED BY <2>1, <2>2 DEF WaitsInv, InboxKnown
<1>2. CASE DrainTrailing
  <2>1. UNCHANGED <<phase, todo, waited, exch>>
    BY <1>2 DEF DrainTrailing
  <2> QED BY <1>1, <2>1 DEF WaitsInv, TimersKept, Awaits, Hook
<1>3. CASE TrailEnds
  <2>1. Continue(NoExchange) \/ Reject
    BY <1>3 DEF TrailEnds
  <2> QED BY <1>1, <2>1, ContinueKeeps, RejectKeeps DEF WaitsInv
<1> QED BY <1>2, <1>3

\* A timer that is due ends the wait.
LEMMA TimeoutsKeep ==
  ASSUME WaitsInv, MessageTimesOut \/ LifecycleTimesOut \/ CleanupTimesOut
  PROVE  WaitsInv'
<1>1. InboxKnown'
  BY DEF MessageTimesOut, LifecycleTimesOut, CleanupTimesOut, WaitsInv, InboxKnown, wire
<1>2. Continue(NoExchange) \/ Reject
  BY DEF MessageTimesOut, LifecycleTimesOut, CleanupTimesOut
<1> QED BY <1>1, <1>2, ContinueKeeps, RejectKeeps DEF WaitsInv

\* Time passes only before the timers are due.
LEMMA ExtTickKeeps ==
  ASSUME WaitsInv, ExtTick
  PROVE  WaitsInv'
<1>1. InboxKnown'
  BY DEF ExtTick, WaitsInv, InboxKnown, wire
<1>2. /\ UNCHANGED <<phase, todo, exch>> /\ waited' = waited + 1 /\ Hook' = Hook
      /\ waited \in Nat /\ waited' \in Nat
  BY DEF ExtTick, Hook, WaitsInv, TimersKept
<1>3. phase \in {"send", "recv", "trail"}
  BY DEF ExtTick, Blocked, SendBlocked
<1>4. phase = "send" /\ Hook = "response" => waited' <= MessageTimeout
  BY <1>2, Durations DEF ExtTick, MessageDue
<1>5. phase \in {"recv", "trail"} /\ Hook = "eos" => waited' <= LifecycleTimeout
  BY <1>2, Durations DEF ExtTick, LifecycleDue
<1>6. phase = "trail" /\ Hook # "eos" => waited' <= DeferredClose
  BY <1>2, Durations DEF ExtTick, CleanupDue
<1>7. ASSUME NEW limit \in Nat, phase = "recv", Awaits(exch.active, limit)
      PROVE  Awaits(exch.active, limit)'
  <2>1. PICK a : a = exch.active
    OBVIOUS
  <2>2. a \in Attempts /\ waited <= a.deadline
        /\ a.deadline <= limit + (IF a.overridden THEN MaxMessageTimeout ELSE 0)
    BY <1>7, <2>1 DEF Awaits
  <2>3. a # NoActive
    BY <2>2 DEF Attempts, NoActive, Header
  <2>4. ~(waited >= a.deadline) /\ a.deadline \in Nat
    BY <1>7, <2>1, <2>2, <2>3 DEF ExtTick, MessageDue, Attempts
  <2>5. waited' <= a.deadline
    BY <1>2, <2>4
  <2> QED BY <1>2, <2>1, <2>2, <2>5 DEF Awaits
<1>8. MessageTimeout \in Nat /\ 2 * MessageTimeout \in Nat
  BY Durations
<1> QED BY <1>1, <1>2, <1>3, <1>4, <1>5, <1>6, <1>7, <1>8 DEF WaitsInv, TimersKept

\* The connection and the processor: only the inbox changes.
LEMMA ProcessorKeeps ==
  ASSUME WaitsInv, Transmit \/ StreamEnds \/ ReceiverDropped \/ \E m \in Answers : Answer(m)
  PROVE  WaitsInv'
<1>1. UNCHANGED <<phase, todo, waited, exch>>
  BY DEF Transmit, StreamEnds, ReceiverDropped, Answer
<1>2. TimersKept'
  BY <1>1 DEF WaitsInv, TimersKept, Awaits, Hook
<1>3. CASE Transmit \/ StreamEnds \/ ReceiverDropped
  BY <1>2, <1>3 DEF Transmit, StreamEnds, ReceiverDropped, WaitsInv, InboxKnown
<1>4. ASSUME NEW m \in Answers, Answer(m) PROVE InboxKnown'
  <2>1. m \in Replies
    BY DEF Answers, Replies, BodyAnswer, WaitsInv, InboxKnown
  <2>2. inbox' = Append(inbox, m)
        /\ streamed' = streamed + (IF m.kind = "body" /\ m.chunk # 0 THEN 1 ELSE 0)
    BY <1>4 DEF Answer
  <2> QED BY <2>1, <2>2 DEF WaitsInv, InboxKnown
<1> QED BY <1>2, <1>3, <1>4 DEF WaitsInv

\* The first hook has waited for nothing.
LEMMA ExtStarts ==
  ASSUME ExtInit
  PROVE  WaitsInv
BY DEF ExtInit, WaitsInv, InboxKnown, TimersKept

\* Every step keeps the invariant.
LEMMA ExtKept ==
  ASSUME WaitsInv, [ExtNext]_extVars
  PROVE  WaitsInv'
<1>1. CASE UNCHANGED extVars
  BY <1>1 DEF extVars, WaitsInv, InboxKnown, TimersKept, Awaits, Hook
<1>2. CASE ExtNext
  BY <1>2, HooksBegin, SendingKeeps, ProcessKeeps, OverrideKeeps, ReceivingKeeps, DrainingKeeps,
     TimeoutsKeep, ExtTickKeeps, ProcessorKeeps DEF ExtNext, GatewayStep
<1> QED BY <1>1, <1>2

\* It bounds the waits.
LEMMA WaitsInvMeans ==
  ASSUME WaitsInv
  PROVE  WaitsBounded
<1>2. waited \in Nat
  BY DEF WaitsInv, TimersKept
<1>3. ASSUME NEW limit \in Nat, Awaits(exch.active, limit)
      PROVE  waited <= limit + MaxMessageTimeout
  <2>1. PICK a : a = exch.active
    OBVIOUS
  <2>2. /\ a.deadline \in Nat /\ waited <= a.deadline
        /\ a.deadline <= limit + (IF a.overridden THEN MaxMessageTimeout ELSE 0)
    BY <1>3, <2>1 DEF Awaits, Attempts
  <2>3. a.deadline <= limit + MaxMessageTimeout
    BY <2>2, Durations
  <2> QED BY <1>2, <2>2, <2>3, Durations
<1>4. MessageTimeout \in Nat /\ 2 * MessageTimeout \in Nat
  BY Durations
<1>5. phase = "recv" /\ Hook = "request" => waited <= MessageTimeout + MaxMessageTimeout
  BY <1>3, <1>4 DEF WaitsInv, TimersKept
<1>6. phase = "recv" /\ Hook = "response" => waited <= 2 * MessageTimeout + MaxMessageTimeout
  BY <1>3, <1>4 DEF WaitsInv, TimersKept
<1>7. phase = "send" /\ Hook = "response" => waited <= 2 * MessageTimeout + MaxMessageTimeout
  BY <1>2, Durations DEF WaitsInv, TimersKept
<1> QED BY <1>5, <1>6, <1>7 DEF WaitsInv, TimersKept, WaitsBounded

\* No wait for the external processor is longer than its timers allow, with one
\* extension of a message's deadline at most (duplex.rs, lib.rs).
THEOREM WaitsStayBounded == ExtSpec => []WaitsBounded
<1>1. ExtInit => WaitsInv
  BY ExtStarts
<1>2. WaitsInv /\ [ExtNext]_extVars => WaitsInv'
  BY ExtKept
<1>3. WaitsInv => WaitsBounded
  BY WaitsInvMeans
<1> QED BY <1>1, <1>2, <1>3, PTL DEF ExtSpec

=============================================================================
