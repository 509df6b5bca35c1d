---------------------------- MODULE BackendCache ----------------------------
(***************************************************************************)
(* The refcounted cache of persisted-state backends                        *)
(* (store-lifecycle/src/lib.rs).                                           *)
(*                                                                         *)
(* A caller provisions the store references of one listener: each is       *)
(* reused from the cache or built, cold builds of one effective key are    *)
(* serialized by an initializer (a wave), and an error rolls back what the *)
(* call holds.  A provisioned caller keeps a lease until it releases it.   *)
(* Callers are futures on a multi-threaded runtime: one action is one      *)
(* access to a DashMap or an atomic, or the code between two awaits under  *)
(* the wave's mutex.  A caller may be cancelled wherever it awaits.        *)
(***************************************************************************)
EXTENDS Integers, Sequences, FiniteSets, Functions

CONSTANTS
  Callers,        \* concurrent provision_into calls and their leases
  Keys,           \* effective backend keys (CacheKey)
  Names,          \* the names stores are registered under
  Invalid,        \* the key of a reference with an unknown backend or a bad config
  None,           \* Option::None
  Plans,          \* the reference lists a caller may provision, <<[name, key], ...>>
  MaxAttempts,    \* RetryPolicy::max_attempts
  MaxBuilds       \* bound: pools built in one behaviour

ASSUME CacheAssumption ==
  /\ MaxAttempts \in Nat
  /\ MaxBuilds \in Nat
  /\ Invalid \notin Keys
  /\ None \notin Nat
  /\ None \notin Callers
  /\ IsFiniteSet(Callers) /\ IsFiniteSet(Keys)
  /\ Plans \subseteq Seq([name : Names, key : Keys \cup {Invalid}])

VARIABLES
  entries,        \* key -> [backend, refcount]
  initializers,   \* initializers[k]: the wave of k's cold build, or None
  waves,          \* waves[w]: [failed, participants, owner of the mutex]
  call,           \* call[p]: where caller p is, with its locals
  registry,       \* registry[p]: the caller's registry, name -> backend
  backends        \* every pool built, <<[key, open], ...>>; an index is a pool

vars == <<entries, initializers, waves, call, registry, backends>>

NoEntries == [x \in {} |-> None]

\* The map f with v at k.
Put(f, k, v) == [x \in DOMAIN f \cup {k} |-> IF x = k THEN v ELSE f[x]]

\* An Arc<InitializerState> is a number; it is free when nobody refers to it.
WaveIds == 1..(Cardinality(Keys) + Cardinality(Callers))

NoWave == [failed |-> FALSE, participants |-> 0, owner |-> None]

NoCall == [pc |-> "idle", refs |-> <<>>, held |-> {}, wave |-> None,
           attempt |-> 0, backend |-> None, retiring |-> {}]

Init ==
  /\ entries = NoEntries
  /\ initializers = [k \in Keys |-> None]
  /\ waves = [w \in WaveIds |-> NoWave]
  /\ call = [p \in Callers |-> NoCall]
  /\ registry = [p \in Callers |-> NoEntries]
  /\ backends = <<>>

Key(p) == Head(call[p].refs).key
Name(p) == Head(call[p].refs).name

Goto(p, pc) == call' = [call EXCEPT ![p].pc = pc]

-----------------------------------------------------------------------------
(* provision_into                                                          *)

\* An empty list of references is a lease on nothing.
ProvisionBegin(p, refs) ==
  /\ call[p].pc = "idle"
  /\ call' = [call EXCEPT ![p] =
                [NoCall EXCEPT !.pc = IF refs = <<>> THEN "leased" ELSE "resolve",
                               !.refs = refs]]
  /\ UNCHANGED <<entries, initializers, waves, registry, backends>>

\* Defect: every reference counts, also the second to a key of the same call.
TakeTwice(p, k) == [entries EXCEPT ![k].refcount = @ + 1]

\* A call counts once for each key it holds.
Take(p, k) ==
  IF k \in call[p].held THEN entries ELSE [entries EXCEPT ![k].refcount = @ + 1]

\* The caller has k's backend; its next access is at pc.
Obtain(p, k, pc) ==
  /\ entries' = Take(p, k)
  /\ call' = [call EXCEPT ![p].pc = pc, ![p].held = @ \cup {k},
                          ![p].backend = entries[k].backend]

ResolveInvalid(p) ==
  /\ call[p].pc = "resolve"
  /\ Key(p) = Invalid
  /\ Goto(p, "fail")
  /\ UNCHANGED <<entries, initializers, waves, registry, backends>>

\* resolve's first look into the cache.
ResolveReuse(p) ==
  /\ call[p].pc = "resolve"
  /\ Key(p) \in DOMAIN entries
  /\ Obtain(p, Key(p), "register")
  /\ UNCHANGED <<initializers, waves, registry, backends>>

ResolveMiss(p) ==
  /\ call[p].pc = "resolve"
  /\ Key(p) \in Keys \ DOMAIN entries
  /\ Goto(p, "join")
  /\ UNCHANGED <<entries, initializers, waves, registry, backends>>

-----------------------------------------------------------------------------
(* The singleflight of a cold build                                        *)

Referenced(w) == \/ \E k \in Keys : initializers[k] = w
                 \/ \E p \in Callers : call[p].wave = w

\* Join the wave of the key, or start one, under the map's entry guard.
Join(p) ==
  LET k == Key(p)
      w == IF initializers[k] # None THEN initializers[k]
           ELSE CHOOSE x \in WaveIds : ~Referenced(x)
      wave == IF initializers[k] # None THEN waves[w] ELSE NoWave
  IN
  /\ call[p].pc = "join"
  /\ initializers' = [initializers EXCEPT ![k] = w]
  /\ waves' = [waves EXCEPT ![w] = [wave EXCEPT !.participants = @ + 1]]
  /\ call' = [call EXCEPT ![p].pc = "lock", ![p].wave = w]
  /\ UNCHANGED <<entries, registry, backends>>

\* outcome.lock().await
Lock(p) ==
  LET w == call[p].wave IN
  /\ call[p].pc = "lock"
  /\ waves[w].owner = None
  /\ waves' = [waves EXCEPT ![w].owner = p]
  /\ Goto(p, "check")
  /\ UNCHANGED <<entries, initializers, registry, backends>>

\* The second look: the winner's pool is there.
LockedReuse(p) ==
  /\ call[p].pc = "check"
  /\ Key(p) \in DOMAIN entries
  /\ Obtain(p, Key(p), "leave")
  /\ waves' = [waves EXCEPT ![call[p].wave].owner = None]
  /\ UNCHANGED <<initializers, registry, backends>>

\* The winner's error is shared with the waiters of its wave.
LockedError(p) ==
  /\ call[p].pc = "check"
  /\ Key(p) \notin DOMAIN entries
  /\ waves[call[p].wave].failed
  /\ call' = [call EXCEPT ![p].pc = "leave", ![p].backend = None]
  /\ waves' = [waves EXCEPT ![call[p].wave].owner = None]
  /\ UNCHANGED <<entries, initializers, registry, backends>>

LockedMiss(p) ==
  /\ call[p].pc = "check"
  /\ Key(p) \notin DOMAIN entries
  /\ ~waves[call[p].wave].failed
  /\ call' = [call EXCEPT ![p].pc = "build", ![p].attempt = 1]
  /\ UNCHANGED <<entries, initializers, waves, registry, backends>>

BuildOk(p) ==
  /\ call[p].pc = "build"
  /\ Len(backends) < MaxBuilds
  /\ backends' = Append(backends, [key |-> Key(p), open |-> TRUE])
  /\ call' = [call EXCEPT ![p].pc = "insert", ![p].backend = Len(backends) + 1]
  /\ UNCHANGED <<entries, initializers, waves, registry>>

\* A transient failure within the budget is tried again at once.
BuildRetry(p) ==
  /\ call[p].pc = "build"
  /\ call[p].attempt < MaxAttempts
  /\ call' = [call EXCEPT ![p].attempt = @ + 1]
  /\ UNCHANGED <<entries, initializers, waves, registry, backends>>

\* Any other failure, or the last transient one, ends the wave's build.
BuildFail(p) ==
  /\ call[p].pc = "build"
  /\ waves' = [waves EXCEPT ![call[p].wave].failed = TRUE,
                            ![call[p].wave].owner = None]
  /\ call' = [call EXCEPT ![p].pc = "leave", ![p].backend = None]
  /\ UNCHANGED <<entries, initializers, registry, backends>>

\* insert_or_reuse: an entry that appeared meanwhile wins, and the duplicate
\* is retired.
Insert(p) ==
  LET k == Key(p) IN
  /\ call[p].pc = "insert"
  /\ IF k \in DOMAIN entries
     THEN /\ Obtain(p, k, "leave")
          /\ backends' = [backends EXCEPT ![call[p].backend].open = FALSE]
     ELSE /\ entries' = Put(entries, k, [backend |-> call[p].backend, refcount |-> 1])
          /\ call' = [call EXCEPT ![p].pc = "leave", ![p].held = @ \cup {k}]
          /\ UNCHANGED backends
  /\ waves' = [waves EXCEPT ![call[p].wave].owner = None]
  /\ UNCHANGED <<initializers, registry>>

\* Where a caller goes when it has left its wave.
AfterWave(p) ==
  CASE call[p].pc \in {"abandon", "abandonsweep"} -> "cancelled"
    [] call[p].backend = None -> "fail"
    [] OTHER -> "register"

\* Drop for InitializerParticipant: the last one out looks at the map.
Leave(p) ==
  LET w == call[p].wave
      last == waves[w].participants = 1
  IN
  /\ call[p].pc \in {"leave", "abandon"}
  /\ waves' = [waves EXCEPT ![w].participants = @ - 1]
  /\ call' = IF last
             THEN [call EXCEPT ![p].pc =
                     IF @ = "leave" THEN "sweep" ELSE "abandonsweep"]
             ELSE [call EXCEPT ![p].pc = AfterWave(p), ![p].wave = None]
  /\ UNCHANGED <<entries, initializers, registry, backends>>

\* Defect: nobody removes a wave.
AbandonedNever(k, w) == FALSE

\* The map still holds the wave, and nobody has joined it meanwhile.
Abandoned(k, w) == initializers[k] = w /\ waves[w].participants = 0

Sweep(p) ==
  LET k == Key(p)
      w == call[p].wave
  IN
  /\ call[p].pc \in {"sweep", "abandonsweep"}
  /\ initializers' = IF Abandoned(k, w)
                     THEN [initializers EXCEPT ![k] = None] ELSE initializers
  /\ call' = [call EXCEPT ![p].pc = AfterWave(p), ![p].wave = None]
  /\ UNCHANGED <<entries, waves, registry, backends>>

-----------------------------------------------------------------------------
(* Registration, rollback and release                                      *)

\* The name must be new to the registry.
Register(p) ==
  /\ call[p].pc = "register"
  /\ Name(p) \notin DOMAIN registry[p]
  /\ registry' = [registry EXCEPT ![p] = Put(@, Name(p), call[p].backend)]
  /\ call' = [call EXCEPT
       ![p].pc = IF Len(call[p].refs) = 1 THEN "leased" ELSE "resolve",
       ![p].refs = Tail(@), ![p].backend = None, ![p].attempt = 0]
  /\ UNCHANGED <<entries, initializers, waves, backends>>

RegisterDuplicate(p) ==
  /\ call[p].pc = "register"
  /\ Name(p) \in DOMAIN registry[p]
  /\ Goto(p, "fail")
  /\ UNCHANGED <<entries, initializers, waves, registry, backends>>

\* An error deregisters the names of this call, then releases what it holds.
Fail(p) ==
  /\ call[p].pc = "fail"
  /\ registry' = [registry EXCEPT ![p] = NoEntries]
  /\ Goto(p, "release")
  /\ UNCHANGED <<entries, initializers, waves, backends>>

\* BackendLease::release, once the generation's requests are gone.
ReleaseBegin(p) ==
  /\ call[p].pc = "leased"
  /\ registry' = [registry EXCEPT ![p] = NoEntries]
  /\ Goto(p, "release")
  /\ UNCHANGED <<entries, initializers, waves, backends>>

\* Defect: a backend goes while one other generation holds it.
UnheldEarly(k) == entries[k].refcount <= 2

\* The holder of k that lets go is the last one.
Unheld(k) == entries[k].refcount <= 1

\* release_into: decrement and removal are one step under the entry guard.
Release(p, k) ==
  /\ call[p].pc = "release"
  /\ k \in call[p].held
  /\ IF k \in DOMAIN entries
     THEN /\ entries' = IF Unheld(k) THEN Restrict(entries, DOMAIN entries \ {k})
                        ELSE [entries EXCEPT ![k].refcount = @ - 1]
          /\ call' = [call EXCEPT
               ![p].held = @ \ {k},
               ![p].retiring = IF Unheld(k)
                               THEN @ \cup {entries[k].backend} ELSE @]
     ELSE /\ call' = [call EXCEPT ![p].held = @ \ {k}]
          /\ UNCHANGED entries
  /\ UNCHANGED <<initializers, waves, registry, backends>>

\* retire().await, after every entry guard is gone.
Retire(p, b) ==
  /\ call[p].pc = "release"
  /\ call[p].held = {}
  /\ b \in call[p].retiring
  /\ backends' = [backends EXCEPT ![b].open = FALSE]
  /\ call' = [call EXCEPT ![p].retiring = @ \ {b}]
  /\ UNCHANGED <<entries, initializers, waves, registry>>

Released(p) ==
  /\ call[p].pc = "release"
  /\ call[p].held = {} /\ call[p].retiring = {}
  /\ call' = [call EXCEPT ![p] = NoCall]
  /\ UNCHANGED <<entries, initializers, waves, registry, backends>>

\* Defect: a cancelled builder keeps the wave locked.
CancelKeepsLock(p) ==
  /\ call[p].pc \in {"lock", "build"}
  /\ Goto(p, "abandon")
  /\ UNCHANGED <<entries, initializers, waves, registry, backends>>

\* The future is dropped where it awaits: the mutex guard and the participant
\* go, what the call holds stays counted.
Cancel(p) ==
  LET w == call[p].wave IN
  /\ \/ /\ call[p].pc \in {"lock", "build"}
        /\ waves' = IF waves[w].owner = p THEN [waves EXCEPT ![w].owner = None]
                    ELSE waves
        /\ Goto(p, "abandon")
     \/ /\ call[p].pc = "release"
        /\ call[p].held = {} /\ call[p].retiring # {}
        /\ Goto(p, "cancelled")
        /\ UNCHANGED waves
  /\ UNCHANGED <<entries, initializers, registry, backends>>

-----------------------------------------------------------------------------

\* What a caller does inside a call by itself.
Step(p) ==
  \/ ResolveInvalid(p) \/ ResolveReuse(p) \/ ResolveMiss(p)
  \/ Join(p) \/ LockedReuse(p) \/ LockedError(p) \/ LockedMiss(p)
  \/ BuildOk(p) \/ BuildRetry(p) \/ BuildFail(p) \/ Insert(p)
  \/ Leave(p) \/ Sweep(p)
  \/ Register(p) \/ RegisterDuplicate(p) \/ Fail(p)
  \/ (\E k \in Keys : Release(p, k))
  \/ (\E b \in 1..MaxBuilds : Retire(p, b))
  \/ Released(p)

Next ==
  \E p \in Callers :
    \/ Step(p)
    \/ Lock(p)
    \/ Cancel(p)
    \/ ReleaseBegin(p)
    \/ \E refs \in Plans : ProvisionBegin(p, refs)

Spec == Init /\ [][Next]_vars

\* The runtime polls every future that can go on, factories answer, and
\* tokio's mutex queues its waiters in order.  MCBackground states it for its part.
Fairness == \A p \in Callers : WF_vars(Step(p)) /\ SF_vars(Lock(p))

FairSpec == Spec /\ Fairness

-----------------------------------------------------------------------------
(* Properties                                                              *)

Pcs == {"idle", "resolve", "join", "lock", "check", "build", "insert", "leave",
        "sweep", "abandon", "abandonsweep", "cancelled", "register", "fail",
        "release", "leased"}

Pools == 1..MaxBuilds

\* The maps, the wave counters and the callers' locals have their types; no
\* refcount in the cache is zero and no participant count goes below zero.
TypeOK ==
  /\ DOMAIN entries \subseteq Keys
  /\ \A k \in DOMAIN entries :
       entries[k] \in [backend : Pools, refcount : Nat \ {0}]
  /\ initializers \in [Keys -> WaveIds \cup {None}]
  /\ waves \in [WaveIds -> [failed : BOOLEAN, participants : Nat,
                            owner : Callers \cup {None}]]
  /\ \A p \in Callers :
       /\ call[p].pc \in Pcs
       /\ call[p].held \subseteq Keys
       /\ call[p].wave \in WaveIds \cup {None}
       /\ call[p].attempt \in Nat
       /\ call[p].backend \in Pools \cup {None}
       /\ call[p].retiring \subseteq Pools
  /\ \A p \in Callers : \A n \in DOMAIN registry[p] : registry[p][n] \in Pools
  /\ Len(backends) <= MaxBuilds

\* A refcount is the number of calls and leases that hold the key, through
\* reuse, failed provisioning, rollback and release: no pool is closed under a
\* holder and none stays open without one.
RefcountsExact ==
  \A k \in Keys :
    LET held == Cardinality({p \in Callers : k \in call[p].held})
    IN  IF k \in DOMAIN entries THEN entries[k].refcount = held ELSE held = 0

\* A backend that a registry hands out, or that resolve is about to register,
\* is open: retirement never overtakes a generation that uses it.
NoUseAfterRetire ==
  \A p \in Callers :
    /\ \A n \in DOMAIN registry[p] : backends[registry[p][n]].open
    /\ call[p].pc \in {"leave", "sweep", "register"} /\ call[p].backend # None =>
         backends[call[p].backend].open

\* Cold builds of one key are serialized: two callers never build it at once,
\* and the pool that was built finds its place in the cache free.
SingleFlight ==
  /\ \A p, q \in Callers :
       /\ p # q
       /\ call[p].pc \in {"build", "insert"} /\ call[q].pc \in {"build", "insert"}
       => Key(p) # Key(q)
  /\ \A p \in Callers : call[p].pc = "insert" => Key(p) \notin DOMAIN entries

\* Every open pool is in the cache, on its way into it or in the hands of the
\* call that retires it (a call cancelled there drops it): none is forgotten open.
NoPoolLost ==
  \A b \in DOMAIN backends :
    backends[b].open =>
      \/ \E k \in DOMAIN entries : entries[k].backend = b
      \/ \E p \in Callers : \/ call[p].pc = "insert" /\ call[p].backend = b
                            \/ b \in call[p].retiring

\* A wave, and with it the error of its winner, lives only as long as somebody
\* takes part in it or is sweeping it: a later generation tries the backend
\* itself.
ErrorsNotSticky ==
  \A k \in Keys :
    initializers[k] # None => \E p \in Callers : call[p].wave = initializers[k]

\* Whoever builds, fails, cancels or retires, one pool per key is under way or in
\* use, none is forgotten open and no failure outlives its wave.
PoolsAccounted == TypeOK /\ SingleFlight /\ NoPoolLost /\ ErrorsNotSticky

\* No pool is retired in use, and each that was built is accounted for.
PoolsSound == NoUseAfterRetire /\ PoolsAccounted

\* The abstract pool: a caller holds what it has counted and not yet released.
Pool == INSTANCE BackendPool WITH
  Holders <- Callers,
  current <- [k \in Keys |-> IF k \in DOMAIN entries THEN entries[k].backend ELSE None],
  holders <- [k \in Keys |-> {p \in Callers : k \in call[p].held}]

\* The cache implements the pool: sharing, last release and retirement happen
\* atomically whatever calls race.
ImplementsPool == Pool!Spec

\* Every call ends: a provisioning with a lease or an error, and a release, unless
\* it is cancelled.
ProvisionEnds ==
  \A p \in Callers : []<>(call[p].pc \in {"leased", "idle", "cancelled"})

=============================================================================
