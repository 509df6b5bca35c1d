------------------------ MODULE BackendCache_proofs ------------------------
(***************************************************************************)
(* Proofs about BackendCache, for every finite set of callers and keys,    *)
(* every set of plans, retry budget and number of builds: refcounts are    *)
(* exact, no pool is retired in use or forgotten open, cold builds are     *)
(* serialized, failures do not outlive their wave, and the cache           *)
(* implements BackendPool.                                                 *)
(***************************************************************************)
EXTENDS BackendCache, FiniteSetTheorems, FunctionTheorems, SequenceTheorems, TLAPS

-----------------------------------------------------------------------------
(* The inductive invariant                                                 *)

Refs == [name : Names, key : Keys \cup {Invalid}]

\* A call's locals.
Calls == [pc : Pcs, refs : Seq(Refs), held : SUBSET Keys,
          wave : WaveIds \cup {None}, attempt : Nat,
          backend : Pools \cup {None}, retiring : SUBSET Pools]

\* The types of the maps; TypeOK follows.
EntriesType ==
  /\ DOMAIN entries \subseteq Keys
  /\ entries \in [DOMAIN entries -> [backend : Pools, refcount : Nat \ {0}]]

InitializersType == initializers \in [Keys -> WaveIds \cup {None}]

WavesType ==
  waves \in [WaveIds -> [failed : BOOLEAN, participants : Nat,
                         owner : Callers \cup {None}]]

CallsType == call \in [Callers -> Calls]

RegistryType ==
  /\ registry = [p \in Callers |-> registry[p]]
  /\ \A p \in Callers : registry[p] \in [DOMAIN registry[p] -> Pools]

BackendsType ==
  /\ backends \in Seq([key : Keys, open : BOOLEAN])
  /\ Len(backends) <= MaxBuilds

Types ==
  /\ EntriesType
  /\ InitializersType
  /\ WavesType
  /\ CallsType
  /\ RegistryType
  /\ BackendsType

\* A call that takes part in a wave, holds its mutex, or still refers to it.
Locking == {"check", "build", "insert"}
Joined  == Locking \cup {"lock", "leave", "abandon"}
InWave  == Joined \cup {"sweep", "abandonsweep"}

\* What a call knows at each of its steps.
Control ==
  \A p \in Callers :
    /\ call[p].pc \in InWave \cup {"resolve", "join", "register"} => call[p].refs # <<>>
    /\ call[p].pc \in InWave \cup {"join", "register"} => Key(p) \in Keys
    /\ call[p].wave # None <=> call[p].pc \in InWave
    /\ call[p].pc = "idle" => call[p].held = {} /\ call[p].retiring = {}
    /\ call[p].pc = "register" => call[p].backend # None
    /\ call[p].pc \in {"idle", "release"} => registry[p] = NoEntries

Participants(w) == {p \in Callers : call[p].wave = w /\ call[p].pc \in Joined}

\* A wave counts its participants and knows who holds its mutex.
WavesCounted ==
  \A w \in WaveIds :
    /\ waves[w].participants = Cardinality(Participants(w))
    /\ \A p \in Callers :
         waves[w].owner = p <=> call[p].wave = w /\ call[p].pc \in Locking

\* The map holds the wave of every participant, a wave serves one key, and
\* somebody refers to every wave in the map.
WavesMapped ==
  /\ \A p \in Callers :
       call[p].pc \in Joined => initializers[Key(p)] = call[p].wave
  /\ \A p \in Callers, k \in Keys :
       initializers[k] # None /\ call[p].wave = initializers[k] => Key(p) = k
  /\ ErrorsNotSticky

\* A builder's key is not in the cache.
ColdBuilds ==
  \A p \in Callers :
    call[p].pc \in {"build", "insert"} => Key(p) \notin DOMAIN entries

\* Pools in the cache, or on their way into it, are open and of their key.
PoolsOpen ==
  /\ \A k \in DOMAIN entries :
       /\ entries[k].backend \in DOMAIN backends
       /\ backends[entries[k].backend] = [key |-> k, open |-> TRUE]
  /\ \A p \in Callers :
       call[p].pc = "insert" =>
         /\ call[p].backend \in DOMAIN backends
         /\ backends[call[p].backend] = [key |-> Key(p), open |-> TRUE]

\* A pool that is being retired has left the cache for good.
RetiringGone ==
  \A p \in Callers :
    /\ call[p].retiring \subseteq DOMAIN backends
    /\ \A b \in call[p].retiring :
         /\ \A k \in DOMAIN entries : entries[k].backend # b
         /\ \A q \in Callers : call[q].pc = "insert" => call[q].backend # b

\* What a call hands out, or is about to, is the cache's pool of a key it holds.
InUse ==
  \A p \in Callers :
    /\ \A n \in DOMAIN registry[p] :
         \E k \in call[p].held \cap DOMAIN entries : registry[p][n] = entries[k].backend
    /\ call[p].pc \in {"leave", "sweep", "register"} /\ call[p].backend # None =>
         /\ Key(p) \in call[p].held
         /\ Key(p) \in DOMAIN entries
         /\ call[p].backend = entries[Key(p)].backend

CacheInv ==
  /\ Types /\ Control /\ WavesCounted /\ WavesMapped /\ ColdBuilds
  /\ RefcountsExact /\ PoolsOpen /\ RetiringGone /\ NoPoolLost /\ InUse

-----------------------------------------------------------------------------
(* Constants                                                               *)

\* Wave numbers and pools are positive numbers, and None is neither.
LEMMA Constants ==
  /\ IsFiniteSet(WaveIds)
  /\ Cardinality(WaveIds) = Cardinality(Keys) + Cardinality(Callers)
  /\ Cardinality(Keys) \in Nat /\ Cardinality(Callers) \in Nat
  /\ WaveIds \subseteq Nat /\ Pools \subseteq Nat
  /\ None \notin WaveIds /\ None \notin Pools /\ None \notin Callers
<1>1. Cardinality(Keys) \in Nat
  BY CacheAssumption, FS_CardinalityType
<1>2. Cardinality(Callers) \in Nat
  BY CacheAssumption, FS_CardinalityType
<1>3. /\ IsFiniteSet(WaveIds)
      /\ Cardinality(WaveIds) = Cardinality(Keys) + Cardinality(Callers)
  <2> DEFINE n == Cardinality(Keys) + Cardinality(Callers)
  <2>1. n \in Nat
    BY <1>1, <1>2
  <2>2. IsFiniteSet(1..n) /\ Cardinality(1..n) = IF 1 > n THEN 0 ELSE n - 1 + 1
    BY <2>1, FS_Interval
  <2> QED BY <2>1, <2>2 DEF WaveIds
<1>4. /\ WaveIds \subseteq Nat /\ Pools \subseteq Nat
      /\ None \notin WaveIds /\ None \notin Pools /\ None \notin Callers
  BY <1>1, <1>2, CacheAssumption DEF WaveIds, Pools
<1> QED BY <1>1, <1>2, <1>3, <1>4

-----------------------------------------------------------------------------
(* Types                                                                   *)

\* The references that are left are references.
LEMMA RefsType ==
  ASSUME CallsType, NEW p \in Callers, call[p].refs # <<>>
  PROVE  /\ Key(p) \in Keys \cup {Invalid}
         /\ Name(p) \in Names
         /\ Tail(call[p].refs) \in Seq(Refs)
<1>1. call[p].refs \in Seq(Refs) /\ call[p].refs # <<>>
  BY DEF CallsType, Calls
<1>2. Head(call[p].refs) \in Refs /\ Tail(call[p].refs) \in Seq(Refs)
  BY <1>1, HeadTailProperties
<1> QED BY <1>2 DEF Refs, Key, Name

\* The fields of a call.
LEMMA CallFields ==
  ASSUME CallsType, NEW p \in Callers
  PROVE  /\ call[p].pc \in Pcs /\ call[p].refs \in Seq(Refs)
         /\ call[p].held \subseteq Keys /\ call[p].wave \in WaveIds \cup {None}
         /\ call[p].attempt \in Nat /\ call[p].backend \in Pools \cup {None}
         /\ call[p].retiring \subseteq Pools
  BY DEF CallsType, Calls

\* A call that refers to a wave has one.
LEMMA InWaveHasWave ==
  ASSUME CallsType, Control, NEW p \in Callers, call[p].pc \in InWave
  PROVE  call[p].wave \in WaveIds
  BY CallFields DEF Control

\* There is a free wave number: a caller that is about to join a wave refers to
\* none, and neither does the map for its key.
LEMMA FreeWave ==
  ASSUME InitializersType, CallsType, Control, NEW p \in Callers,
         call[p].pc = "join", initializers[Key(p)] = None
  PROVE  /\ (CHOOSE x \in WaveIds : ~Referenced(x)) \in WaveIds
         /\ ~Referenced(CHOOSE x \in WaveIds : ~Referenced(x))
<1> DEFINE A == {x \in WaveIds : \E k \in Keys : initializers[k] = x}
           B == {x \in WaveIds : \E q \in Callers : call[q].wave = x}
           K == Keys \ {Key(p)}
           C == Callers \ {p}
           f == [x \in A |-> CHOOSE k \in Keys : initializers[k] = x]
           g == [x \in B |-> CHOOSE q \in Callers : call[q].wave = x]
<1>1. Key(p) \in Keys /\ call[p].wave = None
  BY DEF Control, InWave, Joined, Locking
<1>2. /\ IsFiniteSet(K) /\ Cardinality(K) = Cardinality(Keys) - 1
      /\ IsFiniteSet(C) /\ Cardinality(C) = Cardinality(Callers) - 1
  BY <1>1, CacheAssumption, FS_RemoveElement
<1>3. f \in Injection(A, K)
  <2>1. \A x \in A : f[x] \in Keys /\ initializers[f[x]] = x
    OBVIOUS
  <2>2. \A x \in A : f[x] \in K
    BY <2>1, Constants
  <2>3. \A x, y \in A : f[x] = f[y] => x = y
    BY <2>1
  <2> QED BY <2>2, <2>3 DEF Injection, IsInjective
<1>4. g \in Injection(B, C)
  <2>1. \A x \in B : g[x] \in Callers /\ call[g[x]].wave = x
    OBVIOUS
  <2>2. \A x \in B : g[x] \in C
    BY <1>1, <2>1, Constants
  <2>3. \A x, y \in B : g[x] = g[y] => x = y
    BY <2>1
  <2> QED BY <2>2, <2>3 DEF Injection, IsInjective
<1> HIDE DEF A, B, K, C, f, g
<1>5. /\ IsFiniteSet(A) /\ Cardinality(A) <= Cardinality(K)
      /\ IsFiniteSet(B) /\ Cardinality(B) <= Cardinality(C)
  BY <1>2, <1>3, <1>4, FS_Injection
<1>6. /\ IsFiniteSet(A \cup B)
      /\ Cardinality(A \cup B) = Cardinality(A) + Cardinality(B) - Cardinality(A \cap B)
      /\ IsFiniteSet(A \cap B)
  BY <1>5, FS_Union, FS_Intersection
<1>7. /\ Cardinality(A) \in Nat /\ Cardinality(B) \in Nat
      /\ Cardinality(A \cap B) \in Nat
  BY <1>5, <1>6, FS_CardinalityType
<1>8. Cardinality(A \cup B) < Cardinality(WaveIds)
  BY <1>2, <1>5, <1>6, <1>7, Constants
<1>9. ~(WaveIds \subseteq A \cup B)
  <2> SUFFICES ASSUME WaveIds \subseteq A \cup B PROVE FALSE
    OBVIOUS
  <2>1. Cardinality(WaveIds) <= Cardinality(A \cup B)
    BY <1>6, FS_Subset
  <2>2. Cardinality(A \cup B) \in Nat /\ Cardinality(WaveIds) \in Nat
    BY <1>6, Constants, FS_CardinalityType
  <2> QED BY <1>8, <2>1, <2>2
<1>10. \E x \in WaveIds : ~Referenced(x)
  BY <1>9 DEF A, B, Referenced
<1> QED BY <1>10

-----------------------------------------------------------------------------
(* What each step does to the locals of its caller                         *)

\* The caller's locals after a step, which leaves the other callers' alone.
Becomes(p, pc, refs, held, wave, attempt, backend, retiring) ==
  /\ CallsType'
  /\ \A q \in Callers \ {p} : call'[q] = call[q]
  /\ call'[p].pc = pc /\ call'[p].refs = refs /\ call'[p].held = held
  /\ call'[p].wave = wave /\ call'[p].attempt = attempt
  /\ call'[p].backend = backend /\ call'[p].retiring = retiring

\* Writing a whole record.
LEMMA Assigned ==
  ASSUME CallsType, NEW p \in Callers, NEW c \in Calls,
         call' = [call EXCEPT ![p] = c]
  PROVE  Becomes(p, c.pc, c.refs, c.held, c.wave, c.attempt, c.backend, c.retiring)
  BY DEF CallsType, Becomes

\* The record of a call, field by field.
LEMMA Record ==
  ASSUME NEW pc \in Pcs, NEW refs \in Seq(Refs), NEW held \in SUBSET Keys,
         NEW wave \in WaveIds \cup {None}, NEW attempt \in Nat,
         NEW backend \in Pools \cup {None}, NEW retiring \in SUBSET Pools
  PROVE  [pc |-> pc, refs |-> refs, held |-> held, wave |-> wave,
          attempt |-> attempt, backend |-> backend, retiring |-> retiring] \in Calls
  BY DEF Calls

\* Moving to another place.
LEMMA GotoEffect ==
  ASSUME CallsType, NEW p \in Callers, NEW pc \in Pcs, Goto(p, pc)
  PROVE  LET c == call[p] IN
         Becomes(p, pc, c.refs, c.held, c.wave, c.attempt, c.backend, c.retiring)
<1>1. [call[p] EXCEPT !.pc = pc] \in Calls
  BY DEF CallsType, Calls
<1>2. call' = [call EXCEPT ![p] = [call[p] EXCEPT !.pc = pc]]
  BY DEF CallsType, Calls, Goto
<1> QED BY <1>1, <1>2, Assigned DEF Calls, CallsType

\* Moving with a new wave, or none.
LEMMA WaveEffect ==
  ASSUME CallsType, NEW p \in Callers, NEW pc \in Pcs, NEW w \in WaveIds \cup {None},
         call' = [call EXCEPT ![p].pc = pc, ![p].wave = w]
  PROVE  LET c == call[p] IN
         Becomes(p, pc, c.refs, c.held, w, c.attempt, c.backend, c.retiring)
<1>1. [call[p] EXCEPT !.pc = pc, !.wave = w] \in Calls
  BY DEF CallsType, Calls
<1>2. call' = [call EXCEPT ![p] = [call[p] EXCEPT !.pc = pc, !.wave = w]]
  BY DEF CallsType, Calls
<1> QED BY <1>1, <1>2, Assigned DEF Calls, CallsType

\* Moving with a new backend, or none.
LEMMA BackendEffect ==
  ASSUME CallsType, NEW p \in Callers, NEW pc \in Pcs, NEW b \in Pools \cup {None},
         call' = [call EXCEPT ![p].pc = pc, ![p].backend = b]
  PROVE  LET c == call[p] IN
         Becomes(p, pc, c.refs, c.held, c.wave, c.attempt, b, c.retiring)
<1>1. [call[p] EXCEPT !.pc = pc, !.backend = b] \in Calls
  BY DEF CallsType, Calls
<1>2. call' = [call EXCEPT ![p] = [call[p] EXCEPT !.pc = pc, !.backend = b]]
  BY DEF CallsType, Calls
<1> QED BY <1>1, <1>2, Assigned DEF Calls, CallsType

\* Reusing a pool of the cache.
LEMMA ObtainEffect ==
  ASSUME EntriesType, CallsType, NEW p \in Callers, NEW k \in DOMAIN entries,
         NEW pc \in Pcs, Obtain(p, k, pc)
  PROVE  LET c == call[p] IN
         Becomes(p, pc, c.refs, c.held \cup {k}, c.wave, c.attempt,
                 entries[k].backend, c.retiring)
<1>1. k \in Keys /\ entries[k].backend \in Pools
  BY DEF EntriesType
<1> DEFINE b == entries[k].backend
<1>2. b \in Pools
  BY <1>1
<1>3. call' = [call EXCEPT ![p].pc = pc, ![p].held = @ \cup {k}, ![p].backend = b]
  BY DEF Obtain
<1> HIDE DEF b
<1>4. [call[p] EXCEPT !.pc = pc, !.held = @ \cup {k}, !.backend = b] \in Calls
  BY <1>1, <1>2 DEF CallsType, Calls
<1>5. call' = [call EXCEPT ![p] =
                 [call[p] EXCEPT !.pc = pc, !.held = @ \cup {k}, !.backend = b]]
  BY <1>3 DEF CallsType, Calls
<1>6. LET c == call[p] IN
      Becomes(p, pc, c.refs, c.held \cup {k}, c.wave, c.attempt, b, c.retiring)
  BY <1>4, <1>5, Assigned DEF Calls, CallsType
<1> QED BY <1>6 DEF b

\* ProvisionBegin starts a call with fresh locals.
LEMMA ProvisionBeginEffect ==
  ASSUME CallsType, NEW p \in Callers, NEW refs \in Plans, ProvisionBegin(p, refs)
  PROVE  Becomes(p, IF refs = <<>> THEN "leased" ELSE "resolve", refs, {}, None, 0,
                 None, {})
<1> DEFINE pc == IF refs = <<>> THEN "leased" ELSE "resolve"
<1>1. pc \in Pcs /\ refs \in Seq(Refs)
  BY CacheAssumption DEF Pcs, Refs
<1>2. call' = [call EXCEPT ![p] = [NoCall EXCEPT !.pc = pc, !.refs = refs]]
  BY DEF ProvisionBegin
<1> HIDE DEF pc
<1>3. [NoCall EXCEPT !.pc = pc, !.refs = refs] \in Calls
  BY <1>1 DEF NoCall, Calls
<1>4. Becomes(p, pc, refs, {}, None, 0, None, {})
  BY <1>1, <1>2, <1>3, Assigned DEF NoCall
<1> QED BY <1>4 DEF pc

\* Released forgets the call.
LEMMA ReleasedEffect ==
  ASSUME CallsType, NEW p \in Callers, Released(p)
  PROVE  Becomes(p, "idle", <<>>, {}, None, 0, None, {})
<1>1. NoCall \in Calls
  BY DEF NoCall, Calls, Pcs
<1> QED BY <1>1, Assigned DEF Released, NoCall

\* Join gives the caller its key's wave: the map's, or a free number that goes
\* into the map.
LEMMA JoinEffect ==
  ASSUME CacheInv, NEW p \in Callers, Join(p)
  PROVE  \E w \in WaveIds :
           LET c == call[p]
               k == Key(p)
               old == IF initializers[k] # None THEN waves[w] ELSE NoWave
           IN
           /\ k \in Keys
           /\ IF initializers[k] # None THEN w = initializers[k] ELSE ~Referenced(w)
           /\ initializers' = [initializers EXCEPT ![k] = w]
           /\ waves' = [waves EXCEPT ![w] = [old EXCEPT !.participants = @ + 1]]
           /\ Becomes(p, "lock", c.refs, c.held, w, c.attempt, c.backend, c.retiring)
           /\ UNCHANGED <<entries, registry, backends>>
<1>1. InitializersType /\ CallsType /\ Control
  BY DEF CacheInv, Types
<1>2. Key(p) \in Keys
  BY <1>1 DEF Join, Control
<1> DEFINE w == IF initializers[Key(p)] # None THEN initializers[Key(p)]
                ELSE CHOOSE x \in WaveIds : ~Referenced(x)
<1>3. /\ w \in WaveIds
      /\ IF initializers[Key(p)] # None THEN w = initializers[Key(p)] ELSE ~Referenced(w)
  <2>1. CASE initializers[Key(p)] # None
    BY <2>1, <1>1, <1>2 DEF InitializersType
  <2>2. CASE initializers[Key(p)] = None
    BY <2>2, <1>1, FreeWave DEF Join
  <2> QED BY <2>1, <2>2
<1> DEFINE old == IF initializers[Key(p)] # None THEN waves[w] ELSE NoWave
<1>4. /\ initializers' = [initializers EXCEPT ![Key(p)] = w]
      /\ waves' = [waves EXCEPT ![w] = [old EXCEPT !.participants = @ + 1]]
      /\ call' = [call EXCEPT ![p].pc = "lock", ![p].wave = w]
      /\ UNCHANGED <<entries, registry, backends>>
  BY DEF Join
<1> HIDE DEF w
<1>5. LET c == call[p] IN
      Becomes(p, "lock", c.refs, c.held, w, c.attempt, c.backend, c.retiring)
  BY <1>1, <1>3, <1>4, WaveEffect DEF Pcs
<1> QED BY <1>2, <1>3, <1>4, <1>5

\* LockedMiss starts the first attempt of a build.
LEMMA LockedMissEffect ==
  ASSUME CallsType, NEW p \in Callers, LockedMiss(p)
  PROVE  LET c == call[p] IN
         Becomes(p, "build", c.refs, c.held, c.wave, 1, c.backend, c.retiring)
<1>1. [call[p] EXCEPT !.pc = "build", !.attempt = 1] \in Calls
  BY DEF CallsType, Calls, Pcs
<1>2. call' = [call EXCEPT ![p] = [call[p] EXCEPT !.pc = "build", !.attempt = 1]]
  BY DEF CallsType, Calls, LockedMiss
<1> QED BY <1>1, <1>2, Assigned DEF Calls, CallsType

\* BuildRetry counts one more attempt.
LEMMA BuildRetryEffect ==
  ASSUME CallsType, NEW p \in Callers, BuildRetry(p)
  PROVE  LET c == call[p] IN
         Becomes(p, "build", c.refs, c.held, c.wave, c.attempt + 1, c.backend, c.retiring)
<1> DEFINE a == call[p].attempt + 1
<1>1. a \in Nat
  BY CallFields
<1>2. call[p].pc = "build" /\ call' = [call EXCEPT ![p].attempt = a]
  BY DEF BuildRetry
<1> HIDE DEF a
<1>3. [call[p] EXCEPT !.attempt = a] \in Calls
  BY <1>1 DEF CallsType, Calls
<1>4. call' = [call EXCEPT ![p] = [call[p] EXCEPT !.attempt = a]]
  BY <1>2 DEF CallsType, Calls
<1>5. LET c == call[p] IN
      Becomes(p, c.pc, c.refs, c.held, c.wave, a, c.backend, c.retiring)
  BY <1>3, <1>4, Assigned DEF Calls, CallsType
<1> QED BY <1>2, <1>5 DEF a

\* BuildOk hands the new pool to its builder.
LEMMA BuildOkEffect ==
  ASSUME CallsType, BackendsType, NEW p \in Callers, BuildOk(p)
  PROVE  LET c == call[p] IN
         Becomes(p, "insert", c.refs, c.held, c.wave, c.attempt, Len(backends) + 1,
                 c.retiring)
<1>1. Len(backends) + 1 \in Pools
  BY CacheAssumption, LenProperties DEF BuildOk, BackendsType, Pools
<1> QED BY <1>1, BackendEffect DEF BuildOk, Pcs

\* A builder finds its key's place free, so that no duplicate is retired.
LEMMA InsertEffect ==
  ASSUME CacheInv, NEW p \in Callers, Insert(p)
  PROVE  LET c == call[p]
             k == Key(p)
         IN
         /\ c.pc = "insert" /\ k \in Keys \ DOMAIN entries
         /\ c.backend \in Pools
         /\ entries' = Put(entries, k, [backend |-> c.backend, refcount |-> 1])
         /\ Becomes(p, "leave", c.refs, c.held \cup {k}, c.wave, c.attempt, c.backend,
                    c.retiring)
         /\ waves' = [waves EXCEPT ![c.wave].owner = None]
         /\ UNCHANGED <<initializers, registry, backends>>
<1>1. CallsType /\ Control /\ BackendsType
  BY DEF CacheInv, Types
<1>2. call[p].pc = "insert" /\ Key(p) \in Keys \ DOMAIN entries
  BY <1>1 DEF Insert, CacheInv, ColdBuilds, Control, InWave, Joined, Locking
<1>3. call[p].backend \in Pools
  <2>1. call[p].backend \in DOMAIN backends
    BY <1>2 DEF CacheInv, PoolsOpen
  <2> QED BY <2>1, <1>1, LenProperties, CacheAssumption DEF BackendsType, Pools
<1>4. /\ entries' = Put(entries, Key(p), [backend |-> call[p].backend, refcount |-> 1])
      /\ call' = [call EXCEPT ![p].pc = "leave", ![p].held = @ \cup {Key(p)}]
      /\ waves' = [waves EXCEPT ![call[p].wave].owner = None]
      /\ UNCHANGED <<initializers, registry, backends>>
  BY <1>2 DEF Insert
<1> DEFINE k == Key(p)
<1>5. k \in Keys
  BY <1>2
<1>6. call' = [call EXCEPT ![p].pc = "leave", ![p].held = @ \cup {k}]
  BY <1>4
<1> HIDE DEF k
<1>7. [call[p] EXCEPT !.pc = "leave", !.held = @ \cup {k}] \in Calls
  BY <1>1, <1>5 DEF CallsType, Calls, Pcs
<1>8. call' = [call EXCEPT ![p] = [call[p] EXCEPT !.pc = "leave", !.held = @ \cup {k}]]
  BY <1>1, <1>6 DEF CallsType, Calls
<1>9. LET c == call[p] IN
      Becomes(p, "leave", c.refs, c.held \cup {k}, c.wave, c.attempt, c.backend,
              c.retiring)
  BY <1>1, <1>7, <1>8, Assigned DEF Calls, CallsType
<1> QED BY <1>2, <1>3, <1>4, <1>9 DEF k

\* A caller leaves its wave cancelled, with an error or with a backend.
LEMMA AfterWaveType ==
  ASSUME NEW p \in Callers
  PROVE  AfterWave(p) \in {"cancelled", "fail", "register"}
  BY DEF AfterWave

\* Leave sends the last participant to the sweep and the others on.
LEMMA LeaveEffect ==
  ASSUME CallsType, NEW p \in Callers, Leave(p)
  PROVE  LET c == call[p]
             last == waves[c.wave].participants = 1
         IN
         /\ last => Becomes(p, IF c.pc = "leave" THEN "sweep" ELSE "abandonsweep",
                            c.refs, c.held, c.wave, c.attempt, c.backend, c.retiring)
         /\ ~last => Becomes(p, AfterWave(p),
                             c.refs, c.held, None, c.attempt, c.backend, c.retiring)
<1>1. CASE waves[call[p].wave].participants = 1
  <2> DEFINE pc == IF call[p].pc = "leave" THEN "sweep" ELSE "abandonsweep"
  <2>1. pc \in Pcs
    BY DEF Pcs
  <2>2. Goto(p, pc)
    BY <1>1 DEF Leave, Goto
  <2> HIDE DEF pc
  <2>3. LET c == call[p] IN
        Becomes(p, pc, c.refs, c.held, c.wave, c.attempt, c.backend, c.retiring)
    BY <2>1, <2>2, GotoEffect
  <2> QED BY <1>1, <2>3 DEF pc
<1>2. CASE waves[call[p].wave].participants # 1
  <2>1. AfterWave(p) \in Pcs
    BY AfterWaveType DEF Pcs
  <2>2. call' = [call EXCEPT ![p].pc = AfterWave(p), ![p].wave = None]
    BY <1>2 DEF Leave
  <2> QED BY <1>2, <2>1, <2>2, WaveEffect
<1> QED BY <1>1, <1>2

\* Sweep takes the caller out of its wave.
LEMMA SweepEffect ==
  ASSUME CallsType, NEW p \in Callers, Sweep(p)
  PROVE  LET c == call[p] IN
         Becomes(p, AfterWave(p), c.refs, c.held, None, c.attempt, c.backend, c.retiring)
<1>1. AfterWave(p) \in Pcs
  BY AfterWaveType DEF Pcs
<1>2. call' = [call EXCEPT ![p].pc = AfterWave(p), ![p].wave = None]
  BY DEF Sweep
<1> QED BY <1>1, <1>2, WaveEffect

\* Register goes on with the next reference, or with the lease.
LEMMA RegisterEffect ==
  ASSUME CallsType, Control, NEW p \in Callers, Register(p)
  PROVE  \E pc \in {"leased", "resolve"} :
           LET c == call[p] IN
           /\ Becomes(p, pc, Tail(c.refs), c.held, c.wave, 0, None, c.retiring)
           /\ pc = "resolve" => Tail(c.refs) # <<>>
<1> DEFINE refs == Tail(call[p].refs)
           pc == IF Len(call[p].refs) = 1 THEN "leased" ELSE "resolve"
<1>1. call[p].refs \in Seq(Refs) /\ call[p].refs # <<>>
  BY CallFields DEF Control, Register
<1>2. refs \in Seq(Refs) /\ (pc = "resolve" => refs # <<>>)
  <2>1. refs \in Seq(Refs) /\ Len(refs) = Len(call[p].refs) - 1
    BY <1>1, HeadTailProperties
  <2>2. Len(call[p].refs) \in Nat
    BY <1>1, LenProperties
  <2>3. refs = <<>> => Len(refs) = 0
    BY <2>1, EmptySeq
  <2> QED BY <2>1, <2>2, <2>3
<1>3. pc \in {"leased", "resolve"} /\ pc \in Pcs
  BY DEF Pcs
<1>4. call' = [call EXCEPT ![p].pc = pc, ![p].refs = refs, ![p].backend = None,
                           ![p].attempt = 0]
  BY DEF Register
<1> HIDE DEF refs, pc
<1>5. [call[p] EXCEPT !.pc = pc, !.refs = refs, !.backend = None, !.attempt = 0] \in Calls
  BY <1>2, <1>3 DEF CallsType, Calls
<1>6. call' = [call EXCEPT ![p] = [call[p] EXCEPT !.pc = pc, !.refs = refs,
                                                 !.backend = None, !.attempt = 0]]
  BY <1>4 DEF CallsType, Calls
<1>8. LET c == call[p] IN Becomes(p, pc, refs, c.held, c.wave, 0, None, c.retiring)
  BY <1>5, <1>6, Assigned DEF Calls, CallsType
<1>7. LET c == call[p] IN
      /\ Becomes(p, pc, Tail(c.refs), c.held, c.wave, 0, None, c.retiring)
      /\ pc = "resolve" => Tail(c.refs) # <<>>
  BY <1>2, <1>8 DEF refs
<1> QED BY <1>3, <1>7

\* What a call holds is in the cache.
LEMMA HeldCached ==
  ASSUME RefcountsExact, CallsType, NEW p \in Callers
  PROVE  call[p].held \subseteq DOMAIN entries
<1> SUFFICES ASSUME NEW k \in call[p].held, k \notin DOMAIN entries PROVE FALSE
  OBVIOUS
<1>1. k \in Keys
  BY CallFields
<1> DEFINE H == {q \in Callers : k \in call[q].held}
<1>2. Cardinality(H) = 0
  BY <1>1 DEF RefcountsExact
<1>3. IsFiniteSet(H)
  BY CacheAssumption, FS_Subset
<1>4. H = {}
  BY <1>2, <1>3, FS_EmptySet
<1> QED BY <1>4

\* Release gives up one key, which is in the cache, and with the last hold its
\* pool is the caller's to retire.
LEMMA ReleaseEffect ==
  ASSUME CacheInv, NEW p \in Callers, NEW k \in Keys, Release(p, k)
  PROVE  LET c == call[p] IN
         /\ c.pc = "release" /\ k \in c.held /\ k \in DOMAIN entries
         /\ entries' = IF Unheld(k) THEN [j \in DOMAIN entries \ {k} |-> entries[j]]
                       ELSE [entries EXCEPT ![k].refcount = @ - 1]
         /\ Becomes(p, "release", c.refs, c.held \ {k}, c.wave, c.attempt, c.backend,
                    IF Unheld(k) THEN c.retiring \cup {entries[k].backend}
                    ELSE c.retiring)
         /\ UNCHANGED <<initializers, waves, registry, backends>>
<1>1. CallsType /\ EntriesType /\ RefcountsExact
  BY DEF CacheInv, Types
<1>2. call[p].pc = "release" /\ k \in call[p].held /\ k \in DOMAIN entries
  BY <1>1, HeldCached DEF Release
<1>3. /\ entries' = IF Unheld(k) THEN [j \in DOMAIN entries \ {k} |-> entries[j]]
                    ELSE [entries EXCEPT ![k].refcount = @ - 1]
      /\ UNCHANGED <<initializers, waves, registry, backends>>
  BY <1>2 DEF Release, Restrict
<1> DEFINE gone == IF Unheld(k) THEN call[p].retiring \cup {entries[k].backend}
                   ELSE call[p].retiring
<1>4. entries[k].backend \in Pools
  BY <1>1, <1>2 DEF EntriesType
<1>5. gone \subseteq Pools
  BY <1>1, <1>4, CallFields
<1>6. call' = [call EXCEPT ![p].held = @ \ {k}, ![p].retiring = gone]
  BY <1>1, <1>2 DEF Release, CallsType, Calls
<1> HIDE DEF gone
<1>7. [call[p] EXCEPT !.held = @ \ {k}, !.retiring = gone] \in Calls
  BY <1>1, <1>5 DEF CallsType, Calls
<1>8. call' = [call EXCEPT ![p] = [call[p] EXCEPT !.held = @ \ {k}, !.retiring = gone]]
  BY <1>1, <1>6 DEF CallsType, Calls
<1>9. LET c == call[p] IN
      Becomes(p, "release", c.refs, c.held \ {k}, c.wave, c.attempt, c.backend, gone)
  BY <1>1, <1>2, <1>7, <1>8, Assigned DEF Calls, CallsType
<1> QED BY <1>2, <1>3, <1>9 DEF gone

\* Retire takes one pool off the list.
LEMMA RetireEffect ==
  ASSUME CallsType, NEW p \in Callers, NEW b, Retire(p, b)
  PROVE  LET c == call[p] IN
         Becomes(p, "release", c.refs, c.held, c.wave, c.attempt, c.backend,
                 c.retiring \ {b})
<1>1. [call[p] EXCEPT !.retiring = @ \ {b}] \in Calls
  BY DEF CallsType, Calls
<1>2. call' = [call EXCEPT ![p] = [call[p] EXCEPT !.retiring = @ \ {b}]]
  BY DEF CallsType, Calls, Retire
<1>3. call[p].pc = "release"
  BY DEF Retire
<1> QED BY <1>1, <1>2, <1>3, Assigned DEF Calls, CallsType

-----------------------------------------------------------------------------
(* Waves                                                                   *)

\* A set of participants is finite; a participant is counted, and the last
\* one is alone.
LEMMA Counting ==
  ASSUME CacheInv, NEW w \in WaveIds
  PROVE  /\ IsFiniteSet(Participants(w))
         /\ waves[w].participants = Cardinality(Participants(w))
         /\ waves[w].participants \in Nat
         /\ waves[w].participants = 0 <=> Participants(w) = {}
         /\ \A p \in Participants(w) :
              waves[w].participants = 1 => Participants(w) = {p}
<1>1. IsFiniteSet(Participants(w))
  BY CacheAssumption, FS_Subset DEF Participants
<1>2. waves[w].participants = Cardinality(Participants(w))
  BY DEF CacheInv, WavesCounted
<1>3. waves[w].participants \in Nat
  BY <1>1, <1>2, FS_CardinalityType
<1>4. waves[w].participants = 0 <=> Participants(w) = {}
  BY <1>1, <1>2, FS_EmptySet
<1>5. ASSUME NEW p \in Participants(w), waves[w].participants = 1
      PROVE  Participants(w) = {p}
  <2>1. PICK x : Participants(w) = {x}
    BY <1>1, <1>2, <1>5, FS_Singleton
  <2> QED BY <1>5, <2>1
<1> QED BY <1>1, <1>2, <1>3, <1>4, <1>5

\* A step outside the waves.
LEMMA WavesOutside ==
  ASSUME CacheInv, Control', NEW p \in Callers,
         \A q \in Callers \ {p} : call'[q] = call[q],
         call[p].pc \notin InWave, call'[p].pc \notin InWave,
         UNCHANGED <<initializers, waves>>
  PROVE  WavesCounted' /\ WavesMapped'
<1>1. call[p].wave = None /\ call'[p].wave = None
  BY DEF CacheInv, Control
<1>2. None \notin WaveIds
  BY Constants
<1>3. InitializersType
  BY DEF CacheInv, Types
<1>4. \A w \in WaveIds : Participants(w)' = Participants(w)
  BY <1>1, <1>2 DEF Participants
<1>5. WavesCounted'
  BY <1>1, <1>2, <1>4 DEF CacheInv, WavesCounted
<1>6. WavesMapped'
  <2>1. WavesMapped
    BY DEF CacheInv
  <2>2. \A q \in Callers : call'[q].pc \in Joined => initializers[Key(q)'] = call'[q].wave
    BY <2>1 DEF WavesMapped, InWave, Key
  <2>3. \A q \in Callers, k \in Keys :
          initializers[k] # None /\ call'[q].wave = initializers[k] => Key(q)' = k
    BY <1>1, <2>1 DEF WavesMapped, Key
  <2>4. ErrorsNotSticky'
    BY <1>1, <2>1 DEF WavesMapped, ErrorsNotSticky
  <2> QED BY <2>2, <2>3, <2>4 DEF WavesMapped
<1> QED BY <1>5, <1>6

\* A step of a participant that stays one: it takes, keeps or gives up the mutex.
LEMMA WavesInside ==
  ASSUME CacheInv, NEW p \in Callers, NEW w \in WaveIds, call[p].wave = w,
         \A q \in Callers \ {p} : call'[q] = call[q],
         call[p].pc \in Joined, call'[p].pc \in Joined,
         call'[p].wave = w, call'[p].refs = call[p].refs,
         \A v \in WaveIds : waves'[v].participants = waves[v].participants,
         \A v \in WaveIds \ {w} : waves'[v].owner = waves[v].owner,
         waves'[w].owner = p <=> call'[p].pc \in Locking,
         \A q \in Callers \ {p} : waves'[w].owner = q <=> waves[w].owner = q,
         UNCHANGED initializers
  PROVE  WavesCounted' /\ WavesMapped'
<1>1. \A v \in WaveIds : Participants(v)' = Participants(v)
  BY DEF Participants
<1>2. WavesCounted'
  <2>1. \A v \in WaveIds : waves'[v].participants = Cardinality(Participants(v)')
    BY <1>1 DEF CacheInv, WavesCounted
  <2>2. ASSUME NEW v \in WaveIds, NEW q \in Callers
        PROVE  waves'[v].owner = q <=> call'[q].wave = v /\ call'[q].pc \in Locking
    <3>1. waves[v].owner = q <=> call[q].wave = v /\ call[q].pc \in Locking
      BY DEF CacheInv, WavesCounted
    <3>2. CASE q = p /\ v = w
      BY <3>2
    <3>3. CASE q = p /\ v # w
      BY <3>1, <3>3
    <3>4. CASE q # p /\ v = w
      BY <3>1, <3>4
    <3>5. CASE q # p /\ v # w
      BY <3>1, <3>5
    <3> QED BY <3>2, <3>3, <3>4, <3>5
  <2> QED BY <2>1, <2>2 DEF WavesCounted
<1>3. \A q \in Callers : Key(q)' = Key(q) /\ call'[q].wave = call[q].wave
                           /\ (call'[q].pc \in Joined <=> call[q].pc \in Joined)
  BY DEF Key
<1>4. WavesMapped'
  BY <1>3 DEF CacheInv, WavesMapped, ErrorsNotSticky
<1> QED BY <1>2, <1>4

\* Joining: the caller is counted, and the map holds its wave.
LEMMA WavesJoin ==
  ASSUME CacheInv, NEW p \in Callers, Join(p)
  PROVE  WavesCounted' /\ WavesMapped'
<1>1. PICK w \in WaveIds :
        LET old == IF initializers[Key(p)] # None THEN waves[w] ELSE NoWave IN
        /\ Key(p) \in Keys
        /\ IF initializers[Key(p)] # None THEN w = initializers[Key(p)] ELSE ~Referenced(w)
        /\ initializers' = [initializers EXCEPT ![Key(p)] = w]
        /\ waves' = [waves EXCEPT ![w] = [old EXCEPT !.participants = @ + 1]]
        /\ Becomes(p, "lock", call[p].refs, call[p].held, w, call[p].attempt,
                   call[p].backend, call[p].retiring)
  BY JoinEffect
<1>2. /\ \A q \in Callers \ {p} : call'[q] = call[q]
      /\ call'[p].pc = "lock" /\ call'[p].refs = call[p].refs /\ call'[p].wave = w
  BY <1>1 DEF Becomes
<1>3. call[p].pc = "join" /\ call[p].wave = None
  BY DEF Join, CacheInv, Control, InWave, Joined, Locking
<1>4. InitializersType /\ WavesType /\ WavesCounted /\ WavesMapped /\ Control
  BY DEF CacheInv, Types
<1>5. None \notin WaveIds /\ None \notin Callers
  BY Constants
<1>6. \A q \in Callers : Key(q)' = Key(q)
  BY <1>2 DEF Key
<1>7. CASE initializers[Key(p)] # None
  <2>1. w = initializers[Key(p)] /\ initializers' = initializers
    BY <1>1, <1>4, <1>7 DEF InitializersType
  <2>2. /\ \A v \in WaveIds \ {w} : waves'[v] = waves[v]
        /\ waves'[w].participants = waves[w].participants + 1
        /\ waves'[w].owner = waves[w].owner
    BY <1>1, <1>4, <1>7 DEF WavesType
  <2>3. \A v \in WaveIds \ {w} : Participants(v)' = Participants(v)
    BY <1>2, <1>3, <1>5 DEF Participants
  <2>4. Participants(w)' = Participants(w) \cup {p} /\ p \notin Participants(w)
    BY <1>2, <1>3, <1>5 DEF Participants, Joined
  <2>5. Cardinality(Participants(w)') = Cardinality(Participants(w)) + 1
    BY <2>4, Counting, FS_AddElement
  <2>6. \A v \in WaveIds : waves'[v].participants = Cardinality(Participants(v)')
    BY <2>2, <2>3, <2>5, Counting
  <2>7. \A v \in WaveIds : \A q \in Callers :
          waves'[v].owner = q <=> call'[q].wave = v /\ call'[q].pc \in Locking
    BY <1>2, <1>3, <1>4, <1>5, <2>2 DEF WavesCounted, Locking
  <2>8. \A q \in Callers : call'[q].pc \in Joined => initializers[Key(q)] = call'[q].wave
    BY <1>2, <1>4, <2>1 DEF WavesMapped
  <2>9. \A q \in Callers, k \in Keys :
          initializers[k] # None /\ call'[q].wave = initializers[k] => Key(q) = k
    <3> SUFFICES ASSUME NEW k \in Keys, initializers[k] = w PROVE Key(p) = k
      BY <1>2, <1>4 DEF WavesMapped
    <3>1. PICK q \in Callers : call[q].wave = initializers[k]
      BY <1>4, <1>5 DEF WavesMapped, ErrorsNotSticky
    <3>2. Key(q) = k /\ Key(q) = Key(p)
      BY <1>1, <1>4, <1>5, <2>1, <3>1 DEF WavesMapped
    <3> QED BY <3>2
  <2>10. ErrorsNotSticky'
    BY <1>2, <1>3, <1>4, <1>5, <2>1 DEF WavesMapped, ErrorsNotSticky
  <2>11. WavesMapped'
    BY <1>6, <2>1, <2>8, <2>9, <2>10 DEF WavesMapped
  <2> QED BY <2>6, <2>7, <2>11 DEF WavesCounted
<1>8. CASE initializers[Key(p)] = None
  <2>1. /\ \A k \in Keys : initializers[k] # w
        /\ \A q \in Callers : call[q].wave # w
    BY <1>1, <1>8 DEF Referenced
  <2>2. /\ \A v \in WaveIds \ {w} : waves'[v] = waves[v]
        /\ waves'[w].participants = 1
        /\ waves'[w].owner = None
    BY <1>1, <1>4, <1>8 DEF WavesType, NoWave
  <2>3. \A v \in WaveIds \ {w} : Participants(v)' = Participants(v)
    BY <1>2, <1>3, <1>5 DEF Participants
  <2>4. Participants(w)' = {p}
    BY <1>2, <2>1 DEF Participants, Joined
  <2>5. \A v \in WaveIds : waves'[v].participants = Cardinality(Participants(v)')
    BY <2>2, <2>3, <2>4, Counting, FS_Singleton
  <2>6. \A v \in WaveIds : \A q \in Callers :
          waves'[v].owner = q <=> call'[q].wave = v /\ call'[q].pc \in Locking
    BY <1>2, <1>3, <1>4, <1>5, <2>1, <2>2 DEF WavesCounted, Locking
  <2>7. /\ initializers'[Key(p)] = w
        /\ \A k \in Keys \ {Key(p)} : initializers'[k] = initializers[k]
    BY <1>1, <1>4 DEF InitializersType
  <2>8. \A q \in Callers : call'[q].pc \in Joined => initializers'[Key(q)] = call'[q].wave
    <3>2. ASSUME NEW q \in Callers \ {p}, call'[q].pc \in Joined
          PROVE  initializers'[Key(q)] = call'[q].wave
      <4>1. initializers[Key(q)] = call[q].wave /\ call[q].wave # None /\ Key(q) \in Keys
        BY <1>2, <1>4, <3>2 DEF WavesMapped, Control, InWave
      <4>2. Key(q) # Key(p)
        BY <1>8, <4>1
      <4> QED BY <1>2, <2>7, <4>1, <4>2
    <3> QED BY <1>2, <2>7, <3>2
  <2>9. \A q \in Callers, k \in Keys :
          initializers'[k] # None /\ call'[q].wave = initializers'[k] => Key(q) = k
    BY <1>2, <1>4, <2>1, <2>7 DEF WavesMapped
  <2>10. ErrorsNotSticky'
    <3> SUFFICES ASSUME NEW k \in Keys, initializers'[k] # None
                 PROVE  \E q \in Callers : call'[q].wave = initializers'[k]
      BY DEF ErrorsNotSticky
    <3>1. CASE k = Key(p)
      BY <1>2, <2>7, <3>1
    <3>2. CASE k # Key(p)
      BY <1>2, <1>3, <1>4, <2>7, <3>2 DEF WavesMapped, ErrorsNotSticky
    <3> QED BY <3>1, <3>2
  <2>11. WavesMapped'
    BY <1>6, <2>8, <2>9, <2>10 DEF WavesMapped
  <2> QED BY <2>5, <2>6, <2>11 DEF WavesCounted
<1> QED BY <1>7, <1>8

\* Leaving: the caller is counted out; unless it was the last one, somebody
\* still takes part in the wave.
LEMMA WavesLeave ==
  ASSUME CacheInv, NEW p \in Callers, Leave(p)
  PROVE  WavesCounted' /\ WavesMapped'
<1>1. CallsType /\ WavesType /\ WavesCounted /\ WavesMapped /\ Control
  BY DEF CacheInv, Types
<1>2. call[p].pc \in {"leave", "abandon"}
  BY DEF Leave
<1>3. call[p].pc \in Joined /\ call[p].pc \in InWave /\ call[p].pc \notin Locking
  BY <1>2 DEF Joined, InWave, Locking
<1>4. PICK w \in WaveIds : w = call[p].wave
  BY <1>1, <1>3, InWaveHasWave
<1>5. /\ \A q \in Callers \ {p} : call'[q] = call[q]
      /\ call'[p].refs = call[p].refs
      /\ call'[p].pc \notin Joined
      /\ call'[p].wave \in {w, None}
      /\ waves[w].participants = 1 => call'[p].wave = w
  <2>1. CASE waves[w].participants = 1
    BY <1>1, <1>4, <2>1, LeaveEffect DEF Becomes, Joined, Locking
  <2>2. CASE waves[w].participants # 1
    BY <1>1, <1>4, <2>2, LeaveEffect, AfterWaveType DEF Becomes, Joined, Locking
  <2> QED BY <2>1, <2>2
<1>6. UNCHANGED initializers /\ waves' = [waves EXCEPT ![w].participants = @ - 1]
  BY <1>4 DEF Leave
<1>7. None \notin WaveIds /\ None \notin Callers
  BY Constants
<1>8. /\ \A v \in WaveIds \ {w} : waves'[v] = waves[v]
      /\ waves'[w].participants = waves[w].participants - 1
      /\ waves'[w].owner = waves[w].owner
  BY <1>1, <1>4, <1>6 DEF WavesType
<1>9. \A v \in WaveIds \ {w} : Participants(v)' = Participants(v)
  BY <1>4, <1>5, <1>7 DEF Participants
<1>10. Participants(w)' = Participants(w) \ {p} /\ p \in Participants(w)
  BY <1>3, <1>4, <1>5 DEF Participants
<1>11. Cardinality(Participants(w)') = Cardinality(Participants(w)) - 1
  <2>1. IsFiniteSet(Participants(w))
    BY Counting
  <2>2. Cardinality(Participants(w) \ {p}) = Cardinality(Participants(w)) - 1
    BY <1>10, <2>1, FS_RemoveElement
  <2> QED BY <1>10, <2>2
<1>12. \A v \in WaveIds : waves'[v].participants = Cardinality(Participants(v)')
  BY <1>8, <1>9, <1>11, Counting
<1>13. \A v \in WaveIds : \A q \in Callers :
         waves'[v].owner = q <=> call'[q].wave = v /\ call'[q].pc \in Locking
  BY <1>1, <1>3, <1>5, <1>8 DEF WavesCounted, Joined
<1>14. \A q \in Callers : Key(q)' = Key(q)
  BY <1>5 DEF Key
<1>15. \A q \in Callers : call'[q].pc \in Joined => initializers[Key(q)] = call'[q].wave
  BY <1>1, <1>5 DEF WavesMapped
<1>16. \A q \in Callers, k \in Keys :
         initializers[k] # None /\ call'[q].wave = initializers[k] => Key(q) = k
  BY <1>1, <1>4, <1>5 DEF WavesMapped
<1>17. ErrorsNotSticky'
  <2> SUFFICES ASSUME NEW k \in Keys, initializers[k] # None
               PROVE  \E q \in Callers : call'[q].wave = initializers[k]
    BY <1>6 DEF ErrorsNotSticky
  <2>1. PICK q \in Callers : call[q].wave = initializers[k]
    BY <1>1 DEF WavesMapped, ErrorsNotSticky
  <2>2. CASE q # p
    BY <1>5, <2>1, <2>2
  <2>3. CASE q = p /\ waves[w].participants = 1
    BY <1>4, <1>5, <2>1, <2>3
  <2>4. CASE q = p /\ waves[w].participants # 1
    <3>1. Participants(w) # {p}
      BY <1>4, <2>4, Counting, FS_Singleton
    <3>2. PICK r \in Participants(w) : r # p
      BY <1>10, <3>1
    <3>3. r \in Callers /\ call[r].wave = initializers[k]
      BY <1>4, <2>1, <2>4, <3>2 DEF Participants
    <3> QED BY <1>5, <3>2, <3>3
  <2> QED BY <2>2, <2>3, <2>4
<1>18. WavesMapped'
  BY <1>6, <1>14, <1>15, <1>16, <1>17 DEF WavesMapped
<1> QED BY <1>12, <1>13, <1>18 DEF WavesCounted

\* Sweeping: only a wave without participants is taken out of the map.
LEMMA WavesSweep ==
  ASSUME CacheInv, NEW p \in Callers, Sweep(p)
  PROVE  WavesCounted' /\ WavesMapped'
<1> DEFINE w == call[p].wave
           k == Key(p)
<1>1. CallsType /\ InitializersType /\ WavesCounted /\ WavesMapped /\ Control
  BY DEF CacheInv, Types
<1>2. call[p].pc \in {"sweep", "abandonsweep"}
  BY DEF Sweep
<1>3. call[p].pc \notin Joined /\ call[p].pc \in InWave /\ k \in Keys
  BY <1>1, <1>2 DEF Joined, InWave, Locking, Control
<1>4. w \in WaveIds
  BY <1>1, <1>3, InWaveHasWave
<1>5. /\ \A q \in Callers \ {p} : call'[q] = call[q]
      /\ call'[p].refs = call[p].refs
      /\ call'[p].pc \notin Joined
      /\ call'[p].wave = None
  BY <1>1, SweepEffect, AfterWaveType DEF Becomes, Joined, Locking
<1>6. /\ initializers' = IF initializers[k] = w /\ waves[w].participants = 0
                         THEN [initializers EXCEPT ![k] = None] ELSE initializers
      /\ UNCHANGED waves
  BY DEF Sweep, Abandoned
<1>7. None \notin WaveIds /\ None \notin Callers
  BY Constants
<1>8. \A q \in Callers : Key(q)' = Key(q)
  BY <1>5 DEF Key
<1>9. \A v \in WaveIds : Participants(v)' = Participants(v)
  BY <1>3, <1>5 DEF Participants
<1>10. WavesCounted'
  BY <1>1, <1>3, <1>5, <1>6, <1>7, <1>9 DEF WavesCounted, Joined
<1>11. CASE initializers[k] = w /\ waves[w].participants = 0
  <2>1. /\ initializers'[k] = None
        /\ \A j \in Keys \ {k} : initializers'[j] = initializers[j]
    BY <1>1, <1>3, <1>6, <1>11 DEF InitializersType
  <2>2. Participants(w) = {}
    BY <1>4, <1>11, Counting
  <2>3. ASSUME NEW q \in Callers, call'[q].pc \in Joined
        PROVE  initializers'[Key(q)] = call'[q].wave
    <3>1. q # p /\ call[q].pc \in Joined
      BY <1>5, <2>3
    <3>2. initializers[Key(q)] = call[q].wave /\ Key(q) \in Keys
      BY <1>1, <3>1 DEF WavesMapped, Control, InWave
    <3>3. Key(q) # k
      BY <1>11, <2>2, <3>1, <3>2 DEF Participants
    <3> QED BY <1>5, <2>1, <3>1, <3>2, <3>3
  <2>4. \A q \in Callers, j \in Keys :
          initializers'[j] # None /\ call'[q].wave = initializers'[j] => Key(q) = j
    BY <1>1, <1>5, <2>1 DEF WavesMapped
  <2>5. ErrorsNotSticky'
    <3> SUFFICES ASSUME NEW j \in Keys, initializers'[j] # None
                 PROVE  \E q \in Callers : call'[q].wave = initializers'[j]
      BY DEF ErrorsNotSticky
    <3>1. j # k /\ initializers'[j] = initializers[j]
      BY <2>1
    <3>2. PICK q \in Callers : call[q].wave = initializers[j]
      BY <1>1, <3>1 DEF WavesMapped, ErrorsNotSticky
    <3>3. q # p
      BY <1>1, <3>1, <3>2 DEF WavesMapped
    <3> QED BY <1>5, <3>1, <3>2, <3>3
  <2>6. WavesMapped'
    BY <1>8, <2>3, <2>4, <2>5 DEF WavesMapped
  <2> QED BY <1>10, <2>6
<1>12. CASE ~(initializers[k] = w /\ waves[w].participants = 0)
  <2>1. initializers' = initializers
    BY <1>6, <1>12
  <2>2. \A q \in Callers : call'[q].pc \in Joined => initializers[Key(q)] = call'[q].wave
    BY <1>1, <1>5 DEF WavesMapped
  <2>3. \A q \in Callers, j \in Keys :
          initializers[j] # None /\ call'[q].wave = initializers[j] => Key(q) = j
    BY <1>1, <1>5 DEF WavesMapped
  <2>4. ErrorsNotSticky'
    <3> SUFFICES ASSUME NEW j \in Keys, initializers[j] # None
                 PROVE  \E q \in Callers : call'[q].wave = initializers[j]
      BY <2>1 DEF ErrorsNotSticky
    <3>1. PICK q \in Callers : call[q].wave = initializers[j]
      BY <1>1 DEF WavesMapped, ErrorsNotSticky
    <3>2. CASE q # p
      BY <1>5, <3>1, <3>2
    <3>3. CASE q = p
      <4>1. j = k /\ initializers[k] = w
        BY <1>1, <3>1, <3>3 DEF WavesMapped
      <4>2. Participants(w) # {}
        BY <1>4, <1>12, <4>1, Counting
      <4>3. PICK r \in Participants(w) : TRUE
        BY <4>2
      <4>4. r \in Callers /\ r # p /\ call[r].wave = initializers[j]
        BY <1>3, <4>1, <4>3 DEF Participants
      <4> QED BY <1>5, <4>4
    <3> QED BY <3>2, <3>3
  <2>5. WavesMapped'
    BY <1>8, <2>1, <2>2, <2>3, <2>4 DEF WavesMapped
  <2> QED BY <1>10, <2>5
<1> QED BY <1>11, <1>12

-----------------------------------------------------------------------------
(* Pools                                                                   *)

Holders(k) == {p \in Callers : k \in call[p].held}

\* What the cache says about its pools and who uses them.
PoolsInv == ColdBuilds /\ RefcountsExact /\ PoolsOpen /\ RetiringGone /\ NoPoolLost /\ InUse

\* The holders of a key can be counted.
LEMMA HoldersFinite ==
  ASSUME NEW k
  PROVE  IsFiniteSet(Holders(k)) /\ Cardinality(Holders(k)) \in Nat
<1>1. IsFiniteSet(Holders(k))
  BY CacheAssumption, FS_Subset DEF Holders
<1> QED BY <1>1, FS_CardinalityType

\* Callers that build hold the mutex of their wave, and builders of one key are
\* participants of one wave: there is one.
LEMMA OneBuilder ==
  ASSUME CacheInv, NEW p \in Callers, NEW q \in Callers,
         call[p].pc \in Locking, call[q].pc \in Locking, Key(p) = Key(q)
  PROVE  p = q
<1>1. call[p].wave = initializers[Key(p)] /\ call[q].wave = initializers[Key(p)]
  BY DEF CacheInv, WavesMapped, Joined
<1>2. call[p].wave \in WaveIds
  BY InWaveHasWave DEF CacheInv, Types, InWave, Joined
<1> QED BY <1>1, <1>2 DEF CacheInv, WavesCounted

\* A step that touches no pool, no entry and no registry, and does not start to
\* use or to insert a pool.
LEMMA PoolsQuiet ==
  ASSUME CacheInv, NEW p \in Callers,
         UNCHANGED <<entries, backends, registry>>,
         \A q \in Callers \ {p} : call'[q] = call[q],
         call'[p].held = call[p].held, call'[p].retiring = call[p].retiring,
         call[p].pc # "insert", call'[p].pc # "insert",
         call'[p].pc = "build" => Key(p)' \notin DOMAIN entries,
         call'[p].pc \in {"leave", "sweep", "register"} /\ call'[p].backend # None =>
           /\ call[p].pc \in {"leave", "sweep", "register"}
           /\ call'[p].backend = call[p].backend
           /\ call'[p].refs = call[p].refs
  PROVE  PoolsInv'
<1>1. \A q \in Callers : /\ call'[q].held = call[q].held
                         /\ call'[q].retiring = call[q].retiring
                         /\ call'[q].pc = "insert" <=> call[q].pc = "insert"
                         /\ call'[q].pc = "insert" => call'[q] = call[q]
  OBVIOUS
<1>2. ColdBuilds'
  BY DEF CacheInv, ColdBuilds, Key
<1>3. RefcountsExact'
  BY <1>1 DEF CacheInv, RefcountsExact
<1>4. PoolsOpen'
  BY <1>1 DEF CacheInv, PoolsOpen, Key
<1>5. RetiringGone'
  BY <1>1 DEF CacheInv, RetiringGone
<1>6. NoPoolLost'
  BY <1>1 DEF CacheInv, NoPoolLost
<1>7. InUse'
  <2>1. InUse
    BY DEF CacheInv
  <2>2. ASSUME NEW q \in Callers, NEW n \in DOMAIN registry[q]
        PROVE  \E k \in call'[q].held \cap DOMAIN entries :
                 registry[q][n] = entries[k].backend
    BY <1>1, <2>1, <2>2 DEF InUse
  <2>3. ASSUME NEW q \in Callers, call'[q].pc \in {"leave", "sweep", "register"},
               call'[q].backend # None
        PROVE  /\ Key(q)' \in call'[q].held /\ Key(q)' \in DOMAIN entries
               /\ call'[q].backend = entries[Key(q)'].backend
    <3>1. /\ call[q].pc \in {"leave", "sweep", "register"}
          /\ call'[q].backend = call[q].backend /\ Key(q)' = Key(q)
      BY <2>3 DEF Key
    <3> QED BY <1>1, <2>1, <2>3, <3>1 DEF InUse
  <2> QED BY <2>2, <2>3 DEF InUse
<1> QED BY <1>2, <1>3, <1>4, <1>5, <1>6, <1>7 DEF PoolsInv

\* Reusing the cache's pool counts the caller, once.
LEMMA PoolsObtain ==
  ASSUME CacheInv, NEW p \in Callers, NEW k \in DOMAIN entries, k = Key(p),
         NEW pc \in {"register", "leave"}, Obtain(p, k, pc),
         call[p].pc \in {"resolve", "check"},
         UNCHANGED <<backends, registry>>
  PROVE  PoolsInv'
<1>1. EntriesType /\ CallsType
  BY DEF CacheInv, Types
<1>2. /\ \A q \in Callers \ {p} : call'[q] = call[q]
      /\ call'[p].pc = pc /\ call'[p].refs = call[p].refs
      /\ call'[p].held = call[p].held \cup {k}
      /\ call'[p].backend = entries[k].backend /\ call'[p].retiring = call[p].retiring
  BY <1>1, ObtainEffect DEF Becomes, Pcs
<1>3. \A q \in Callers : Key(q)' = Key(q)
  BY <1>2 DEF Key
<1>4. /\ DOMAIN entries' = DOMAIN entries
      /\ \A j \in DOMAIN entries : entries'[j].backend = entries[j].backend
      /\ \A j \in DOMAIN entries \ {k} : entries'[j] = entries[j]
      /\ entries'[k].refcount = IF k \in call[p].held THEN entries[k].refcount
                                ELSE entries[k].refcount + 1
  <2>1. entries' = IF k \in call[p].held THEN entries
                   ELSE [entries EXCEPT ![k].refcount = @ + 1]
    BY DEF Obtain, Take
  <2> QED BY <1>1, <2>1 DEF EntriesType
<1>5. ColdBuilds'
  BY <1>2, <1>3, <1>4 DEF CacheInv, ColdBuilds
<1>6. RefcountsExact'
  <2>1. RefcountsExact
    BY DEF CacheInv
  <2>2. \A j \in Keys \ {k} : Holders(j)' = Holders(j)
    BY <1>2 DEF Holders
  <2>3. Holders(k)' = Holders(k) \cup {p}
    BY <1>2 DEF Holders
  <2>4. p \in Holders(k) <=> k \in call[p].held
    BY DEF Holders
  <2>5. Cardinality(Holders(k)') = IF k \in call[p].held THEN Cardinality(Holders(k))
                                   ELSE Cardinality(Holders(k)) + 1
    BY <2>3, <2>4, HoldersFinite, FS_AddElement
  <2> QED BY <1>4, <2>1, <2>2, <2>5 DEF RefcountsExact, Holders
<1>7. PoolsOpen'
  BY <1>2, <1>3, <1>4 DEF CacheInv, PoolsOpen
<1>8. RetiringGone'
  BY <1>2, <1>4 DEF CacheInv, RetiringGone
<1>9. NoPoolLost'
  BY <1>2, <1>4 DEF CacheInv, NoPoolLost
<1>10. InUse'
  BY <1>2, <1>3, <1>4 DEF CacheInv, InUse
<1> QED BY <1>5, <1>6, <1>7, <1>8, <1>9, <1>10 DEF PoolsInv

\* A new pool is nobody's but its builder's.
LEMMA PoolsBuildOk ==
  ASSUME CacheInv, NEW p \in Callers, BuildOk(p)
  PROVE  PoolsInv'
<1> DEFINE b == Len(backends) + 1
<1>1. CallsType /\ BackendsType /\ EntriesType
  BY DEF CacheInv, Types
<1>2. call[p].pc = "build" /\ Key(p) \in Keys \ DOMAIN entries
  BY DEF BuildOk, CacheInv, Control, ColdBuilds, InWave, Joined, Locking
<1>3. /\ \A q \in Callers \ {p} : call'[q] = call[q]
      /\ call'[p].pc = "insert" /\ call'[p].refs = call[p].refs
      /\ call'[p].held = call[p].held
      /\ call'[p].backend = b /\ call'[p].retiring = call[p].retiring
  BY <1>1, BuildOkEffect DEF Becomes
<1>4. \A q \in Callers : Key(q)' = Key(q)
  BY <1>3 DEF Key
<1>5. UNCHANGED <<entries, registry>>
  BY DEF BuildOk
<1>6. /\ DOMAIN backends' = DOMAIN backends \cup {b} /\ b \notin DOMAIN backends
      /\ \A x \in DOMAIN backends : backends'[x] = backends[x]
      /\ backends'[b] = [key |-> Key(p), open |-> TRUE]
  <2>1. backends' = Append(backends, [key |-> Key(p), open |-> TRUE])
    BY DEF BuildOk
  <2>2. backends \in Seq([key : Keys, open : BOOLEAN])
    BY <1>1 DEF BackendsType
  <2>3. DOMAIN backends = 1..Len(backends) /\ Len(backends) \in Nat
    BY <2>2, LenProperties
  <2>4. [key |-> Key(p), open |-> TRUE] \in [key : Keys, open : BOOLEAN]
    BY <1>2
  <2>5. /\ backends' \in Seq([key : Keys, open : BOOLEAN])
        /\ Len(backends') = b
        /\ \A i \in 1..Len(backends) : backends'[i] = backends[i]
        /\ backends'[b] = [key |-> Key(p), open |-> TRUE]
    BY <2>1, <2>2, <2>4, AppendProperties
  <2>6. DOMAIN backends' = 1..b
    BY <2>5, LenProperties
  <2> QED BY <2>3, <2>5, <2>6
<1> HIDE DEF b
<1>7. ColdBuilds'
  BY <1>2, <1>3, <1>4, <1>5 DEF CacheInv, ColdBuilds
<1>8. RefcountsExact'
  <2>1. \A q \in Callers : call'[q].held = call[q].held
    BY <1>3
  <2> QED BY <1>5, <2>1 DEF CacheInv, RefcountsExact
<1>9. PoolsOpen'
  <2>1. PoolsOpen
    BY DEF CacheInv
  <2>2. ASSUME NEW k \in DOMAIN entries
        PROVE  /\ entries[k].backend \in DOMAIN backends'
               /\ backends'[entries[k].backend] = [key |-> k, open |-> TRUE]
    BY <1>6, <2>1, <2>2 DEF PoolsOpen
  <2>3. ASSUME NEW q \in Callers, call'[q].pc = "insert"
        PROVE  /\ call'[q].backend \in DOMAIN backends'
               /\ backends'[call'[q].backend] = [key |-> Key(q), open |-> TRUE]
    <3>1. CASE q = p
      BY <1>3, <1>6, <3>1
    <3>2. CASE q # p
      BY <1>3, <1>6, <2>1, <2>3, <3>2 DEF PoolsOpen
    <3> QED BY <3>1, <3>2
  <2> QED BY <1>4, <1>5, <2>2, <2>3 DEF PoolsOpen
<1>10. RetiringGone'
  BY <1>3, <1>5, <1>6 DEF CacheInv, RetiringGone
<1>11. NoPoolLost'
  <2> SUFFICES ASSUME NEW x \in DOMAIN backends', backends'[x].open
               PROVE  \/ \E k \in DOMAIN entries : entries[k].backend = x
                      \/ \E q \in Callers : \/ call'[q].pc = "insert" /\ call'[q].backend = x
                                            \/ x \in call'[q].retiring
    BY <1>5 DEF NoPoolLost
  <2>1. CASE x = b
    BY <1>3, <2>1
  <2>2. CASE x # b
    BY <1>2, <1>3, <1>6, <2>2 DEF CacheInv, NoPoolLost
  <2> QED BY <2>1, <2>2
<1>12. InUse'
  BY <1>3, <1>4, <1>5 DEF CacheInv, InUse
<1> QED BY <1>7, <1>8, <1>9, <1>10, <1>11, <1>12 DEF PoolsInv

\* The pool goes into the cache, counted for its builder.
LEMMA PoolsInsert ==
  ASSUME CacheInv, NEW p \in Callers, Insert(p)
  PROVE  PoolsInv'
<1> DEFINE b == call[p].backend
<1>1. /\ call[p].pc = "insert" /\ Key(p) \in Keys \ DOMAIN entries /\ b \in Pools
      /\ entries' = Put(entries, Key(p), [backend |-> b, refcount |-> 1])
      /\ Becomes(p, "leave", call[p].refs, call[p].held \cup {Key(p)}, call[p].wave,
                 call[p].attempt, b, call[p].retiring)
      /\ UNCHANGED <<registry, backends>>
  BY InsertEffect
<1>2. PICK k \in Keys : k = Key(p) /\ k \notin DOMAIN entries
  BY <1>1
<1>3. /\ \A q \in Callers \ {p} : call'[q] = call[q]
      /\ call'[p].pc = "leave" /\ call'[p].refs = call[p].refs
      /\ call'[p].held = call[p].held \cup {k}
      /\ call'[p].backend = b /\ call'[p].retiring = call[p].retiring
  BY <1>1, <1>2 DEF Becomes
<1>4. \A q \in Callers : Key(q)' = Key(q)
  BY <1>3 DEF Key
<1>5. EntriesType /\ CallsType /\ PoolsOpen
  BY DEF CacheInv, Types
<1>6. /\ DOMAIN entries' = DOMAIN entries \cup {k}
      /\ \A j \in DOMAIN entries : entries'[j] = entries[j]
      /\ entries'[k] = [backend |-> b, refcount |-> 1]
  BY <1>1, <1>2 DEF Put
<1>7. b \in DOMAIN backends /\ backends[b] = [key |-> k, open |-> TRUE]
  BY <1>1, <1>2, <1>5 DEF PoolsOpen
<1>8. ColdBuilds'
  <2> SUFFICES ASSUME NEW q \in Callers, call'[q].pc \in {"build", "insert"}
               PROVE  Key(q) \notin DOMAIN entries'
    BY <1>4 DEF ColdBuilds
  <2>1. q # p /\ call[q].pc \in {"build", "insert"}
    BY <1>3
  <2>2. Key(q) # k
    BY <1>1, <1>2, <2>1, OneBuilder DEF Locking
  <2> QED BY <1>6, <2>1, <2>2 DEF CacheInv, ColdBuilds
<1>9. RefcountsExact'
  <2>1. RefcountsExact
    BY DEF CacheInv
  <2>2. \A j \in Keys \ {k} : Holders(j)' = Holders(j)
    BY <1>3 DEF Holders
  <2>3. Cardinality(Holders(k)) = 0
    BY <1>2, <2>1 DEF RefcountsExact, Holders
  <2>4. Holders(k) = {}
    BY <2>3, HoldersFinite, FS_EmptySet
  <2>5. Holders(k)' = {p}
    BY <1>3, <2>4 DEF Holders
  <2>6. Cardinality(Holders(k)') = 1
    BY <2>5, FS_Singleton
  <2>7. \A j \in Keys \ {k} : (j \in DOMAIN entries' <=> j \in DOMAIN entries)
    BY <1>6
  <2>8. ASSUME NEW j \in Keys
        PROVE  IF j \in DOMAIN entries' THEN entries'[j].refcount = Cardinality(Holders(j)')
               ELSE Cardinality(Holders(j)') = 0
    <3>1. CASE j = k
      BY <1>6, <2>6, <3>1
    <3>2. CASE j # k
      BY <1>6, <2>1, <2>2, <2>7, <3>2 DEF RefcountsExact, Holders
    <3> QED BY <3>1, <3>2
  <2> QED BY <2>8 DEF RefcountsExact, Holders
<1>10. PoolsOpen'
  <2>1. \A j \in DOMAIN entries' :
          /\ entries'[j].backend \in DOMAIN backends
          /\ backends[entries'[j].backend] = [key |-> j, open |-> TRUE]
    <3> SUFFICES ASSUME NEW j \in DOMAIN entries'
                 PROVE  /\ entries'[j].backend \in DOMAIN backends
                        /\ backends[entries'[j].backend] = [key |-> j, open |-> TRUE]
      OBVIOUS
    <3>1. CASE j = k
      BY <1>6, <1>7, <3>1
    <3>2. CASE j # k
      BY <1>5, <1>6, <3>2 DEF PoolsOpen
    <3> QED BY <3>1, <3>2
  <2>2. \A q \in Callers : call'[q].pc = "insert" =>
          /\ call'[q].backend \in DOMAIN backends
          /\ backends[call'[q].backend] = [key |-> Key(q), open |-> TRUE]
    BY <1>3, <1>5 DEF PoolsOpen
  <2> QED BY <1>1, <1>4, <2>1, <2>2 DEF PoolsOpen
<1>11. RetiringGone'
  <2>1. RetiringGone
    BY DEF CacheInv
  <2>2. \A q \in Callers : call'[q].retiring = call[q].retiring
    BY <1>3
  <2>3. \A q \in Callers : b \notin call[q].retiring
    BY <1>1, <2>1 DEF RetiringGone
  <2>4. \A q \in Callers : call'[q].pc = "insert" =>
          call[q].pc = "insert" /\ call'[q].backend = call[q].backend
    BY <1>3
  <2> QED BY <1>1, <1>6, <2>1, <2>2, <2>3, <2>4 DEF RetiringGone
<1>12. NoPoolLost'
  <2> SUFFICES ASSUME NEW x \in DOMAIN backends, backends[x].open
               PROVE  \/ \E j \in DOMAIN entries' : entries'[j].backend = x
                      \/ \E q \in Callers : \/ call'[q].pc = "insert" /\ call'[q].backend = x
                                            \/ x \in call'[q].retiring
    BY <1>1 DEF NoPoolLost
  <2>1. CASE x = b
    BY <1>6, <2>1
  <2>2. CASE x # b
    BY <1>3, <1>6, <2>2 DEF CacheInv, NoPoolLost
  <2> QED BY <2>1, <2>2
<1>13. InUse'
  <2>1. InUse
    BY DEF CacheInv
  <2>2. ASSUME NEW q \in Callers, NEW n \in DOMAIN registry[q]
        PROVE  \E j \in call'[q].held \cap DOMAIN entries' :
                 registry[q][n] = entries'[j].backend
    <3>1. PICK j \in call[q].held \cap DOMAIN entries : registry[q][n] = entries[j].backend
      BY <2>1, <2>2 DEF InUse
    <3>2. j \in call'[q].held
      BY <1>3, <3>1
    <3> QED BY <1>6, <3>1, <3>2
  <2>3. ASSUME NEW q \in Callers, call'[q].pc \in {"leave", "sweep", "register"},
               call'[q].backend # None
        PROVE  /\ Key(q) \in call'[q].held /\ Key(q) \in DOMAIN entries'
               /\ call'[q].backend = entries'[Key(q)].backend
    <3>1. CASE q = p
      BY <1>2, <1>3, <1>6, <3>1
    <3>2. CASE q # p
      BY <1>3, <1>6, <2>1, <2>3, <3>2 DEF InUse
    <3> QED BY <3>1, <3>2
  <2> QED BY <1>1, <1>4, <2>2, <2>3 DEF InUse
<1> QED BY <1>8, <1>9, <1>10, <1>11, <1>12, <1>13 DEF PoolsInv

\* A name in the registry is backed by a key the call holds.
LEMMA PoolsRegister ==
  ASSUME CacheInv, NEW p \in Callers, Register(p)
  PROVE  PoolsInv'
<1>1. CallsType /\ Control /\ RegistryType /\ InUse
  BY DEF CacheInv, Types
<1>2. PICK pc \in {"leased", "resolve"} :
        Becomes(p, pc, Tail(call[p].refs), call[p].held, call[p].wave, 0, None,
                call[p].retiring)
  BY <1>1, RegisterEffect
<1>3. /\ \A q \in Callers \ {p} : call'[q] = call[q]
      /\ call'[p].pc = pc /\ call'[p].held = call[p].held
      /\ call'[p].retiring = call[p].retiring
  BY <1>2 DEF Becomes
<1>4. call[p].pc = "register" /\ UNCHANGED <<entries, backends>>
  BY DEF Register
<1>5. \A q \in Callers : /\ call'[q].held = call[q].held
                         /\ call'[q].retiring = call[q].retiring
                         /\ call'[q].pc = "insert" <=> call[q].pc = "insert"
                         /\ call'[q].pc = "insert" => call'[q] = call[q]
  BY <1>3, <1>4
<1>6. ColdBuilds'
  BY <1>3, <1>4 DEF CacheInv, ColdBuilds, Key
<1>7. RefcountsExact'
  BY <1>4, <1>5 DEF CacheInv, RefcountsExact
<1>8. PoolsOpen'
  BY <1>4, <1>5 DEF CacheInv, PoolsOpen, Key
<1>9. RetiringGone'
  BY <1>4, <1>5 DEF CacheInv, RetiringGone
<1>10. NoPoolLost'
  BY <1>4, <1>5 DEF CacheInv, NoPoolLost
<1>11. InUse'
  <2>1. /\ \A q \in Callers \ {p} : registry'[q] = registry[q]
        /\ registry'[p] = Put(registry[p], Name(p), call[p].backend)
    BY <1>1 DEF Register, RegistryType
  <2>2. call[p].backend # None
    BY <1>1, <1>4 DEF Control
  <2>3. /\ Key(p) \in call[p].held \cap DOMAIN entries
        /\ call[p].backend = entries[Key(p)].backend
    BY <1>1, <1>4, <2>2 DEF InUse
  <2>4. ASSUME NEW q \in Callers, NEW n \in DOMAIN registry'[q]
        PROVE  \E k \in call'[q].held \cap DOMAIN entries :
                 registry'[q][n] = entries[k].backend
    <3>1. CASE q # p
      BY <1>1, <1>5, <2>1, <2>4, <3>1 DEF InUse
    <3>2. CASE q = p /\ n = Name(p)
      BY <1>5, <2>1, <2>3, <3>2 DEF Put
    <3>3. CASE q = p /\ n # Name(p)
      <4>1. n \in DOMAIN registry[p] /\ registry'[p][n] = registry[p][n]
        BY <2>1, <2>4, <3>3 DEF Put
      <4> QED BY <1>1, <1>5, <3>3, <4>1 DEF InUse
    <3> QED BY <3>1, <3>2, <3>3
  <2>5. ASSUME NEW q \in Callers, call'[q].pc \in {"leave", "sweep", "register"},
               call'[q].backend # None
        PROVE  /\ Key(q)' \in call'[q].held /\ Key(q)' \in DOMAIN entries
               /\ call'[q].backend = entries[Key(q)'].backend
    BY <1>1, <1>3, <2>5 DEF InUse, Key
  <2> QED BY <1>4, <2>4, <2>5 DEF InUse
<1> QED BY <1>6, <1>7, <1>8, <1>9, <1>10, <1>11 DEF PoolsInv

\* The call takes its names out of the registry before it lets go of the keys.
LEMMA PoolsClear ==
  ASSUME CacheInv, NEW p \in Callers, call[p].pc \in {"fail", "leased"},
         registry' = [registry EXCEPT ![p] = NoEntries], Goto(p, "release"),
         UNCHANGED <<entries, backends>>
  PROVE  PoolsInv'
<1>1. CallsType /\ RegistryType /\ InUse
  BY DEF CacheInv, Types
<1>2. /\ \A q \in Callers \ {p} : call'[q] = call[q]
      /\ call'[p].pc = "release" /\ call'[p].held = call[p].held
      /\ call'[p].retiring = call[p].retiring
  BY <1>1, GotoEffect DEF Becomes, Pcs
<1>3. \A q \in Callers : /\ call'[q].held = call[q].held
                         /\ call'[q].retiring = call[q].retiring
                         /\ call'[q].pc = "insert" <=> call[q].pc = "insert"
                         /\ call'[q].pc = "insert" => call'[q] = call[q]
  BY <1>2
<1>4. ColdBuilds'
  BY <1>2 DEF CacheInv, ColdBuilds, Key
<1>5. RefcountsExact'
  BY <1>3 DEF CacheInv, RefcountsExact
<1>6. PoolsOpen'
  BY <1>3 DEF CacheInv, PoolsOpen, Key
<1>7. RetiringGone'
  BY <1>3 DEF CacheInv, RetiringGone
<1>8. NoPoolLost'
  BY <1>3 DEF CacheInv, NoPoolLost
<1>9. InUse'
  <2>1. /\ \A q \in Callers \ {p} : registry'[q] = registry[q]
        /\ DOMAIN registry'[p] = {}
    BY <1>1 DEF RegistryType, NoEntries
  <2> QED BY <1>1, <1>2, <2>1 DEF InUse, Key
<1> QED BY <1>4, <1>5, <1>6, <1>7, <1>8, <1>9 DEF PoolsInv

\* Retirement closes a pool that has left the cache.
LEMMA PoolsRetire ==
  ASSUME CacheInv, NEW p \in Callers, NEW b \in Pools, Retire(p, b)
  PROVE  PoolsInv'
<1>1. CallsType /\ BackendsType /\ PoolsOpen /\ RetiringGone
  BY DEF CacheInv, Types
<1>2. /\ \A q \in Callers \ {p} : call'[q] = call[q]
      /\ call'[p].pc = "release" /\ call'[p].held = call[p].held
      /\ call'[p].retiring = call[p].retiring \ {b}
  BY <1>1, RetireEffect DEF Becomes
<1>3. call[p].pc = "release" /\ UNCHANGED <<entries, registry>> /\ b \in call[p].retiring
  BY DEF Retire
<1>4. /\ DOMAIN backends' = DOMAIN backends /\ b \in DOMAIN backends
      /\ \A x \in DOMAIN backends \ {b} : backends'[x] = backends[x]
      /\ ~backends'[b].open
  <2>1. b \in DOMAIN backends
    BY <1>1, <1>3 DEF RetiringGone
  <2>2. backends \in [1..Len(backends) -> [key : Keys, open : BOOLEAN]]
    BY <1>1, LenProperties DEF BackendsType
  <2>3. backends' = [backends EXCEPT ![b].open = FALSE]
    BY DEF Retire
  <2> QED BY <2>1, <2>2, <2>3
<1>5. \A q \in Callers : /\ call'[q].held = call[q].held
                         /\ call'[q].retiring \subseteq call[q].retiring
                         /\ call'[q].pc = "insert" <=> call[q].pc = "insert"
                         /\ call'[q].pc = "insert" => call'[q] = call[q]
  BY <1>2, <1>3
<1>6. ColdBuilds'
  BY <1>2, <1>3 DEF CacheInv, ColdBuilds, Key
<1>7. RefcountsExact'
  BY <1>3, <1>5 DEF CacheInv, RefcountsExact
<1>8. PoolsOpen'
  <2>1. \A k \in DOMAIN entries : entries[k].backend # b
    BY <1>1, <1>3 DEF RetiringGone
  <2>2. \A q \in Callers : call[q].pc = "insert" => call[q].backend # b
    BY <1>1, <1>3 DEF RetiringGone
  <2>3. \A k \in DOMAIN entries :
          /\ entries[k].backend \in DOMAIN backends
          /\ backends'[entries[k].backend] = [key |-> k, open |-> TRUE]
    BY <1>1, <1>4, <2>1 DEF PoolsOpen
  <2>4. \A q \in Callers : call'[q].pc = "insert" =>
          /\ call'[q].backend \in DOMAIN backends
          /\ backends'[call'[q].backend] = [key |-> Key(q)', open |-> TRUE]
    BY <1>1, <1>4, <1>5, <2>2 DEF PoolsOpen, Key
  <2> QED BY <1>3, <1>4, <2>3, <2>4 DEF PoolsOpen
<1>9. RetiringGone'
  BY <1>1, <1>3, <1>4, <1>5 DEF RetiringGone
<1>10. NoPoolLost'
  <2> SUFFICES ASSUME NEW x \in DOMAIN backends, backends'[x].open
               PROVE  \/ \E k \in DOMAIN entries : entries[k].backend = x
                      \/ \E q \in Callers : \/ call'[q].pc = "insert" /\ call'[q].backend = x
                                            \/ x \in call'[q].retiring
    BY <1>3, <1>4 DEF NoPoolLost
  <2>1. x # b /\ backends[x].open
    BY <1>4
  <2>2. CASE \E k \in DOMAIN entries : entries[k].backend = x
    BY <2>2
  <2>3. ASSUME NEW q \in Callers, call[q].pc = "insert" /\ call[q].backend = x
        PROVE  call'[q].pc = "insert" /\ call'[q].backend = x
    BY <1>5, <2>3
  <2>4. ASSUME NEW q \in Callers, x \in call[q].retiring
        PROVE  x \in call'[q].retiring
    BY <1>2, <2>1, <2>4
  <2> QED BY <2>1, <2>2, <2>3, <2>4 DEF CacheInv, NoPoolLost
<1>11. InUse'
  BY <1>2, <1>3 DEF CacheInv, InUse, Key
<1> QED BY <1>6, <1>7, <1>8, <1>9, <1>10, <1>11 DEF PoolsInv

\* The last holder takes the pool out of the cache, with nobody using it.
LEMMA PoolsRelease ==
  ASSUME CacheInv, NEW p \in Callers, NEW k \in Keys, Release(p, k)
  PROVE  PoolsInv'
<1>1. /\ call[p].pc = "release" /\ k \in call[p].held /\ k \in DOMAIN entries
      /\ entries' = IF Unheld(k) THEN [j \in DOMAIN entries \ {k} |-> entries[j]]
                    ELSE [entries EXCEPT ![k].refcount = @ - 1]
      /\ Becomes(p, "release", call[p].refs, call[p].held \ {k}, call[p].wave,
                 call[p].attempt, call[p].backend,
                 IF Unheld(k) THEN call[p].retiring \cup {entries[k].backend}
                 ELSE call[p].retiring)
      /\ UNCHANGED <<registry, backends>>
  BY ReleaseEffect
<1>2. PICK b : b = entries[k].backend
  OBVIOUS
<1>3. /\ \A q \in Callers \ {p} : call'[q] = call[q]
      /\ call'[p].pc = "release" /\ call'[p].refs = call[p].refs
      /\ call'[p].held = call[p].held \ {k}
      /\ Unheld(k) => call'[p].retiring = call[p].retiring \cup {b}
      /\ ~Unheld(k) => call'[p].retiring = call[p].retiring
  BY <1>1, <1>2 DEF Becomes
<1>4. \A q \in Callers : Key(q)' = Key(q)
  BY <1>3 DEF Key
<1>5. EntriesType /\ CallsType /\ PoolsOpen /\ RetiringGone /\ RefcountsExact /\ InUse
        /\ Control
  BY DEF CacheInv, Types
<1>6. /\ Unheld(k) => DOMAIN entries' = DOMAIN entries \ {k}
      /\ ~Unheld(k) => DOMAIN entries' = DOMAIN entries
      /\ \A j \in DOMAIN entries \ {k} : entries'[j] = entries[j]
      /\ ~Unheld(k) => /\ entries'[k].backend = b
                       /\ entries'[k].refcount = entries[k].refcount - 1
  BY <1>1, <1>2, <1>5 DEF EntriesType
<1>7. entries[k].refcount = Cardinality(Holders(k)) /\ p \in Holders(k)
        /\ entries[k].refcount \in Nat \ {0}
  BY <1>1, <1>5 DEF RefcountsExact, Holders, EntriesType
<1>8. Unheld(k) => Holders(k) = {p}
  <2> SUFFICES ASSUME Unheld(k) PROVE Holders(k) = {p}
    OBVIOUS
  <2>1. Cardinality(Holders(k)) = 1
    BY <1>7 DEF Unheld
  <2>2. PICK x : Holders(k) = {x}
    BY <2>1, HoldersFinite, FS_Singleton
  <2> QED BY <1>7, <2>2
<1>9. \A j \in DOMAIN entries' : j \in DOMAIN entries /\ entries'[j].backend = entries[j].backend
  BY <1>2, <1>6
<1>10. ColdBuilds'
  BY <1>3, <1>4, <1>9 DEF CacheInv, ColdBuilds
<1>11. RefcountsExact'
  <2>1. \A j \in Keys \ {k} : Holders(j)' = Holders(j)
    BY <1>3 DEF Holders
  <2>2. Holders(k)' = Holders(k) \ {p}
    BY <1>3 DEF Holders
  <2>3. Cardinality(Holders(k)') = entries[k].refcount - 1
    <3>1. IsFiniteSet(Holders(k))
      BY HoldersFinite
    <3>2. Cardinality(Holders(k) \ {p}) = Cardinality(Holders(k)) - 1
      BY <1>7, <3>1, FS_RemoveElement
    <3> QED BY <1>7, <2>2, <3>2
  <2>4. ASSUME NEW j \in Keys
        PROVE  IF j \in DOMAIN entries' THEN entries'[j].refcount = Cardinality(Holders(j)')
               ELSE Cardinality(Holders(j)') = 0
    <3>1. CASE j = k /\ Unheld(k)
      BY <1>6, <1>7, <2>3, <3>1 DEF Unheld
    <3>2. CASE j = k /\ ~Unheld(k)
      BY <1>1, <1>6, <2>3, <3>2
    <3>3. CASE j # k
      BY <1>5, <1>6, <2>1, <3>3 DEF RefcountsExact, Holders
    <3> QED BY <3>1, <3>2, <3>3
  <2> QED BY <2>4 DEF RefcountsExact, Holders
<1>12. PoolsOpen'
  <2>1. \A j \in DOMAIN entries' :
          /\ entries'[j].backend \in DOMAIN backends
          /\ backends[entries'[j].backend] = [key |-> j, open |-> TRUE]
    BY <1>5, <1>9 DEF PoolsOpen
  <2>2. \A q \in Callers : call'[q].pc = "insert" =>
          /\ call'[q].backend \in DOMAIN backends
          /\ backends[call'[q].backend] = [key |-> Key(q), open |-> TRUE]
    BY <1>3, <1>5 DEF PoolsOpen
  <2> QED BY <1>1, <1>4, <2>1, <2>2 DEF PoolsOpen
<1>13. RetiringGone'
  <2>1. b \in DOMAIN backends /\ backends[b] = [key |-> k, open |-> TRUE]
    BY <1>1, <1>2, <1>5 DEF PoolsOpen
  <2>2. Unheld(k) => \A j \in DOMAIN entries' : entries'[j].backend # b
    <3> SUFFICES ASSUME Unheld(k), NEW j \in DOMAIN entries', entries'[j].backend = b
                 PROVE  FALSE
      OBVIOUS
    <3>1. j # k /\ j \in DOMAIN entries /\ entries[j].backend = b
      BY <1>6, <1>9
    <3>2. backends[b] = [key |-> j, open |-> TRUE]
      BY <1>5, <3>1 DEF PoolsOpen
    <3> QED BY <2>1, <3>1, <3>2
  <2>3. \A q \in Callers : call[q].pc = "insert" => call[q].backend # b
    <3> SUFFICES ASSUME NEW q \in Callers, call[q].pc = "insert", call[q].backend = b
                 PROVE  FALSE
      OBVIOUS
    <3>1. backends[b] = [key |-> Key(q), open |-> TRUE]
      BY <1>5 DEF PoolsOpen
    <3>2. Key(q) = k
      BY <2>1, <3>1
    <3> QED BY <1>1, <3>2 DEF CacheInv, ColdBuilds
  <2>4. ASSUME NEW q \in Callers, NEW x \in call'[q].retiring
        PROVE  /\ x \in DOMAIN backends
               /\ \A j \in DOMAIN entries' : entries'[j].backend # x
               /\ \A r \in Callers : call'[r].pc = "insert" => call'[r].backend # x
    <3>1. CASE x \in call[q].retiring
      BY <1>3, <1>5, <1>9, <3>1 DEF RetiringGone
    <3>2. CASE x \notin call[q].retiring
      <4>1. x = b /\ Unheld(k)
        BY <1>3, <2>4, <3>2
      <4> QED BY <1>3, <2>1, <2>2, <2>3, <4>1
    <3> QED BY <3>1, <3>2
  <2> QED BY <1>1, <2>4 DEF RetiringGone
<1>14. NoPoolLost'
  <2> SUFFICES ASSUME NEW x \in DOMAIN backends, backends[x].open
               PROVE  \/ \E j \in DOMAIN entries' : entries'[j].backend = x
                      \/ \E q \in Callers : \/ call'[q].pc = "insert" /\ call'[q].backend = x
                                            \/ x \in call'[q].retiring
    BY <1>1 DEF NoPoolLost
  <2>1. ASSUME NEW j \in DOMAIN entries, entries[j].backend = x
        PROVE  \/ \E i \in DOMAIN entries' : entries'[i].backend = x
               \/ \E q \in Callers : x \in call'[q].retiring
    <3>1. CASE j = k /\ Unheld(k)
      BY <1>2, <1>3, <2>1, <3>1
    <3>2. CASE ~(j = k /\ Unheld(k))
      BY <1>2, <1>6, <2>1, <3>2
    <3> QED BY <3>1, <3>2
  <2>2. ASSUME NEW q \in Callers, call[q].pc = "insert" /\ call[q].backend = x
        PROVE  call'[q].pc = "insert" /\ call'[q].backend = x
    BY <1>1, <1>3, <2>2
  <2>3. ASSUME NEW q \in Callers, x \in call[q].retiring
        PROVE  x \in call'[q].retiring
    BY <1>3, <2>3
  <2> QED BY <2>1, <2>2, <2>3 DEF CacheInv, NoPoolLost
<1>15. InUse'
  <2>1. \A q \in Callers \ {p} : \A j \in call[q].held \cap DOMAIN entries :
          j \in DOMAIN entries' /\ entries'[j].backend = entries[j].backend
    <3> SUFFICES ASSUME NEW q \in Callers \ {p}, NEW j \in call[q].held \cap DOMAIN entries
                 PROVE  j \in DOMAIN entries' /\ entries'[j].backend = entries[j].backend
      OBVIOUS
    <3>1. CASE j # k
      BY <1>6, <3>1
    <3>2. CASE j = k
      BY <1>2, <1>6, <1>8, <3>2 DEF Holders
    <3> QED BY <3>1, <3>2
  <2>2. DOMAIN registry[p] = {}
    BY <1>1, <1>5 DEF Control, NoEntries
  <2>3. ASSUME NEW q \in Callers, NEW n \in DOMAIN registry[q]
        PROVE  \E j \in call'[q].held \cap DOMAIN entries' :
                 registry[q][n] = entries'[j].backend
    <3>1. q # p
      BY <2>2, <2>3
    <3>2. PICK j \in call[q].held \cap DOMAIN entries : registry[q][n] = entries[j].backend
      BY <1>5, <2>3 DEF InUse
    <3> QED BY <1>3, <2>1, <3>1, <3>2
  <2>4. ASSUME NEW q \in Callers, call'[q].pc \in {"leave", "sweep", "register"},
               call'[q].backend # None
        PROVE  /\ Key(q) \in call'[q].held /\ Key(q) \in DOMAIN entries'
               /\ call'[q].backend = entries'[Key(q)].backend
    <3>1. q # p /\ call'[q] = call[q]
      BY <1>3, <2>4
    <3> QED BY <1>5, <2>1, <2>4, <3>1 DEF InUse
  <2>5. registry' = registry
    BY <1>1
  <2> QED BY <1>4, <2>3, <2>4, <2>5 DEF InUse
<1> QED BY <1>10, <1>11, <1>12, <1>13, <1>14, <1>15 DEF PoolsInv

-----------------------------------------------------------------------------
(* Every step keeps the invariant                                          *)

\* The types of the variables a step leaves alone.
LEMMA Unchanged ==
  ASSUME CacheInv
  PROVE  /\ EntriesType /\ InitializersType /\ WavesType /\ CallsType
         /\ RegistryType /\ BackendsType /\ Control
         /\ UNCHANGED entries => EntriesType'
         /\ UNCHANGED initializers => InitializersType'
         /\ UNCHANGED waves => WavesType'
         /\ UNCHANGED registry => RegistryType'
         /\ UNCHANGED backends => BackendsType'
<1>1. /\ EntriesType /\ InitializersType /\ WavesType /\ CallsType
      /\ RegistryType /\ BackendsType /\ Control
  BY DEF CacheInv, Types
<1>2. UNCHANGED entries => EntriesType'
  BY <1>1 DEF EntriesType
<1>3. UNCHANGED initializers => InitializersType'
  BY <1>1 DEF InitializersType
<1>4. UNCHANGED waves => WavesType'
  BY <1>1 DEF WavesType
<1>5. UNCHANGED registry => RegistryType'
  BY <1>1 DEF RegistryType
<1>6. UNCHANGED backends => BackendsType'
  BY <1>1 DEF BackendsType
<1> QED BY <1>1, <1>2, <1>3, <1>4, <1>5, <1>6

\* What a caller knows after its step; the others' knowledge is untouched.
LEMMA ControlStep ==
  ASSUME CacheInv, NEW p \in Callers,
         \A q \in Callers \ {p} : call'[q] = call[q] /\ registry'[q] = registry[q],
         call'[p].pc \in InWave \cup {"resolve", "join", "register"} => call'[p].refs # <<>>,
         call'[p].pc \in InWave \cup {"join", "register"} => Key(p)' \in Keys,
         call'[p].wave # None <=> call'[p].pc \in InWave,
         call'[p].pc = "idle" => call'[p].held = {} /\ call'[p].retiring = {},
         call'[p].pc = "register" => call'[p].backend # None,
         call'[p].pc \in {"idle", "release"} => registry'[p] = NoEntries
  PROVE  Control'
  BY DEF CacheInv, Control, Key

\* ResolveInvalid keeps the invariant.
LEMMA ResolveInvalidStep ==
  ASSUME CacheInv, NEW p \in Callers, ResolveInvalid(p)
  PROVE  CacheInv'
<1>0. /\ EntriesType /\ InitializersType /\ WavesType /\ CallsType
      /\ RegistryType /\ BackendsType /\ Control
  BY Unchanged
<1>1. LET c == call[p] IN
      Becomes(p, "fail", c.refs, c.held, c.wave, c.attempt, c.backend, c.retiring)
  BY <1>0, GotoEffect DEF ResolveInvalid, Pcs
<1>2. call[p].pc = "resolve" /\ UNCHANGED <<entries, initializers, waves, registry, backends>>
  BY DEF ResolveInvalid
<1>3. Types'
  BY <1>1, <1>2, Unchanged DEF Becomes, Types
<1>4. Control'
  BY <1>0, <1>1, <1>2, ControlStep DEF ResolveInvalid, Becomes, Control, Key, InWave, Joined, Locking
<1>5. WavesCounted' /\ WavesMapped'
  BY <1>1, <1>2, <1>4, WavesOutside DEF Becomes, InWave, Joined, Locking
<1>6. PoolsInv'
  BY <1>1, <1>2, PoolsQuiet DEF Becomes
<1> QED BY <1>3, <1>4, <1>5, <1>6 DEF CacheInv, PoolsInv

\* ResolveMiss keeps the invariant.
LEMMA ResolveMissStep ==
  ASSUME CacheInv, NEW p \in Callers, ResolveMiss(p)
  PROVE  CacheInv'
<1>0. /\ EntriesType /\ InitializersType /\ WavesType /\ CallsType
      /\ RegistryType /\ BackendsType /\ Control
  BY Unchanged
<1>1. LET c == call[p] IN
      Becomes(p, "join", c.refs, c.held, c.wave, c.attempt, c.backend, c.retiring)
  BY <1>0, GotoEffect DEF ResolveMiss, Pcs
<1>2. call[p].pc = "resolve" /\ UNCHANGED <<entries, initializers, waves, registry, backends>>
  BY DEF ResolveMiss
<1>3. Types'
  BY <1>1, <1>2, Unchanged DEF Becomes, Types
<1>4. Control'
  BY <1>0, <1>1, <1>2, ControlStep DEF ResolveMiss, Becomes, Control, Key, InWave, Joined, Locking
<1>5. WavesCounted' /\ WavesMapped'
  BY <1>1, <1>2, <1>4, WavesOutside DEF Becomes, InWave, Joined, Locking
<1>6. PoolsInv'
  BY <1>1, <1>2, PoolsQuiet DEF Becomes
<1> QED BY <1>3, <1>4, <1>5, <1>6 DEF CacheInv, PoolsInv

\* RegisterDuplicate keeps the invariant.
LEMMA RegisterDuplicateStep ==
  ASSUME CacheInv, NEW p \in Callers, RegisterDuplicate(p)
  PROVE  CacheInv'
<1>0. /\ EntriesType /\ InitializersType /\ WavesType /\ CallsType
      /\ RegistryType /\ BackendsType /\ Control
  BY Unchanged
<1>1. LET c == call[p] IN
      Becomes(p, "fail", c.refs, c.held, c.wave, c.attempt, c.backend, c.retiring)
  BY <1>0, GotoEffect DEF RegisterDuplicate, Pcs
<1>2. call[p].pc = "register" /\ UNCHANGED <<entries, initializers, waves, registry, backends>>
  BY DEF RegisterDuplicate
<1>3. Types'
  BY <1>1, <1>2, Unchanged DEF Becomes, Types
<1>4. Control'
  BY <1>0, <1>1, <1>2, ControlStep DEF RegisterDuplicate, Becomes, Control, Key, InWave, Joined, Locking
<1>5. WavesCounted' /\ WavesMapped'
  BY <1>1, <1>2, <1>4, WavesOutside DEF Becomes, InWave, Joined, Locking
<1>6. PoolsInv'
  BY <1>1, <1>2, PoolsQuiet DEF Becomes
<1> QED BY <1>3, <1>4, <1>5, <1>6 DEF CacheInv, PoolsInv

\* The holder of the mutex of a wave gives it up and stays a participant.
LEMMA WavesUnlock ==
  ASSUME CacheInv, NEW p \in Callers, NEW w \in WaveIds, call[p].wave = w,
         \A q \in Callers \ {p} : call'[q] = call[q],
         call[p].pc \in Locking, call'[p].pc \in {"leave", "abandon"},
         call'[p].wave = w, call'[p].refs = call[p].refs,
         \A v \in WaveIds \ {w} : waves'[v] = waves[v],
         waves'[w].participants = waves[w].participants,
         waves'[w].owner = None,
         UNCHANGED initializers
  PROVE  WavesCounted' /\ WavesMapped'
<1>1. waves[w].owner = p
  BY DEF CacheInv, WavesCounted
<1>2. None \notin Callers
  BY Constants
<1>3. call[p].pc \in Joined /\ call'[p].pc \in Joined /\ call'[p].pc \notin Locking
  BY DEF Joined, Locking
<1> QED BY <1>1, <1>2, <1>3, WavesInside

\* ProvisionBegin keeps the invariant.
LEMMA ProvisionBeginStep ==
  ASSUME CacheInv, NEW p \in Callers, NEW refs \in Plans, ProvisionBegin(p, refs)
  PROVE  CacheInv'
<1>0. /\ EntriesType /\ InitializersType /\ WavesType /\ CallsType
      /\ RegistryType /\ BackendsType /\ Control
  BY Unchanged
<1>1. Becomes(p, IF refs = <<>> THEN "leased" ELSE "resolve", refs, {}, None, 0, None, {})
  BY <1>0, ProvisionBeginEffect
<1>2. call[p].pc = "idle" /\ UNCHANGED <<entries, initializers, waves, registry, backends>>
  BY DEF ProvisionBegin
<1>3. Types'
  BY <1>1, <1>2, Unchanged DEF Becomes, Types
<1>4. Control'
  BY <1>1, <1>2, ControlStep DEF Becomes, InWave, Joined, Locking
<1>5. WavesCounted' /\ WavesMapped'
  BY <1>1, <1>2, <1>4, WavesOutside DEF Becomes, InWave, Joined, Locking
<1>6. PoolsInv'
  BY <1>0, <1>1, <1>2, PoolsQuiet DEF Becomes, Control
<1> QED BY <1>3, <1>4, <1>5, <1>6 DEF CacheInv, PoolsInv

\* ResolveReuse keeps the invariant.
LEMMA ResolveReuseStep ==
  ASSUME CacheInv, NEW p \in Callers, ResolveReuse(p)
  PROVE  CacheInv'
<1>0. /\ EntriesType /\ InitializersType /\ WavesType /\ CallsType
      /\ RegistryType /\ BackendsType /\ Control
  BY Unchanged
<1>2. /\ call[p].pc = "resolve" /\ Key(p) \in DOMAIN entries /\ Obtain(p, Key(p), "register")
      /\ UNCHANGED <<waves, initializers, registry, backends>>
  BY DEF ResolveReuse
<1>1. LET c == call[p] IN
      Becomes(p, "register", c.refs, c.held \cup {Key(p)}, c.wave, c.attempt,
              entries[Key(p)].backend, c.retiring)
  BY <1>0, <1>2, ObtainEffect DEF Pcs
<1>7. Key(p) \in Keys /\ entries[Key(p)].backend \in Pools
  BY <1>0, <1>2 DEF EntriesType
<1>8. EntriesType'
  BY <1>0, <1>2, <1>7 DEF Obtain, Take, EntriesType
<1>3. Types'
  BY <1>1, <1>2, <1>8, Unchanged DEF Becomes, Types
<1>4. Control'
  BY <1>0, <1>1, <1>2, <1>7, ControlStep, Constants DEF Becomes, Control, Key, InWave, Joined, Locking
<1>5. WavesCounted' /\ WavesMapped'
  BY <1>1, <1>2, <1>4, WavesOutside DEF Becomes, InWave, Joined, Locking
<1>6. PoolsInv'
  BY <1>2, PoolsObtain
<1> QED BY <1>3, <1>4, <1>5, <1>6 DEF CacheInv, PoolsInv

\* Join keeps the invariant.
LEMMA JoinStep ==
  ASSUME CacheInv, NEW p \in Callers, Join(p)
  PROVE  CacheInv'
<1>0. /\ EntriesType /\ InitializersType /\ WavesType /\ CallsType
      /\ RegistryType /\ BackendsType /\ Control
  BY Unchanged
<1>1. PICK w \in WaveIds :
        LET old == IF initializers[Key(p)] # None THEN waves[w] ELSE NoWave IN
        /\ Key(p) \in Keys
        /\ initializers' = [initializers EXCEPT ![Key(p)] = w]
        /\ waves' = [waves EXCEPT ![w] = [old EXCEPT !.participants = @ + 1]]
        /\ Becomes(p, "lock", call[p].refs, call[p].held, w, call[p].attempt,
                   call[p].backend, call[p].retiring)
        /\ UNCHANGED <<entries, registry, backends>>
  BY JoinEffect
<1>2. call[p].pc = "join"
  BY DEF Join
<1>3. Types'
  <2> DEFINE old == IF initializers[Key(p)] # None THEN waves[w] ELSE NoWave
             new == [old EXCEPT !.participants = @ + 1]
             W == [failed : BOOLEAN, participants : Nat, owner : Callers \cup {None}]
  <2>1. old \in W
    BY <1>0 DEF WavesType, NoWave
  <2>2. waves' = [waves EXCEPT ![w] = new]
    BY <1>1
  <2>3. new \in W
    <3> HIDE DEF old
    <3> QED BY <2>1
  <2>4. WavesType'
    <3> HIDE DEF new
    <3> QED BY <1>0, <2>2, <2>3 DEF WavesType
  <2>5. InitializersType'
    BY <1>0, <1>1 DEF InitializersType
  <2> QED BY <1>1, <2>4, <2>5, Unchanged DEF Becomes, Types
<1>4. Control'
  <2>1. w # None
    BY Constants
  <2> QED BY <1>0, <1>1, <1>2, <2>1, ControlStep DEF Becomes, Control, Key, InWave, Joined, Locking
<1>5. WavesCounted' /\ WavesMapped'
  BY WavesJoin
<1>6. PoolsInv'
  BY <1>1, <1>2, PoolsQuiet DEF Becomes
<1> QED BY <1>3, <1>4, <1>5, <1>6 DEF CacheInv, PoolsInv

\* Lock keeps the invariant.
LEMMA LockStep ==
  ASSUME CacheInv, NEW p \in Callers, Lock(p)
  PROVE  CacheInv'
<1>0. /\ EntriesType /\ InitializersType /\ WavesType /\ CallsType
      /\ RegistryType /\ BackendsType /\ Control
  BY Unchanged
<1>1. LET c == call[p] IN
      Becomes(p, "check", c.refs, c.held, c.wave, c.attempt, c.backend, c.retiring)
  BY <1>0, GotoEffect DEF Lock, Pcs
<1>2. call[p].pc = "lock" /\ UNCHANGED <<entries, initializers, registry, backends>>
  BY DEF Lock
<1>7. PICK w \in WaveIds : w = call[p].wave
  BY <1>0, <1>2, InWaveHasWave DEF InWave, Joined, Locking
<1>8. waves[w].owner = None /\ waves' = [waves EXCEPT ![w].owner = p]
  BY <1>7 DEF Lock
<1>3. Types'
  <2>1. WavesType'
    BY <1>0, <1>8 DEF WavesType
  <2> QED BY <1>1, <1>2, <2>1, Unchanged DEF Becomes, Types
<1>4. Control'
  BY <1>0, <1>1, <1>2, ControlStep DEF Becomes, Control, Key, InWave, Joined, Locking
<1>5. WavesCounted' /\ WavesMapped'
  <2>1. /\ \A v \in WaveIds \ {w} : waves'[v] = waves[v]
        /\ waves'[w].participants = waves[w].participants
        /\ waves'[w].owner = p
    BY <1>0, <1>7, <1>8 DEF WavesType
  <2>2. None \notin Callers
    BY Constants
  <2>3. "lock" \in Joined /\ "check" \in Joined /\ "check" \in Locking
    BY DEF Joined, Locking
  <2>4. /\ \A q \in Callers \ {p} : call'[q] = call[q]
        /\ call'[p].pc = "check" /\ call'[p].wave = w /\ call'[p].refs = call[p].refs
    BY <1>1, <1>7 DEF Becomes
  <2> QED BY <1>2, <1>7, <1>8, <2>1, <2>2, <2>3, <2>4, WavesInside
<1>6. PoolsInv'
  BY <1>1, <1>2, PoolsQuiet DEF Becomes
<1> QED BY <1>3, <1>4, <1>5, <1>6 DEF CacheInv, PoolsInv

\* LockedReuse keeps the invariant.
LEMMA LockedReuseStep ==
  ASSUME CacheInv, NEW p \in Callers, LockedReuse(p)
  PROVE  CacheInv'
<1>0. /\ EntriesType /\ InitializersType /\ WavesType /\ CallsType
      /\ RegistryType /\ BackendsType /\ Control
  BY Unchanged
<1>2. /\ call[p].pc = "check" /\ Key(p) \in DOMAIN entries /\ Obtain(p, Key(p), "leave")
      /\ UNCHANGED <<initializers, registry, backends>>
  BY DEF LockedReuse
<1>1. LET c == call[p] IN
      Becomes(p, "leave", c.refs, c.held \cup {Key(p)}, c.wave, c.attempt,
              entries[Key(p)].backend, c.retiring)
  BY <1>0, <1>2, ObtainEffect DEF Pcs
<1>11. Key(p) \in Keys /\ entries[Key(p)].backend \in Pools
  BY <1>0, <1>2 DEF EntriesType
<1>8. EntriesType'
  BY <1>0, <1>2, <1>11 DEF Obtain, Take, EntriesType
<1>7. PICK w \in WaveIds : w = call[p].wave
  BY <1>0, <1>2, InWaveHasWave DEF InWave, Joined, Locking
<1>9. waves' = [waves EXCEPT ![w].owner = None]
  BY <1>7 DEF LockedReuse
<1>10. WavesType'
  BY <1>0, <1>9 DEF WavesType
<1>3. Types'
  BY <1>1, <1>2, <1>8, <1>10, Unchanged DEF Becomes, Types
<1>4. Control'
  BY <1>0, <1>1, <1>2, ControlStep DEF Becomes, Control, Key, InWave, Joined, Locking
<1>5. WavesCounted' /\ WavesMapped'
  <2>1. /\ \A v \in WaveIds \ {w} : waves'[v] = waves[v]
        /\ waves'[w].participants = waves[w].participants
        /\ waves'[w].owner = None
    BY <1>0, <1>7, <1>9 DEF WavesType
  <2>2. /\ \A q \in Callers \ {p} : call'[q] = call[q]
        /\ call'[p].pc \in {"leave", "abandon"}
        /\ call'[p].wave = w /\ call'[p].refs = call[p].refs
    BY <1>1, <1>7 DEF Becomes
  <2>3. call[p].pc \in Locking
    BY <1>2 DEF Locking
  <2> QED BY <1>2, <1>7, <2>1, <2>2, <2>3, WavesUnlock
<1>6. PoolsInv'
  BY <1>2, PoolsObtain
<1> QED BY <1>3, <1>4, <1>5, <1>6 DEF CacheInv, PoolsInv

\* LockedError keeps the invariant.
LEMMA LockedErrorStep ==
  ASSUME CacheInv, NEW p \in Callers, LockedError(p)
  PROVE  CacheInv'
<1>0. /\ EntriesType /\ InitializersType /\ WavesType /\ CallsType
      /\ RegistryType /\ BackendsType /\ Control
  BY Unchanged
<1>1. LET c == call[p] IN
      Becomes(p, "leave", c.refs, c.held, c.wave, c.attempt, None, c.retiring)
  BY <1>0, BackendEffect DEF LockedError, Pcs
<1>2. call[p].pc = "check" /\ UNCHANGED <<entries, initializers, registry, backends>>
  BY DEF LockedError
<1>7. PICK w \in WaveIds : w = call[p].wave
  BY <1>0, <1>2, InWaveHasWave DEF InWave, Joined, Locking
<1>9. waves' = [waves EXCEPT ![w].owner = None]
  BY <1>7 DEF LockedError
<1>10. WavesType'
  BY <1>0, <1>9 DEF WavesType
<1>3. Types'
  BY <1>1, <1>2, <1>10, Unchanged DEF Becomes, Types
<1>4. Control'
  BY <1>0, <1>1, <1>2, ControlStep DEF Becomes, Control, Key, InWave, Joined, Locking
<1>5. WavesCounted' /\ WavesMapped'
  <2>1. /\ \A v \in WaveIds \ {w} : waves'[v] = waves[v]
        /\ waves'[w].participants = waves[w].participants
        /\ waves'[w].owner = None
    BY <1>0, <1>7, <1>9 DEF WavesType
  <2>2. /\ \A q \in Callers \ {p} : call'[q] = call[q]
        /\ call'[p].pc \in {"leave", "abandon"}
        /\ call'[p].wave = w /\ call'[p].refs = call[p].refs
    BY <1>1, <1>7 DEF Becomes
  <2>3. call[p].pc \in Locking
    BY <1>2 DEF Locking
  <2> QED BY <1>2, <1>7, <2>1, <2>2, <2>3, WavesUnlock
<1>6. PoolsInv'
  BY <1>1, <1>2, PoolsQuiet DEF Becomes
<1> QED BY <1>3, <1>4, <1>5, <1>6 DEF CacheInv, PoolsInv

\* BuildFail keeps the invariant.
LEMMA BuildFailStep ==
  ASSUME CacheInv, NEW p \in Callers, BuildFail(p)
  PROVE  CacheInv'
<1>0. /\ EntriesType /\ InitializersType /\ WavesType /\ CallsType
      /\ RegistryType /\ BackendsType /\ Control
  BY Unchanged
<1>1. LET c == call[p] IN
      Becomes(p, "leave", c.refs, c.held, c.wave, c.attempt, None, c.retiring)
  BY <1>0, BackendEffect DEF BuildFail, Pcs
<1>2. call[p].pc = "build" /\ UNCHANGED <<entries, initializers, registry, backends>>
  BY DEF BuildFail
<1>7. PICK w \in WaveIds : w = call[p].wave
  BY <1>0, <1>2, InWaveHasWave DEF InWave, Joined, Locking
<1>9. waves' = [waves EXCEPT ![w].failed = TRUE, ![w].owner = None]
  BY <1>7 DEF BuildFail
<1>10. WavesType'
  BY <1>0, <1>9 DEF WavesType
<1>3. Types'
  BY <1>1, <1>2, <1>10, Unchanged DEF Becomes, Types
<1>4. Control'
  BY <1>0, <1>1, <1>2, ControlStep DEF Becomes, Control, Key, InWave, Joined, Locking
<1>5. WavesCounted' /\ WavesMapped'
  <2>1. /\ \A v \in WaveIds \ {w} : waves'[v] = waves[v]
        /\ waves'[w].participants = waves[w].participants
        /\ waves'[w].owner = None
    BY <1>0, <1>7, <1>9 DEF WavesType
  <2>2. /\ \A q \in Callers \ {p} : call'[q] = call[q]
        /\ call'[p].pc \in {"leave", "abandon"}
        /\ call'[p].wave = w /\ call'[p].refs = call[p].refs
    BY <1>1, <1>7 DEF Becomes
  <2>3. call[p].pc \in Locking
    BY <1>2 DEF Locking
  <2> QED BY <1>2, <1>7, <2>1, <2>2, <2>3, WavesUnlock
<1>6. PoolsInv'
  BY <1>1, <1>2, PoolsQuiet DEF Becomes
<1> QED BY <1>3, <1>4, <1>5, <1>6 DEF CacheInv, PoolsInv

\* LockedMiss keeps the invariant.
LEMMA LockedMissStep ==
  ASSUME CacheInv, NEW p \in Callers, LockedMiss(p)
  PROVE  CacheInv'
<1>0. /\ EntriesType /\ InitializersType /\ WavesType /\ CallsType
      /\ RegistryType /\ BackendsType /\ Control
  BY Unchanged
<1>1. LET c == call[p] IN
      Becomes(p, "build", c.refs, c.held, c.wave, 1, c.backend, c.retiring)
  BY <1>0, LockedMissEffect
<1>2. /\ call[p].pc = "check" /\ Key(p) \notin DOMAIN entries
      /\ UNCHANGED <<entries, initializers, waves, registry, backends>>
  BY DEF LockedMiss
<1>7. PICK w \in WaveIds : w = call[p].wave
  BY <1>0, <1>2, InWaveHasWave DEF InWave, Joined, Locking
<1>3. Types'
  BY <1>1, <1>2, Unchanged DEF Becomes, Types
<1>4. Control'
  BY <1>0, <1>1, <1>2, ControlStep DEF Becomes, Control, Key, InWave, Joined, Locking
<1>5. WavesCounted' /\ WavesMapped'
  <2>1. /\ \A q \in Callers \ {p} : call'[q] = call[q]
        /\ call'[p].pc \in Locking
        /\ call'[p].wave = w /\ call'[p].refs = call[p].refs
    BY <1>1, <1>7 DEF Becomes, Locking
  <2>2. call[p].pc \in Locking /\ Locking \subseteq Joined
    BY <1>2 DEF Locking, Joined
  <2>3. waves[w].owner = p
    BY <1>7, <2>2 DEF CacheInv, WavesCounted
  <2> QED BY <1>2, <1>7, <2>1, <2>2, <2>3, WavesInside
<1>6. PoolsInv'
  BY <1>1, <1>2, PoolsQuiet DEF Becomes, Key
<1> QED BY <1>3, <1>4, <1>5, <1>6 DEF CacheInv, PoolsInv

\* BuildRetry keeps the invariant.
LEMMA BuildRetryStep ==
  ASSUME CacheInv, NEW p \in Callers, BuildRetry(p)
  PROVE  CacheInv'
<1>0. /\ EntriesType /\ InitializersType /\ WavesType /\ CallsType
      /\ RegistryType /\ BackendsType /\ Control
  BY Unchanged
<1>1. LET c == call[p] IN
      Becomes(p, "build", c.refs, c.held, c.wave, c.attempt + 1, c.backend, c.retiring)
  BY <1>0, BuildRetryEffect
<1>2. /\ call[p].pc = "build" /\ Key(p) \notin DOMAIN entries
      /\ UNCHANGED <<entries, initializers, waves, registry, backends>>
  BY DEF BuildRetry, CacheInv, ColdBuilds
<1>7. PICK w \in WaveIds : w = call[p].wave
  BY <1>0, <1>2, InWaveHasWave DEF InWave, Joined, Locking
<1>3. Types'
  BY <1>1, <1>2, Unchanged DEF Becomes, Types
<1>4. Control'
  BY <1>0, <1>1, <1>2, ControlStep DEF Becomes, Control, Key, InWave, Joined, Locking
<1>5. WavesCounted' /\ WavesMapped'
  <2>1. /\ \A q \in Callers \ {p} : call'[q] = call[q]
        /\ call'[p].pc \in Locking
        /\ call'[p].wave = w /\ call'[p].refs = call[p].refs
    BY <1>1, <1>7 DEF Becomes, Locking
  <2>2. call[p].pc \in Locking /\ Locking \subseteq Joined
    BY <1>2 DEF Locking, Joined
  <2>3. waves[w].owner = p
    BY <1>7, <2>2 DEF CacheInv, WavesCounted
  <2> QED BY <1>2, <1>7, <2>1, <2>2, <2>3, WavesInside
<1>6. PoolsInv'
  BY <1>1, <1>2, PoolsQuiet DEF Becomes, Key
<1> QED BY <1>3, <1>4, <1>5, <1>6 DEF CacheInv, PoolsInv

\* BuildOk keeps the invariant.
LEMMA BuildOkStep ==
  ASSUME CacheInv, NEW p \in Callers, BuildOk(p)
  PROVE  CacheInv'
<1>0. /\ EntriesType /\ InitializersType /\ WavesType /\ CallsType
      /\ RegistryType /\ BackendsType /\ Control
  BY Unchanged
<1>1. LET c == call[p] IN
      Becomes(p, "insert", c.refs, c.held, c.wave, c.attempt, Len(backends) + 1, c.retiring)
  BY <1>0, BuildOkEffect
<1>2. /\ call[p].pc = "build" /\ Key(p) \in Keys
      /\ UNCHANGED <<entries, initializers, waves, registry>>
  BY <1>0 DEF BuildOk, Control, InWave, Joined, Locking
<1>7. PICK w \in WaveIds : w = call[p].wave
  BY <1>0, <1>2, InWaveHasWave DEF InWave, Joined, Locking
<1>3. Types'
  <2> DEFINE new == [key |-> Key(p), open |-> TRUE]
  <2>1. new \in [key : Keys, open : BOOLEAN]
    BY <1>2
  <2>2. backends' = Append(backends, new) /\ Len(backends) < MaxBuilds
    BY DEF BuildOk
  <2> HIDE DEF new
  <2>3. BackendsType'
    BY <1>0, <2>1, <2>2, AppendProperties, LenProperties, CacheAssumption DEF BackendsType
  <2> QED BY <1>1, <1>2, <2>3, Unchanged DEF Becomes, Types
<1>4. Control'
  BY <1>0, <1>1, <1>2, ControlStep DEF Becomes, Control, Key, InWave, Joined, Locking
<1>5. WavesCounted' /\ WavesMapped'
  <2>1. /\ \A q \in Callers \ {p} : call'[q] = call[q]
        /\ call'[p].pc \in Locking
        /\ call'[p].wave = w /\ call'[p].refs = call[p].refs
    BY <1>1, <1>7 DEF Becomes, Locking
  <2>2. call[p].pc \in Locking /\ Locking \subseteq Joined
    BY <1>2 DEF Locking, Joined
  <2>3. waves[w].owner = p
    BY <1>7, <2>2 DEF CacheInv, WavesCounted
  <2> QED BY <1>2, <1>7, <2>1, <2>2, <2>3, WavesInside
<1>6. PoolsInv'
  BY PoolsBuildOk
<1> QED BY <1>3, <1>4, <1>5, <1>6 DEF CacheInv, PoolsInv

\* Insert keeps the invariant.
LEMMA InsertStep ==
  ASSUME CacheInv, NEW p \in Callers, Insert(p)
  PROVE  CacheInv'
<1>0. /\ EntriesType /\ InitializersType /\ WavesType /\ CallsType
      /\ RegistryType /\ BackendsType /\ Control
  BY Unchanged
<1>2. /\ call[p].pc = "insert" /\ Key(p) \in Keys \ DOMAIN entries
      /\ call[p].backend \in Pools
      /\ entries' = Put(entries, Key(p), [backend |-> call[p].backend, refcount |-> 1])
      /\ UNCHANGED <<initializers, registry, backends>>
  BY InsertEffect
<1>1. LET c == call[p] IN
      Becomes(p, "leave", c.refs, c.held \cup {Key(p)}, c.wave, c.attempt, c.backend,
              c.retiring)
  BY InsertEffect
<1>7. PICK w \in WaveIds : w = call[p].wave
  BY <1>0, <1>2, InWaveHasWave DEF InWave, Joined, Locking
<1>9. waves' = [waves EXCEPT ![w].owner = None]
  BY <1>7, InsertEffect
<1>10. WavesType'
  BY <1>0, <1>9 DEF WavesType
<1>3. Types'
  <2> DEFINE new == [backend |-> call[p].backend, refcount |-> 1]
  <2>1. new \in [backend : Pools, refcount : Nat \ {0}]
    BY <1>2
  <2>2. entries' = Put(entries, Key(p), new)
    BY <1>2
  <2> HIDE DEF new
  <2>3. EntriesType'
    BY <1>0, <1>2, <2>1, <2>2 DEF EntriesType, Put
  <2> QED BY <1>1, <1>2, <1>10, <2>3, Unchanged DEF Becomes, Types
<1>4. Control'
  BY <1>0, <1>1, <1>2, ControlStep DEF Becomes, Control, Key, InWave, Joined, Locking
<1>5. WavesCounted' /\ WavesMapped'
  <2>1. /\ \A v \in WaveIds \ {w} : waves'[v] = waves[v]
        /\ waves'[w].participants = waves[w].participants
        /\ waves'[w].owner = None
    BY <1>0, <1>7, <1>9 DEF WavesType
  <2>2. /\ \A q \in Callers \ {p} : call'[q] = call[q]
        /\ call'[p].pc \in {"leave", "abandon"}
        /\ call'[p].wave = w /\ call'[p].refs = call[p].refs
    BY <1>1, <1>7 DEF Becomes
  <2>3. call[p].pc \in Locking
    BY <1>2 DEF Locking
  <2> QED BY <1>2, <1>7, <2>1, <2>2, <2>3, WavesUnlock
<1>6. PoolsInv'
  BY PoolsInsert
<1> QED BY <1>3, <1>4, <1>5, <1>6 DEF CacheInv, PoolsInv

\* Leave keeps the invariant.
LEMMA LeaveStep ==
  ASSUME CacheInv, NEW p \in Callers, Leave(p)
  PROVE  CacheInv'
<1>0. /\ EntriesType /\ InitializersType /\ WavesType /\ CallsType
      /\ RegistryType /\ BackendsType /\ Control
  BY Unchanged
<1>2. call[p].pc \in {"leave", "abandon"} /\ UNCHANGED <<entries, initializers, registry, backends>>
  BY DEF Leave
<1>7. PICK w \in WaveIds : w = call[p].wave
  BY <1>0, <1>2, InWaveHasWave DEF InWave, Joined, Locking
<1>1. \E pc \in {"sweep", "abandonsweep", "cancelled", "fail", "register"}, v \in {w, None} :
        /\ Becomes(p, pc, call[p].refs, call[p].held, v, call[p].attempt,
                   call[p].backend, call[p].retiring)
        /\ v = w <=> pc \in {"sweep", "abandonsweep"}
        /\ pc = "register" => call[p].backend # None
        /\ pc \in {"sweep", "register"} => call[p].pc = "leave"
  <2>1. w # None
    BY Constants
  <2>2. CASE waves[w].participants = 1
    BY <1>0, <1>2, <1>7, <2>1, <2>2, LeaveEffect
  <2>3. CASE waves[w].participants # 1
    <3>1. AfterWave(p) \in {"cancelled", "fail", "register"}
      BY AfterWaveType
    <3>2. AfterWave(p) = "register" => call[p].backend # None /\ call[p].pc = "leave"
      BY <1>2 DEF AfterWave
    <3>3. Becomes(p, AfterWave(p), call[p].refs, call[p].held, None, call[p].attempt,
                  call[p].backend, call[p].retiring)
      BY <1>0, <1>7, <2>3, LeaveEffect
    <3> HIDE DEF AfterWave
    <3> QED BY <2>1, <3>1, <3>2, <3>3
  <2> QED BY <2>2, <2>3
<1>8. PICK pc \in {"sweep", "abandonsweep", "cancelled", "fail", "register"}, v \in {w, None} :
        /\ Becomes(p, pc, call[p].refs, call[p].held, v, call[p].attempt,
                   call[p].backend, call[p].retiring)
        /\ v = w <=> pc \in {"sweep", "abandonsweep"}
        /\ pc = "register" => call[p].backend # None
        /\ pc \in {"sweep", "register"} => call[p].pc = "leave"
  BY <1>1
<1>9. waves' = [waves EXCEPT ![w].participants = @ - 1]
  BY <1>7 DEF Leave
<1>3. Types'
  <2>1. waves[w].participants \in Nat \ {0}
    <3>1. p \in Participants(w)
      BY <1>2, <1>7 DEF Participants, Joined
    <3> QED BY <3>1, Counting
  <2> DEFINE n == waves[w].participants - 1
  <2>2. n \in Nat
    BY <2>1
  <2>3. waves' = [waves EXCEPT ![w].participants = n]
    BY <1>9
  <2> HIDE DEF n
  <2>4. WavesType'
    BY <1>0, <2>2, <2>3 DEF WavesType
  <2> QED BY <1>2, <1>8, <2>4, Unchanged DEF Becomes, Types
<1>4. Control'
  <2>1. w # None
    BY Constants
  <2> QED BY <1>0, <1>2, <1>8, <2>1, ControlStep DEF Becomes, Control, Key, InWave, Joined, Locking
<1>5. WavesCounted' /\ WavesMapped'
  BY WavesLeave
<1>6. PoolsInv'
  BY <1>2, <1>8, PoolsQuiet DEF Becomes
<1> QED BY <1>3, <1>4, <1>5, <1>6 DEF CacheInv, PoolsInv

\* Sweep keeps the invariant.
LEMMA SweepStep ==
  ASSUME CacheInv, NEW p \in Callers, Sweep(p)
  PROVE  CacheInv'
<1>0. /\ EntriesType /\ InitializersType /\ WavesType /\ CallsType
      /\ RegistryType /\ BackendsType /\ Control
  BY Unchanged
<1>2. call[p].pc \in {"sweep", "abandonsweep"} /\ UNCHANGED <<entries, waves, registry, backends>>
  BY DEF Sweep
<1>1. PICK pc \in {"cancelled", "fail", "register"} :
        /\ Becomes(p, pc, call[p].refs, call[p].held, None, call[p].attempt,
                   call[p].backend, call[p].retiring)
        /\ pc = "register" => call[p].backend # None /\ call[p].pc = "sweep"
  <2>1. AfterWave(p) \in {"cancelled", "fail", "register"}
    BY AfterWaveType
  <2>2. AfterWave(p) = "register" => call[p].backend # None /\ call[p].pc = "sweep"
    BY <1>2 DEF AfterWave
  <2> QED BY <1>0, <2>1, <2>2, SweepEffect
<1>3. Types'
  <2>1. Key(p) \in Keys
    BY <1>0, <1>2 DEF Control, InWave
  <2>2. InitializersType'
    BY <1>0, <2>1 DEF Sweep, InitializersType
  <2> QED BY <1>1, <1>2, <2>2, Unchanged DEF Becomes, Types
<1>4. Control'
  BY <1>0, <1>1, <1>2, ControlStep DEF Becomes, Control, Key, InWave, Joined, Locking
<1>5. WavesCounted' /\ WavesMapped'
  BY WavesSweep
<1>6. PoolsInv'
  BY <1>1, <1>2, PoolsQuiet DEF Becomes
<1> QED BY <1>3, <1>4, <1>5, <1>6 DEF CacheInv, PoolsInv

\* Register keeps the invariant.
LEMMA RegisterStep ==
  ASSUME CacheInv, NEW p \in Callers, Register(p)
  PROVE  CacheInv'
<1>0. /\ EntriesType /\ InitializersType /\ WavesType /\ CallsType
      /\ RegistryType /\ BackendsType /\ Control
  BY Unchanged
<1>2. call[p].pc = "register" /\ UNCHANGED <<entries, initializers, waves, backends>>
  BY DEF Register
<1>1. PICK pc \in {"leased", "resolve"} :
        /\ Becomes(p, pc, Tail(call[p].refs), call[p].held, call[p].wave, 0, None,
                   call[p].retiring)
        /\ pc = "resolve" => Tail(call[p].refs) # <<>>
  BY <1>0, RegisterEffect
<1>7. registry' = [registry EXCEPT ![p] = Put(registry[p], Name(p), call[p].backend)]
  BY DEF Register
<1>3. Types'
  <2> DEFINE new == Put(registry[p], Name(p), call[p].backend)
  <2>1. call[p].backend \in Pools
    BY <1>0, <1>2, CallFields DEF Control
  <2>2. new \in [DOMAIN new -> Pools]
    BY <1>0, <2>1 DEF RegistryType, Put
  <2>3. registry' = [registry EXCEPT ![p] = new]
    BY <1>7
  <2> HIDE DEF new
  <2>4. RegistryType'
    BY <1>0, <2>2, <2>3 DEF RegistryType
  <2> QED BY <1>1, <1>2, <2>4, Unchanged DEF Becomes, Types
<1>4. Control'
  <2>1. \A q \in Callers \ {p} : registry'[q] = registry[q]
    BY <1>0, <1>7 DEF RegistryType
  <2>2. call[p].wave = None
    BY <1>0, <1>2 DEF Control, InWave, Joined, Locking
  <2> QED BY <1>1, <2>1, <2>2, ControlStep DEF Becomes, InWave, Joined, Locking
<1>5. WavesCounted' /\ WavesMapped'
  BY <1>1, <1>2, <1>4, WavesOutside DEF Becomes, InWave, Joined, Locking
<1>6. PoolsInv'
  BY PoolsRegister
<1> QED BY <1>3, <1>4, <1>5, <1>6 DEF CacheInv, PoolsInv

\* Fail keeps the invariant.
LEMMA FailStep ==
  ASSUME CacheInv, NEW p \in Callers, Fail(p)
  PROVE  CacheInv'
<1>0. /\ EntriesType /\ InitializersType /\ WavesType /\ CallsType
      /\ RegistryType /\ BackendsType /\ Control
  BY Unchanged
<1>1. LET c == call[p] IN
      Becomes(p, "release", c.refs, c.held, c.wave, c.attempt, c.backend, c.retiring)
  BY <1>0, GotoEffect DEF Fail, Pcs
<1>2. call[p].pc = "fail" /\ UNCHANGED <<entries, initializers, waves, backends>>
  BY DEF Fail
<1>7. registry' = [registry EXCEPT ![p] = NoEntries]
  BY DEF Fail
<1>8. /\ \A q \in Callers \ {p} : registry'[q] = registry[q]
      /\ registry'[p] = NoEntries
  BY <1>0, <1>7 DEF RegistryType
<1>3. Types'
  <2>1. NoEntries \in [DOMAIN NoEntries -> Pools]
    BY DEF NoEntries
  <2>2. RegistryType'
    <3> HIDE DEF NoEntries
    <3> QED BY <1>0, <1>7, <2>1 DEF RegistryType
  <2> QED BY <1>1, <1>2, <2>2, Unchanged DEF Becomes, Types
<1>4. Control'
  BY <1>0, <1>1, <1>2, <1>8, ControlStep DEF Becomes, Control, InWave, Joined, Locking
<1>5. WavesCounted' /\ WavesMapped'
  BY <1>1, <1>2, <1>4, WavesOutside DEF Becomes, InWave, Joined, Locking
<1>6. PoolsInv'
  BY <1>2, <1>7, PoolsClear DEF Fail
<1> QED BY <1>3, <1>4, <1>5, <1>6 DEF CacheInv, PoolsInv

\* ReleaseBegin keeps the invariant.
LEMMA ReleaseBeginStep ==
  ASSUME CacheInv, NEW p \in Callers, ReleaseBegin(p)
  PROVE  CacheInv'
<1>0. /\ EntriesType /\ InitializersType /\ WavesType /\ CallsType
      /\ RegistryType /\ BackendsType /\ Control
  BY Unchanged
<1>1. LET c == call[p] IN
      Becomes(p, "release", c.refs, c.held, c.wave, c.attempt, c.backend, c.retiring)
  BY <1>0, GotoEffect DEF ReleaseBegin, Pcs
<1>2. call[p].pc = "leased" /\ UNCHANGED <<entries, initializers, waves, backends>>
  BY DEF ReleaseBegin
<1>7. registry' = [registry EXCEPT ![p] = NoEntries]
  BY DEF ReleaseBegin
<1>8. /\ \A q \in Callers \ {p} : registry'[q] = registry[q]
      /\ registry'[p] = NoEntries
  BY <1>0, <1>7 DEF RegistryType
<1>3. Types'
  <2>1. NoEntries \in [DOMAIN NoEntries -> Pools]
    BY DEF NoEntries
  <2>2. RegistryType'
    <3> HIDE DEF NoEntries
    <3> QED BY <1>0, <1>7, <2>1 DEF RegistryType
  <2> QED BY <1>1, <1>2, <2>2, Unchanged DEF Becomes, Types
<1>4. Control'
  BY <1>0, <1>1, <1>2, <1>8, ControlStep DEF Becomes, Control, InWave, Joined, Locking
<1>5. WavesCounted' /\ WavesMapped'
  BY <1>1, <1>2, <1>4, WavesOutside DEF Becomes, InWave, Joined, Locking
<1>6. PoolsInv'
  BY <1>2, <1>7, PoolsClear DEF ReleaseBegin
<1> QED BY <1>3, <1>4, <1>5, <1>6 DEF CacheInv, PoolsInv

\* Release keeps the invariant.
LEMMA ReleaseStep ==
  ASSUME CacheInv, NEW p \in Callers, NEW k \in Keys, Release(p, k)
  PROVE  CacheInv'
<1>0. /\ EntriesType /\ InitializersType /\ WavesType /\ CallsType
      /\ RegistryType /\ BackendsType /\ Control
  BY Unchanged
<1>1. /\ call[p].pc = "release" /\ k \in call[p].held /\ k \in DOMAIN entries
      /\ entries' = IF Unheld(k) THEN [j \in DOMAIN entries \ {k} |-> entries[j]]
                    ELSE [entries EXCEPT ![k].refcount = @ - 1]
      /\ Becomes(p, "release", call[p].refs, call[p].held \ {k}, call[p].wave,
                 call[p].attempt, call[p].backend,
                 IF Unheld(k) THEN call[p].retiring \cup {entries[k].backend}
                 ELSE call[p].retiring)
      /\ UNCHANGED <<initializers, waves, registry, backends>>
  BY ReleaseEffect
<1>2. call[p].pc = "release"
  BY <1>1
<1>3. Types'
  <2>1. EntriesType'
    <3>1. entries[k].refcount \in Nat \ {0}
      BY <1>0, <1>1 DEF EntriesType
    <3>2. CASE Unheld(k)
      BY <1>0, <1>1, <3>2 DEF EntriesType
    <3>3. CASE ~Unheld(k)
      <4> DEFINE n == entries[k].refcount - 1
      <4>1. n \in Nat \ {0}
        BY <3>1, <3>3 DEF Unheld
      <4>2. entries' = [entries EXCEPT ![k].refcount = n]
        BY <1>1, <3>3
      <4> HIDE DEF n
      <4> QED BY <1>0, <1>1, <4>1, <4>2 DEF EntriesType
    <3> QED BY <3>2, <3>3
  <2> QED BY <1>1, <2>1, Unchanged DEF Becomes, Types
<1>4. Control'
  BY <1>0, <1>1, ControlStep DEF Becomes, Control, InWave, Joined, Locking
<1>5. WavesCounted' /\ WavesMapped'
  BY <1>1, <1>2, <1>4, WavesOutside DEF Becomes, InWave, Joined, Locking
<1>6. PoolsInv'
  BY PoolsRelease
<1> QED BY <1>3, <1>4, <1>5, <1>6 DEF CacheInv, PoolsInv

\* Retire keeps the invariant.
LEMMA RetireStep ==
  ASSUME CacheInv, NEW p \in Callers, NEW b \in Pools, Retire(p, b)
  PROVE  CacheInv'
<1>0. /\ EntriesType /\ InitializersType /\ WavesType /\ CallsType
      /\ RegistryType /\ BackendsType /\ Control
  BY Unchanged
<1>1. LET c == call[p] IN
      Becomes(p, "release", c.refs, c.held, c.wave, c.attempt, c.backend, c.retiring \ {b})
  BY <1>0, RetireEffect
<1>2. call[p].pc = "release" /\ UNCHANGED <<entries, initializers, waves, registry>>
  BY DEF Retire
<1>3. Types'
  <2>1. /\ backends \in [1..Len(backends) -> [key : Keys, open : BOOLEAN]]
        /\ Len(backends) \in Nat /\ DOMAIN backends = 1..Len(backends)
    BY <1>0, LenProperties DEF BackendsType
  <2>2. backends' = [backends EXCEPT ![b].open = FALSE]
    BY DEF Retire
  <2>3. b \in DOMAIN backends /\ backends[b].key \in Keys
    <3>1. b \in DOMAIN backends
      BY DEF Retire, CacheInv, RetiringGone
    <3> QED BY <2>1, <3>1
  <2>4. [backends[b] EXCEPT !.open = FALSE] \in [key : Keys, open : BOOLEAN]
    BY <2>1, <2>3
  <2>5. backends' \in Seq([key : Keys, open : BOOLEAN])
    BY <1>0, <2>2, <2>3, <2>4, ExceptSeq DEF BackendsType
  <2>6. Len(backends') = Len(backends)
    BY <1>0, <2>2, <2>3, <2>4, ExceptSeq DEF BackendsType
  <2>7. BackendsType'
    BY <1>0, <2>5, <2>6 DEF BackendsType
  <2> QED BY <1>1, <1>2, <2>7, Unchanged DEF Becomes, Types
<1>4. Control'
  BY <1>0, <1>1, <1>2, ControlStep DEF Becomes, Control, Key, InWave, Joined, Locking
<1>5. WavesCounted' /\ WavesMapped'
  BY <1>1, <1>2, <1>4, WavesOutside DEF Becomes, InWave, Joined, Locking
<1>6. PoolsInv'
  BY PoolsRetire
<1> QED BY <1>3, <1>4, <1>5, <1>6 DEF CacheInv, PoolsInv

\* Released keeps the invariant.
LEMMA ReleasedStep ==
  ASSUME CacheInv, NEW p \in Callers, Released(p)
  PROVE  CacheInv'
<1>0. /\ EntriesType /\ InitializersType /\ WavesType /\ CallsType
      /\ RegistryType /\ BackendsType /\ Control
  BY Unchanged
<1>1. Becomes(p, "idle", <<>>, {}, None, 0, None, {})
  BY <1>0, ReleasedEffect
<1>2. /\ call[p].pc = "release" /\ call[p].held = {} /\ call[p].retiring = {}
      /\ UNCHANGED <<entries, initializers, waves, registry, backends>>
  BY DEF Released
<1>3. Types'
  BY <1>1, <1>2, Unchanged DEF Becomes, Types
<1>4. Control'
  BY <1>0, <1>1, <1>2, ControlStep DEF Becomes, Control, Key, InWave, Joined, Locking
<1>5. WavesCounted' /\ WavesMapped'
  BY <1>1, <1>2, <1>4, WavesOutside DEF Becomes, InWave, Joined, Locking
<1>6. PoolsInv'
  BY <1>1, <1>2, PoolsQuiet DEF Becomes
<1> QED BY <1>3, <1>4, <1>5, <1>6 DEF CacheInv, PoolsInv

\* Cancel keeps the invariant.
LEMMA CancelStep ==
  ASSUME CacheInv, NEW p \in Callers, Cancel(p)
  PROVE  CacheInv'
<1>0. /\ EntriesType /\ InitializersType /\ WavesType /\ CallsType
      /\ RegistryType /\ BackendsType /\ Control
  BY Unchanged
<1>a. UNCHANGED <<entries, initializers, registry, backends>>
  BY DEF Cancel
<1>b. CASE call[p].pc = "release"
  <2>1. LET c == call[p] IN
        Becomes(p, "cancelled", c.refs, c.held, c.wave, c.attempt, c.backend, c.retiring)
    BY <1>0, <1>b, GotoEffect DEF Cancel, Pcs
  <2>2. UNCHANGED waves
    BY <1>b DEF Cancel
  <2>3. Types'
    BY <1>a, <2>1, <2>2, Unchanged DEF Becomes, Types
  <2>4. Control'
    BY <1>0, <1>a, <1>b, <2>1, ControlStep DEF Becomes, Control, InWave, Joined, Locking
  <2>5. WavesCounted' /\ WavesMapped'
    BY <1>a, <1>b, <2>1, <2>2, <2>4, WavesOutside DEF Becomes, InWave, Joined, Locking
  <2>6. PoolsInv'
    BY <1>a, <1>b, <2>1, PoolsQuiet DEF Becomes
  <2> QED BY <2>3, <2>4, <2>5, <2>6 DEF CacheInv, PoolsInv
<1>c. CASE call[p].pc \in {"lock", "build"}
  <2>1. LET c == call[p] IN
        Becomes(p, "abandon", c.refs, c.held, c.wave, c.attempt, c.backend, c.retiring)
    BY <1>0, <1>c, GotoEffect DEF Cancel, Pcs
  <2>2. PICK w \in WaveIds : w = call[p].wave
    BY <1>0, <1>c, InWaveHasWave DEF InWave, Joined, Locking
  <2>3. waves' = IF waves[w].owner = p THEN [waves EXCEPT ![w].owner = None] ELSE waves
    BY <1>c, <2>2 DEF Cancel
  <2>4. Types'
    <3>1. WavesType'
      BY <1>0, <2>3 DEF WavesType
    <3> QED BY <1>a, <2>1, <3>1, Unchanged DEF Becomes, Types
  <2>5. Control'
    BY <1>0, <1>a, <1>c, <2>1, ControlStep DEF Becomes, Control, Key, InWave, Joined, Locking
  <2>6. PoolsInv'
    BY <1>a, <1>c, <2>1, PoolsQuiet DEF Becomes
  <2>7. /\ \A q \in Callers \ {p} : call'[q] = call[q]
        /\ call'[p].pc = "abandon" /\ call'[p].wave = w /\ call'[p].refs = call[p].refs
    BY <2>1, <2>2 DEF Becomes
  <2>8. waves[w].owner = p <=> call[p].pc \in Locking
    BY <2>2 DEF CacheInv, WavesCounted
  <2>9. CASE call[p].pc = "lock"
    <3>1. UNCHANGED waves /\ waves[w].owner # p
      BY <2>3, <2>8, <2>9 DEF Locking
    <3>2. "lock" \in Joined /\ "abandon" \in Joined /\ "abandon" \notin Locking
      BY DEF Joined, Locking
    <3>3. WavesCounted' /\ WavesMapped'
      BY <1>a, <2>2, <2>7, <2>9, <3>1, <3>2, WavesInside
    <3> QED BY <2>4, <2>5, <2>6, <3>3 DEF CacheInv, PoolsInv
  <2>10. CASE call[p].pc = "build"
    <3>1. call[p].pc \in Locking
      BY <2>10 DEF Locking
    <3>2. waves' = [waves EXCEPT ![w].owner = None]
      BY <2>3, <2>8, <3>1
    <3>3. /\ \A v \in WaveIds \ {w} : waves'[v] = waves[v]
          /\ waves'[w].participants = waves[w].participants
          /\ waves'[w].owner = None
      BY <1>0, <3>2 DEF WavesType
    <3>4. WavesCounted' /\ WavesMapped'
      BY <1>a, <2>2, <2>7, <3>1, <3>3, WavesUnlock
    <3> QED BY <2>4, <2>5, <2>6, <3>4 DEF CacheInv, PoolsInv
  <2> QED BY <1>c, <2>9, <2>10
<1> QED BY <1>b, <1>c DEF Cancel

\* A step that leaves every variable alone.
LEMMA StutterStep ==
  ASSUME CacheInv, UNCHANGED vars
  PROVE  CacheInv'
<1>1. Types'
  BY Unchanged DEF vars, Types, CallsType
<1>2. Control'
  BY DEF CacheInv, Control, Key, vars
<1>3. WavesCounted'
  BY DEF CacheInv, WavesCounted, Participants, vars
<1>4. WavesMapped'
  BY DEF CacheInv, WavesMapped, ErrorsNotSticky, Key, vars
<1>5. ColdBuilds' /\ RefcountsExact' /\ RetiringGone' /\ NoPoolLost'
  BY DEF CacheInv, ColdBuilds, RefcountsExact, RetiringGone, NoPoolLost, Key, vars
<1>6. PoolsOpen' /\ InUse'
  BY DEF CacheInv, PoolsOpen, InUse, Key, vars
<1> QED BY <1>1, <1>2, <1>3, <1>4, <1>5, <1>6 DEF CacheInv

-----------------------------------------------------------------------------
(* The theorems                                                            *)

\* The invariant holds at the start.
LEMMA InvInit == Init => CacheInv
<1> SUFFICES ASSUME Init PROVE CacheInv
  OBVIOUS
<1>1. /\ DOMAIN entries = {} /\ backends = <<>> /\ DOMAIN backends = {}
      /\ \A p \in Callers : call[p] = NoCall /\ registry[p] = NoEntries
      /\ \A k \in Keys : initializers[k] = None
      /\ \A w \in WaveIds : waves[w] = NoWave
  BY EmptySeq DEF Init, NoEntries
<1>2. Types
  <2>1. EntriesType
    BY <1>1 DEF EntriesType, Init, NoEntries
  <2>2. InitializersType /\ WavesType
    BY DEF Init, InitializersType, WavesType, NoWave
  <2>3. CallsType
    BY DEF Init, CallsType, Calls, NoCall, Pcs
  <2>4. RegistryType
    BY DEF Init, RegistryType, NoEntries
  <2>5. BackendsType
    BY <1>1, CacheAssumption, EmptySeq DEF BackendsType
  <2> QED BY <2>1, <2>2, <2>3, <2>4, <2>5 DEF Types
<1>3. Control
  BY <1>1 DEF Control, NoCall, InWave, Joined, Locking
<1>4. WavesCounted
  <2>1. \A w \in WaveIds : Participants(w) = {}
    BY <1>1 DEF Participants, NoCall, Joined, Locking
  <2>2. \A w \in WaveIds : waves[w].participants = Cardinality(Participants(w))
    <3>1. \A w \in WaveIds : Cardinality(Participants(w)) = 0
      BY <2>1, FS_EmptySet
    <3>2. NoWave.participants = 0
      BY DEF NoWave
    <3> QED BY <1>1, <3>1, <3>2
  <2> QED BY <1>1, <2>2, Constants DEF WavesCounted, NoWave, NoCall, Locking
<1>5. WavesMapped
  BY <1>1 DEF WavesMapped, ErrorsNotSticky, NoCall, Joined, Locking
<1>6. RefcountsExact
  <2>1. \A k \in Keys : Holders(k) = {}
    BY <1>1 DEF Holders, NoCall
  <2>2. \A k \in Keys : Cardinality(Holders(k)) = 0
    BY <2>1, FS_EmptySet
  <2> QED BY <1>1, <2>2 DEF RefcountsExact, Holders
<1>7. ColdBuilds /\ PoolsOpen /\ RetiringGone /\ NoPoolLost
  BY <1>1 DEF ColdBuilds, PoolsOpen, RetiringGone, NoPoolLost, NoCall
<1>8. InUse
  BY <1>1 DEF InUse, NoEntries, NoCall
<1> QED BY <1>2, <1>3, <1>4, <1>5, <1>6, <1>7, <1>8 DEF CacheInv

\* Every step of the specification keeps the invariant.
LEMMA InvNext == CacheInv /\ [Next]_vars => CacheInv'
<1> SUFFICES ASSUME CacheInv, [Next]_vars PROVE CacheInv'
  OBVIOUS
<1>1. CASE UNCHANGED vars
  BY <1>1, StutterStep
<1>2. ASSUME NEW p \in Callers, Step(p) PROVE CacheInv'
  <2>1. ASSUME NEW k \in Keys, Release(p, k) PROVE CacheInv'
    BY <2>1, ReleaseStep
  <2>2. ASSUME NEW b \in 1..MaxBuilds, Retire(p, b) PROVE CacheInv'
    BY <2>2, RetireStep DEF Pools
  <2> QED
    BY <1>2, <2>1, <2>2, ResolveInvalidStep, ResolveReuseStep, ResolveMissStep,
       JoinStep, LockedReuseStep, LockedErrorStep, LockedMissStep, BuildOkStep,
       BuildRetryStep, BuildFailStep, InsertStep, LeaveStep, SweepStep, RegisterStep,
       RegisterDuplicateStep, FailStep, ReleasedStep DEF Step
<1>3. ASSUME NEW p \in Callers, Lock(p) PROVE CacheInv'
  BY <1>3, LockStep
<1>4. ASSUME NEW p \in Callers, Cancel(p) PROVE CacheInv'
  BY <1>4, CancelStep
<1>5. ASSUME NEW p \in Callers, ReleaseBegin(p) PROVE CacheInv'
  BY <1>5, ReleaseBeginStep
<1>6. ASSUME NEW p \in Callers, NEW refs \in Plans, ProvisionBegin(p, refs) PROVE CacheInv'
  BY <1>6, ProvisionBeginStep
<1> QED BY <1>1, <1>2, <1>3, <1>4, <1>5, <1>6 DEF Next

\* The strengthened invariant of the cache (store-lifecycle/src/lib.rs): what every
\* caller, wave and pool is in between any two steps.
THEOREM CacheInvariant == Spec => []CacheInv
<1>1. Init => CacheInv
  BY InvInit
<1>2. CacheInv /\ [Next]_vars => CacheInv'
  BY InvNext
<1> QED BY <1>1, <1>2, PTL DEF Spec

\* BackendCache's refcounts are exact for any number of callers and keys: the
\* count of an entry is the number of calls and leases that hold it, and a key that
\* somebody holds is in the cache.
THEOREM RefcountsAreExact == Spec => []RefcountsExact
<1>1. CacheInv => RefcountsExact
  BY DEF CacheInv
<1> QED BY <1>1, CacheInvariant, PTL

\* For any number of callers, keys and builds: no pool is retired while a registry
\* hands it out, cold builds of a key never overlap, no open pool is forgotten, and
\* a failed build's error goes with its wave.
THEOREM PoolsAreSound == Spec => []PoolsSound
<1>1. CacheInv => PoolsSound
  <2> SUFFICES ASSUME CacheInv PROVE PoolsSound
    OBVIOUS
  <2>1. TypeOK
    <3>1. /\ EntriesType /\ InitializersType /\ WavesType /\ CallsType
          /\ RegistryType /\ BackendsType
      BY Unchanged
    <3>2. \A k \in DOMAIN entries : entries[k] \in [backend : Pools, refcount : Nat \ {0}]
      BY <3>1 DEF EntriesType
    <3>3. \A p \in Callers : \A n \in DOMAIN registry[p] : registry[p][n] \in Pools
      BY <3>1 DEF RegistryType
    <3>4. DOMAIN entries \subseteq Keys /\ Len(backends) <= MaxBuilds
      BY <3>1 DEF EntriesType, BackendsType
    <3> QED BY <3>1, <3>2, <3>3, <3>4, CallFields DEF TypeOK, InitializersType, WavesType
  <2>2. NoUseAfterRetire
    <3>1. InUse /\ PoolsOpen
      BY DEF CacheInv
    <3>2. ASSUME NEW k \in DOMAIN entries PROVE backends[entries[k].backend].open
      <4>1. backends[entries[k].backend] = [key |-> k, open |-> TRUE]
        BY <3>1 DEF PoolsOpen
      <4> QED BY <4>1
    <3> QED BY <3>1, <3>2 DEF InUse, NoUseAfterRetire
  <2>3. SingleFlight
    <3>1. \A p \in Callers : call[p].pc = "insert" => Key(p) \notin DOMAIN entries
      BY DEF CacheInv, ColdBuilds
    <3>2. {"build", "insert"} \subseteq Locking
      BY DEF Locking
    <3> QED BY <3>1, <3>2, OneBuilder DEF SingleFlight
  <2>4. NoPoolLost /\ ErrorsNotSticky
    BY DEF CacheInv, WavesMapped
  <2> QED BY <2>1, <2>2, <2>3, <2>4 DEF PoolsSound, PoolsAccounted
<1> QED BY <1>1, CacheInvariant, PTL

-----------------------------------------------------------------------------
(* The cache implements the pool                                           *)

Current == [k \in Keys |-> IF k \in DOMAIN entries THEN entries[k].backend ELSE None]
HeldBy == [k \in Keys |-> {p \in Callers : k \in call[p].held}]

\* A step that takes or gives up no key and touches no pool is invisible.
LEMMA Invisible ==
  ASSUME DOMAIN entries' = DOMAIN entries,
         \A k \in DOMAIN entries : entries'[k].backend = entries[k].backend,
         \A q \in Callers : call'[q].held = call[q].held,
         UNCHANGED backends
  PROVE  UNCHANGED Pool!poolVars
<1>1. Current' = Current
  BY DEF Current
<1>2. HeldBy' = HeldBy
  BY DEF HeldBy
<1> QED BY <1>1, <1>2 DEF Pool!poolVars, Current, HeldBy

\* A reuse shares the pool.
LEMMA ObtainShares ==
  ASSUME CacheInv, NEW p \in Callers, NEW k \in DOMAIN entries,
         NEW pc \in Pcs, Obtain(p, k, pc), UNCHANGED backends
  PROVE  Pool!Next
<1>1. EntriesType /\ CallsType
  BY Unchanged
<1>2. /\ \A q \in Callers \ {p} : call'[q] = call[q]
      /\ call'[p].held = call[p].held \cup {k}
  BY <1>1, ObtainEffect DEF Becomes
<1>3. k \in Keys /\ entries[k].backend \in Pools
  BY <1>1 DEF EntriesType
<1>4. /\ DOMAIN entries' = DOMAIN entries
      /\ \A j \in DOMAIN entries : entries'[j].backend = entries[j].backend
  <2>1. entries' = IF k \in call[p].held THEN entries
                   ELSE [entries EXCEPT ![k].refcount = @ + 1]
    BY DEF Obtain, Take
  <2> QED BY <1>1, <2>1 DEF EntriesType
<1>5. Current' = Current /\ Current[k] # None
  BY <1>3, <1>4, Constants DEF Current
<1>6. HeldBy' = [HeldBy EXCEPT ![k] = @ \cup {p}]
  BY <1>2, <1>3 DEF HeldBy
<1>7. Pool!Share(p, k)
  BY <1>5, <1>6 DEF Pool!Share, Current, HeldBy
<1> QED BY <1>3, <1>7 DEF Pool!Next

\* A build adds a pool that serves nobody yet.
LEMMA BuildOkBuilds ==
  ASSUME CacheInv, NEW p \in Callers, BuildOk(p)
  PROVE  Pool!Next
<1>1. CallsType /\ BackendsType /\ Control
  BY Unchanged
<1>2. \A q \in Callers : call'[q].held = call[q].held
  BY <1>1, BuildOkEffect DEF Becomes
<1>3. Key(p) \in Keys /\ UNCHANGED entries
  BY <1>1 DEF BuildOk, Control, InWave, Joined, Locking
<1>4. Current' = Current /\ HeldBy' = HeldBy
  BY <1>2, <1>3 DEF Current, HeldBy
<1>5. Pool!Build(Key(p))
  BY <1>4 DEF Pool!Build, BuildOk, Current, HeldBy
<1> QED BY <1>3, <1>5 DEF Pool!Next

\* The builder's insertion installs its pool: the place is free and the pool open.
LEMMA InsertInstalls ==
  ASSUME CacheInv, NEW p \in Callers, Insert(p)
  PROVE  Pool!Next
<1>1. PICK k \in Keys, b \in Pools :
        /\ k = Key(p) /\ b = call[p].backend /\ k \notin DOMAIN entries
        /\ entries' = Put(entries, k, [backend |-> b, refcount |-> 1])
        /\ call[p].pc = "insert"
        /\ UNCHANGED backends
  BY InsertEffect
<1>2. /\ \A q \in Callers \ {p} : call'[q] = call[q]
      /\ call'[p].held = call[p].held \cup {k}
  BY <1>1, InsertEffect DEF Becomes
<1>3. Holders(k) = {}
  <2>1. Cardinality(Holders(k)) = 0
    BY <1>1 DEF CacheInv, RefcountsExact, Holders
  <2> QED BY <2>1, HoldersFinite, FS_EmptySet
<1>4. b \in DOMAIN backends /\ backends[b] = [key |-> k, open |-> TRUE]
  BY <1>1 DEF CacheInv, PoolsOpen
<1>5. Current[k] = None /\ Current' = [Current EXCEPT ![k] = b]
  BY <1>1 DEF Current, Put
<1>6. HeldBy' = [HeldBy EXCEPT ![k] = {p}]
  <2>1. Holders(k)' = {p}
    BY <1>2, <1>3 DEF Holders
  <2>2. \A j \in Keys \ {k} : Holders(j)' = Holders(j)
    BY <1>2 DEF Holders
  <2>3. HeldBy = [j \in Keys |-> Holders(j)] /\ HeldBy' = [j \in Keys |-> Holders(j)']
    BY DEF HeldBy, Holders
  <2> QED BY <2>1, <2>2, <2>3
<1>7. Pool!Install(p, k, b)
  BY <1>1, <1>4, <1>5, <1>6 DEF Pool!Install, Current, HeldBy
<1> QED BY <1>4, <1>7 DEF Pool!Next

\* A release drops the holder, and the last one takes the pool out of service.
LEMMA ReleaseDrops ==
  ASSUME CacheInv, NEW p \in Callers, NEW k \in Keys, Release(p, k)
  PROVE  Pool!Next
<1>1. /\ k \in call[p].held /\ k \in DOMAIN entries
      /\ entries' = IF Unheld(k) THEN [j \in DOMAIN entries \ {k} |-> entries[j]]
                    ELSE [entries EXCEPT ![k].refcount = @ - 1]
      /\ UNCHANGED backends
  BY ReleaseEffect
<1>2. /\ \A q \in Callers \ {p} : call'[q] = call[q]
      /\ call'[p].held = call[p].held \ {k}
  BY ReleaseEffect DEF Becomes
<1>3. EntriesType
  BY Unchanged
<1>4. /\ entries[k].refcount = Cardinality(Holders(k)) /\ p \in Holders(k)
      /\ entries[k].refcount \in Nat \ {0}
  BY <1>1, <1>3 DEF CacheInv, RefcountsExact, Holders, EntriesType
<1>5. Unheld(k) <=> Holders(k) = {p}
  <2>1. Holders(k) = {p} => Cardinality(Holders(k)) = 1
    BY FS_Singleton
  <2>2. Cardinality(Holders(k)) = 1 => Holders(k) = {p}
    <3> SUFFICES ASSUME Cardinality(Holders(k)) = 1 PROVE Holders(k) = {p}
      OBVIOUS
    <3>1. PICK x : Holders(k) = {x}
      BY HoldersFinite, FS_Singleton
    <3> QED BY <1>4, <3>1
  <2> QED BY <1>4, <2>1, <2>2 DEF Unheld
<1>6. /\ Unheld(k) => DOMAIN entries' = DOMAIN entries \ {k}
      /\ ~Unheld(k) => DOMAIN entries' = DOMAIN entries
      /\ \A j \in DOMAIN entries' : entries'[j].backend = entries[j].backend
  BY <1>1, <1>3 DEF EntriesType
<1>7. Current' = [Current EXCEPT ![k] = IF Unheld(k) THEN None ELSE @]
  BY <1>1, <1>6 DEF Current
<1>8. HeldBy' = [HeldBy EXCEPT ![k] = @ \ {p}]
  BY <1>2 DEF HeldBy
<1>9. HeldBy[k] = Holders(k)
  BY DEF HeldBy, Holders
<1>10. Pool!Drop(p, k)
  BY <1>1, <1>4, <1>5, <1>7, <1>8, <1>9 DEF Pool!Drop, Current, HeldBy
<1> QED BY <1>10 DEF Pool!Next

\* A pool is retired after it has left the cache.
LEMMA RetireRetires ==
  ASSUME CacheInv, NEW p \in Callers, NEW b \in Pools, Retire(p, b)
  PROVE  Pool!Next
<1>1. CallsType
  BY Unchanged
<1>2. \A q \in Callers : call'[q].held = call[q].held
  BY <1>1, RetireEffect DEF Becomes
<1>3. b \in DOMAIN backends /\ \A k \in DOMAIN entries : entries[k].backend # b
  BY DEF Retire, CacheInv, RetiringGone
<1>4. /\ backends' = [backends EXCEPT ![b].open = FALSE]
      /\ UNCHANGED entries
  BY DEF Retire
<1>5. Current' = Current /\ HeldBy' = HeldBy
  BY <1>2, <1>4 DEF Current, HeldBy
<1>6. \A k \in Keys : Current[k] # b
  BY <1>3, Constants DEF Current
<1>7. Pool!Retire(b)
  BY <1>3, <1>4, <1>5, <1>6 DEF Pool!Retire, Current, HeldBy
<1> QED BY <1>3, <1>7 DEF Pool!Next

\* Every step of the cache is a step of the pool, or invisible in it.
LEMMA PoolStep ==
  ASSUME CacheInv, [Next]_vars
  PROVE  [Pool!Next]_(Pool!poolVars)
<1>0. CallsType /\ Control /\ BackendsType
  BY Unchanged
<1> DEFINE Hidden == /\ UNCHANGED <<entries, backends>>
                     /\ \A q \in Callers : call'[q].held = call[q].held
<1>h. Hidden => UNCHANGED Pool!poolVars
  BY Invisible
<1>1. CASE UNCHANGED vars
  BY <1>1, <1>h DEF vars
<1>2. ASSUME NEW p \in Callers, Step(p) PROVE Pool!Next \/ Hidden
  <2>1. CASE ResolveInvalid(p) \/ ResolveMiss(p) \/ RegisterDuplicate(p) \/ Fail(p)
    BY <1>0, <2>1, GotoEffect
       DEF ResolveInvalid, ResolveMiss, RegisterDuplicate, Fail, Becomes, Pcs
  <2>2. CASE ResolveReuse(p)
    BY <2>2, ObtainShares DEF ResolveReuse, Pcs
  <2>3. CASE Join(p)
    BY <2>3, JoinEffect DEF Becomes
  <2>4. CASE LockedReuse(p)
    BY <2>4, ObtainShares DEF LockedReuse, Pcs
  <2>5. CASE LockedError(p) \/ BuildFail(p)
    BY <1>0, <2>5, BackendEffect DEF LockedError, BuildFail, Becomes, Pcs
  <2>6. CASE LockedMiss(p)
    BY <1>0, <2>6, LockedMissEffect DEF LockedMiss, Becomes
  <2>7. CASE BuildOk(p)
    BY <2>7, BuildOkBuilds
  <2>8. CASE BuildRetry(p)
    BY <1>0, <2>8, BuildRetryEffect DEF BuildRetry, Becomes
  <2>9. CASE Insert(p)
    BY <2>9, InsertInstalls
  <2>10. CASE Leave(p)
    BY <1>0, <2>10, LeaveEffect DEF Leave, Becomes
  <2>11. CASE Sweep(p)
    BY <1>0, <2>11, SweepEffect DEF Sweep, Becomes
  <2>12. CASE Register(p)
    BY <1>0, <2>12, RegisterEffect DEF Register, Becomes
  <2>13. ASSUME NEW k \in Keys, Release(p, k) PROVE Pool!Next
    BY <2>13, ReleaseDrops
  <2>14. ASSUME NEW b \in 1..MaxBuilds, Retire(p, b) PROVE Pool!Next
    BY <2>14, RetireRetires DEF Pools
  <2>15. CASE Released(p)
    BY <1>0, <2>15, ReleasedEffect DEF Released, Becomes
  <2> HIDE DEF Hidden
  <2> QED
    BY <1>2, <2>1, <2>2, <2>3, <2>4, <2>5, <2>6, <2>7, <2>8, <2>9, <2>10, <2>11, <2>12,
       <2>13, <2>14, <2>15 DEF Step
<1>3. ASSUME NEW p \in Callers, Lock(p) \/ Cancel(p) \/ ReleaseBegin(p) PROVE Hidden
  BY <1>0, <1>3, GotoEffect DEF Lock, Cancel, ReleaseBegin, Becomes, Pcs
<1>4. ASSUME NEW p \in Callers, NEW refs \in Plans, ProvisionBegin(p, refs) PROVE Hidden
  <2>1. call[p].held = {}
    BY <1>0, <1>4 DEF ProvisionBegin, Control
  <2> QED BY <1>0, <1>4, <2>1, ProvisionBeginEffect DEF ProvisionBegin, Becomes
<1> HIDE DEF Hidden
<1> QED BY <1>1, <1>2, <1>3, <1>4, <1>h DEF Next

\* The refcounted, singleflight cache implements the abstract pool (BackendPool):
\* at most one pool serves a key, its holders share it, and it is retired only
\* after the last of them has let go.
THEOREM CacheImplementsPool == Spec => ImplementsPool
<1>1. Init => Pool!Init
  <2> SUFFICES ASSUME Init PROVE Pool!Init
    OBVIOUS
  <2>1. Current = [k \in Keys |-> None] /\ HeldBy = [k \in Keys |-> {}]
    BY DEF Init, NoEntries, NoCall, Current, HeldBy
  <2> QED BY <2>1 DEF Init, Pool!Init, Current, HeldBy
<1>2. CacheInv /\ [Next]_vars => [Pool!Next]_(Pool!poolVars)
  BY PoolStep
<1> QED BY <1>1, <1>2, CacheInvariant, PTL DEF Spec, ImplementsPool, Pool!Spec

=============================================================================
