------------------------------- MODULE Ledger -------------------------------
(***************************************************************************)
(* The in-process sliding-window reservation ledger of the                 *)
(* token_rate_limit filter (filters/src/token_rate_limit/ledger.rs).       *)
(*                                                                         *)
(* Worker threads call reserve, reconcile and cleanup concurrently.  What  *)
(* they share is                                                           *)
(*   - `keys`, a DashMap from a budget key to an Arc<Mutex<KeyState>>.  A  *)
(*     reserve keeps its shard read guard until it returns, a cleanup its  *)
(*     shard write guard while it reaps, a reconcile only clones the Arc;  *)
(*   - `reservations`, a DashMap from a reservation id to its key;         *)
(*   - the atomics next_id, key_count and active_reservations.             *)
(* One action below is one access to shared state, so that the steps of    *)
(* different threads interleave between the accesses.  What a thread does  *)
(* to a KeyState while it holds its mutex is one step, because no other    *)
(* thread can see the intermediate states.                                 *)
(*                                                                         *)
(* An Arc is a cell number.  A cell is free, and may be allocated again,   *)
(* when neither `keys` nor a thread refers to it.  Two keys that share a   *)
(* DashMap shard only block each other more often: no thread asks for a    *)
(* shard guard of `keys` while it holds one, so shards are per key here.   *)
(***************************************************************************)
EXTENDS Integers, Sequences, FiniteSets, FiniteSetsExt, SequencesExt, Functions

CONSTANTS
  Threads,              \* worker threads of the process
  Keys,                 \* valid budget keys (non-empty, at most max_key_length)
  Estimates,            \* token estimates a request may carry; 0 is refused
  Actuals,              \* token counts a response may report
  None,                 \* no value: Option::None
  Budgets,              \* the rule's budgets, [window_ms, capacity] records
  ReservationTimeout,   \* reservation_timeout_ms
  MaxKeys,              \* max_keys
  MaxActive,            \* max_active_reservations
  ScanLimit,            \* keys one cleanup looks at (CLEANUP_SCAN_LIMIT)
  MaxClock,             \* bound: the clock stops here
  MaxId                 \* bound: reservations made in one behaviour

\* LedgerConfig::validate accepts only these configurations.
ValidConfig ==
  /\ Budgets # {} /\ IsFiniteSet(Budgets)
  /\ \A b \in Budgets : b.window_ms \in Nat \ {0} /\ b.capacity \in Nat \ {0}
  /\ ReservationTimeout \in Nat \ {0}
  /\ MaxKeys \in Nat \ {0}
  /\ MaxActive \in Nat \ {0}

ASSUME ConfigAssumption == ValidConfig

ASSUME DomainAssumption ==
  /\ Estimates \subseteq Nat
  /\ Actuals \subseteq Nat
  /\ ScanLimit \in Nat
  /\ MaxClock \in Nat
  /\ MaxId \in Nat
  /\ IsFiniteSet(Threads)
  /\ IsFiniteSet(Keys)
  /\ None \notin Nat
  /\ None \notin Keys
  /\ None \notin {"reserve", "reconcile", "cleanup", "Noop"}

VARIABLES
  clock,                \* the filter's monotonic clock, in milliseconds
  keys,                 \* keys[k]: the cell the map holds for k, or None
  cells,                \* cells[c]: the KeyState behind the Arc c
  reservations,         \* id -> key, for every id that can be reconciled
  next_id,
  key_count,
  active_reservations,
  op,                   \* op[t]: the call thread t is in, with its locals
  charge                \* history: id -> what that admission has cost so far

vars == <<clock, keys, cells, reservations, next_id, key_count,
          active_reservations, op, charge>>

-----------------------------------------------------------------------------
(* KeyState                                                                *)

Ids == 1..MaxId
Cells == 1..(Cardinality(Keys) + Cardinality(Threads))

SatSub(a, b) == IF a >= b THEN a - b ELSE 0

MaxWindow == Max({b.window_ms : b \in Budgets})

NoEntries == [x \in {} |-> None]

\* HashMap::insert and DashMap::insert.
Inserted(map, id, value) ==
  [x \in DOMAIN map \cup {id} |-> IF x = id THEN value ELSE map[x]]

EmptyState == [settled |-> <<>>, active |-> NoEntries]

\* Neither usage nor a reservation: the key may be dropped.
IsEmpty(state) == DOMAIN state.active = {} /\ state.settled = <<>>

\* Defect: a reservation times out one millisecond early.
ExpiredEarly(state, now) ==
  {id \in DOMAIN state.active :
     SatSub(now, state.active[id].created_at_ms) + 1 >= ReservationTimeout}

\* The reservations a reap at `now` gives up on.
Expired(state, now) ==
  {id \in DOMAIN state.active :
     SatSub(now, state.active[id].created_at_ms) >= ReservationTimeout}

\* Defect: usage leaves the queue one millisecond before it leaves the window.
PopExpiredEarly(settled, now) ==
  LET live == {i \in DOMAIN settled : SatSub(now, settled[i].at_ms) + 1 < MaxWindow}
  IN  IF live = {} THEN <<>> ELSE SubSeq(settled, Min(live), Len(settled))

\* Usage leaves from the front of the queue only: an expired entry behind a
\* live one stays.
PopExpired(settled, now) ==
  LET live == {i \in DOMAIN settled : SatSub(now, settled[i].at_ms) < MaxWindow}
  IN  IF live = {} THEN <<>> ELSE SubSeq(settled, Min(live), Len(settled))

\* The states KeyState::reap may leave.  The expired reservations are charged
\* at their admission time, in the arbitrary order of the HashMap.
Reap(state, now) ==
  LET expired == Expired(state, now)
  IN  {[settled |-> PopExpired(
                      state.settled \o
                        [i \in DOMAIN order |->
                           [at_ms  |-> state.active[order[i]].created_at_ms,
                            tokens |-> state.active[order[i]].estimate]],
                      now),
        active  |-> Restrict(state.active, DOMAIN state.active \ expired)] :
       order \in SetToSeqs(expired)}

\* What the settled usage inside the window sums to; usage newer than `now` counts.
SettledUsage(settled, now, window) ==
  SumFunctionOnSet([i \in DOMAIN settled |-> settled[i].tokens],
                   {i \in DOMAIN settled : SatSub(now, settled[i].at_ms) < window})

ActiveUsage(active) ==
  SumFunctionOnSet([id \in DOMAIN active |-> active[id].estimate], DOMAIN active)

UsageInWindow(state, now, window) ==
  SettledUsage(state.settled, now, window) + ActiveUsage(state.active)

\* Some budget does not have room for the estimate.
Exhausted(state, estimate, now) ==
  \E b \in Budgets :
    UsageInWindow(state, now, b.window_ms) + estimate > b.capacity

\* The reservation becomes usage of what the response cost, at its admission time.
Settle(state, id, tokens) ==
  [settled |-> Append(state.settled,
                      [at_ms  |-> state.active[id].created_at_ms,
                       tokens |-> tokens]),
   active  |-> Restrict(state.active, DOMAIN state.active \ {id})]

-----------------------------------------------------------------------------
(* Calls                                                                   *)

\* Where a thread holds which lock, by the access it makes next.
ReserveGuard == {"lock", "forget", "uncount", "admit", "publish"}
CleanupGuard == {"lock", "forget", "uncount"}
MutexHeld    == {"forget", "uncount", "admit", "publish"}

NoCall == [call |-> None, pc |-> "idle", key |-> None, now |-> 0,
           tokens |-> None, id |-> None, cell |-> None, expired |-> {},
           todo |-> {}, result |-> None]

\* A cell lives as long as `keys` or a thread refers to it.
Referenced(c) == \/ \E k \in Keys : keys[k] = c
                 \/ \E t \in Threads : op[t].cell = c

Locked(c) == \E t \in Threads : op[t].cell = c /\ op[t].pc \in MutexHeld

\* A shard guard on k held by a reserve (shared) or by a cleanup (exclusive).
Guarded(k, call, pcs) ==
  \E t \in Threads : op[t].call = call /\ op[t].key = k /\ op[t].pc \in pcs

\* A reserve holds a shared guard: nobody may write k's shard.
SharedOn(k) == Guarded(k, "reserve", ReserveGuard)

\* Defect: a cleanup keeps its RefMut while it calls remove_if.
ExclusiveOnLonger(k) == Guarded(k, "cleanup", CleanupGuard \cup {"remove"})

ExclusiveOn(k) == Guarded(k, "cleanup", CleanupGuard)

Goto(t, pc) == op' = [op EXCEPT ![t].pc = pc]

\* The call returns: locks, guards and Arcs are dropped.
Return(t, result) ==
  op' = [op EXCEPT ![t] = [NoCall EXCEPT !.call = op[t].call, !.pc = "done",
                                         !.id = op[t].id, !.result = result]]

\* The history notes what the reservations in `ids` were settled at.
Record(ids, tokens) ==
  charge' = [id \in DOMAIN charge |->
               IF id \in ids
               THEN [charge[id] EXCEPT !.tokens = tokens[id], !.settled = TRUE]
               ELSE charge[id]]

Init ==
  /\ clock = 0
  /\ keys = [k \in Keys |-> None]
  /\ cells = [c \in Cells |-> EmptyState]
  /\ reservations = NoEntries
  /\ next_id = 1
  /\ key_count = 0
  /\ active_reservations = 0
  /\ op = [t \in Threads |-> NoCall]
  /\ charge = NoEntries

\* The steps every call ends with.  A caller drops its result before it calls
\* again.
Leave(t) ==
  /\ op[t].pc = "done"
  /\ op' = [op EXCEPT ![t] = NoCall]
  /\ UNCHANGED <<clock, keys, cells, reservations, next_id, key_count,
                 active_reservations, charge>>

Tick ==
  /\ clock < MaxClock
  /\ clock' = clock + 1
  /\ UNCHANGED <<keys, cells, reservations, next_id, key_count,
                 active_reservations, op, charge>>

-----------------------------------------------------------------------------
(* reserve                                                                 *)

\* The caller reads the clock before it calls; `now` may be stale by the time
\* the thread holds the mutex.  An invalid key is refused like estimate 0.
ReserveBegin(t, k, estimate) ==
  /\ op[t].pc = "idle"
  /\ next_id + Cardinality({u \in Threads : op[u].call = "reserve"}) <= MaxId
  /\ op' = [op EXCEPT ![t] =
              IF estimate = 0
              THEN [NoCall EXCEPT !.call = "reserve", !.pc = "done",
                                  !.result = "InvalidKey"]
              ELSE [NoCall EXCEPT !.call = "reserve", !.pc = "lookup",
                                  !.key = k, !.tokens = estimate, !.now = clock]]
  /\ UNCHANGED <<clock, keys, cells, reservations, next_id, key_count,
                 active_reservations, charge>>

\* keys.get(key): the Ref is kept.
ReserveLookup(t) ==
  LET k == op[t].key IN
  /\ op[t].call = "reserve" /\ op[t].pc = "lookup"
  /\ keys[k] # None
  /\ ~ExclusiveOn(k)
  /\ op' = [op EXCEPT ![t].pc = "lock", ![t].cell = keys[k]]
  /\ UNCHANGED <<clock, keys, cells, reservations, next_id, key_count,
                 active_reservations, charge>>

\* keys.entry(key) is vacant: count the key and insert an empty KeyState under
\* the shard guard, then look it up again.
ReserveInsert(t) ==
  LET k == op[t].key IN
  /\ op[t].call = "reserve" /\ op[t].pc = "lookup"
  /\ keys[k] = None
  /\ key_count < MaxKeys
  /\ \E c \in Cells :
       /\ ~Referenced(c) /\ \A x \in 1..(c - 1) : Referenced(x)
       /\ keys' = [keys EXCEPT ![k] = c]
       /\ cells' = [cells EXCEPT ![c] = EmptyState]
  /\ key_count' = key_count + 1
  /\ UNCHANGED <<clock, reservations, next_id, active_reservations, op, charge>>

ReserveKeyCapacity(t) ==
  /\ op[t].call = "reserve" /\ op[t].pc = "lookup"
  /\ keys[op[t].key] = None
  /\ key_count >= MaxKeys
  /\ Return(t, "KeyCapacity")
  /\ UNCHANGED <<clock, keys, cells, reservations, next_id, key_count,
                 active_reservations, charge>>

\* Reap the cell of op[t] at op[t].now.  Every call does this under the mutex.
ReapCell(t, c, state) ==
  \E reaped \in Reap(state, op[t].now) :
    /\ cells' = [cells EXCEPT ![c] = reaped]
    /\ op' = [op EXCEPT ![t].pc = "forget",
                        ![t].cell = c,
                        ![t].expired = Expired(state, op[t].now)]

ReserveLock(t) ==
  LET c == op[t].cell IN
  /\ op[t].call = "reserve" /\ op[t].pc = "lock"
  /\ ~Locked(c)
  /\ ReapCell(t, c, cells[c])
  /\ Record(Expired(cells[c], op[t].now), [id \in DOMAIN charge |-> charge[id].estimate])
  /\ UNCHANGED <<clock, keys, reservations, next_id, key_count, active_reservations>>

\* reservations.remove(id) for every expired id, then one fetch_sub.  reserve
\* and cleanup share these steps.
Forget(t) ==
  /\ op[t].call \in {"reserve", "cleanup"} /\ op[t].pc = "forget"
  /\ reservations' = Restrict(reservations, DOMAIN reservations \ op[t].expired)
  /\ Goto(t, "uncount")
  /\ UNCHANGED <<clock, keys, cells, next_id, key_count, active_reservations, charge>>

ReserveUncount(t) ==
  /\ op[t].call = "reserve" /\ op[t].pc = "uncount"
  /\ active_reservations' = active_reservations - Cardinality(op[t].expired)
  /\ IF Exhausted(cells[op[t].cell], op[t].tokens, op[t].now)
     THEN Return(t, "WindowCapacity")
     ELSE op' = [op EXCEPT ![t].pc = "admit", ![t].expired = {}]
  /\ UNCHANGED <<clock, keys, cells, reservations, next_id, key_count, charge>>

ReserveAdmit(t) ==
  /\ op[t].call = "reserve" /\ op[t].pc = "admit"
  /\ active_reservations < MaxActive
  /\ active_reservations' = active_reservations + 1
  /\ next_id' = next_id + 1
  /\ cells' = [cells EXCEPT ![op[t].cell].active =
                 Inserted(@, next_id, [estimate |-> op[t].tokens,
                                       created_at_ms |-> op[t].now])]
  /\ op' = [op EXCEPT ![t].pc = "publish", ![t].id = next_id]
  /\ charge' = Inserted(charge, next_id,
                 [key |-> op[t].key, at |-> op[t].now, estimate |-> op[t].tokens,
                  tokens |-> op[t].tokens, settled |-> FALSE])
  /\ UNCHANGED <<clock, keys, reservations, key_count>>

ReserveCapacity(t) ==
  /\ op[t].call = "reserve" /\ op[t].pc = "admit"
  /\ active_reservations >= MaxActive
  /\ Return(t, "ReservationCapacity")
  /\ UNCHANGED <<clock, keys, cells, reservations, next_id, key_count,
                 active_reservations, charge>>

\* The id becomes reconcilable, then the mutex and the Ref are dropped.
ReservePublish(t) ==
  /\ op[t].call = "reserve" /\ op[t].pc = "publish"
  /\ reservations' = Inserted(reservations, op[t].id, op[t].key)
  /\ Return(t, "Admitted")
  /\ UNCHANGED <<clock, keys, cells, next_id, key_count, active_reservations, charge>>

-----------------------------------------------------------------------------
(* reconcile                                                               *)

\* reservations.remove(&id): only the caller that finds the id goes on.
ReconcileTake(t, id, actual) ==
  /\ op[t].pc = "idle"
  /\ IF id \in DOMAIN reservations
     THEN op' = [op EXCEPT ![t] = [NoCall EXCEPT
                   !.call = "reconcile", !.pc = "lookup", !.id = id,
                   !.key = reservations[id], !.tokens = actual, !.now = clock]]
     ELSE op' = [op EXCEPT ![t] = [NoCall EXCEPT
                   !.call = "reconcile", !.pc = "done", !.id = id,
                   !.result = "Noop"]]
  /\ reservations' = Restrict(reservations, DOMAIN reservations \ {id})
  /\ UNCHANGED <<clock, keys, cells, next_id, key_count, active_reservations, charge>>

\* keys.get(&key) clones the Arc; the guard is gone when the statement ends.
ReconcileLookup(t) ==
  LET k == op[t].key IN
  /\ op[t].call = "reconcile" /\ op[t].pc = "lookup"
  /\ ~ExclusiveOn(k)
  /\ IF keys[k] = None
     THEN Return(t, "Noop")
     ELSE op' = [op EXCEPT ![t].pc = "lock", ![t].cell = keys[k]]
  /\ UNCHANGED <<clock, keys, cells, reservations, next_id, key_count,
                 active_reservations, charge>>

\* Settle the id at its actual cost (its estimate when none is reported), then
\* reap; a reservation already reaped leaves nothing to settle.
ReconcileLock(t) ==
  LET c  == op[t].cell
      id == op[t].id
  IN
  /\ op[t].call = "reconcile" /\ op[t].pc = "lock"
  /\ ~Locked(c)
  /\ IF id \notin DOMAIN cells[c].active
     THEN /\ Return(t, "Noop")
          /\ UNCHANGED <<cells, active_reservations, charge>>
     ELSE LET actual == IF op[t].tokens = None
                        THEN cells[c].active[id].estimate ELSE op[t].tokens
              state == Settle(cells[c], id, actual)
          IN  /\ active_reservations' = active_reservations - 1
              /\ ReapCell(t, c, state)
              /\ Record({id} \cup Expired(state, op[t].now),
                        [i \in DOMAIN charge |->
                           IF i = id THEN actual ELSE charge[i].estimate])
  /\ UNCHANGED <<clock, keys, reservations, next_id, key_count>>

\* The expired ids go one at a time, each with its own fetch_sub.
ReconcileForget(t, id) ==
  /\ op[t].call = "reconcile" /\ op[t].pc = "forget"
  /\ id \in op[t].expired
  /\ reservations' = Restrict(reservations, DOMAIN reservations \ {id})
  /\ op' = [op EXCEPT ![t].pc = "uncount", ![t].expired = @ \ {id}]
  /\ UNCHANGED <<clock, keys, cells, next_id, key_count, active_reservations, charge>>

\* Defect: the reservations a reconcile reaps are never given back.
ReconcileUncountMissing(t) ==
  /\ op[t].call = "reconcile" /\ op[t].pc = "uncount"
  /\ Goto(t, "forget")
  /\ UNCHANGED <<clock, keys, cells, reservations, next_id, key_count,
                 active_reservations, charge>>

ReconcileUncount(t) ==
  /\ op[t].call = "reconcile" /\ op[t].pc = "uncount"
  /\ active_reservations' = active_reservations - 1
  /\ Goto(t, "forget")
  /\ UNCHANGED <<clock, keys, cells, reservations, next_id, key_count, charge>>

ReconcileUnlock(t) ==
  /\ op[t].call = "reconcile" /\ op[t].pc = "forget"
  /\ op[t].expired = {}
  /\ Return(t, "Applied")
  /\ UNCHANGED <<clock, keys, cells, reservations, next_id, key_count,
                 active_reservations, charge>>

-----------------------------------------------------------------------------
(* cleanup                                                                 *)

PresentKeys == {k \in Keys : keys[k] # None}

\* keys.iter().take(n): as many keys as there are, up to the limit.  Which ones
\* depends on the hash order of the map.
CleanupBegin(t) ==
  /\ op[t].pc = "idle"
  /\ \E scan \in kSubset(Min({ScanLimit, Cardinality(PresentKeys)}), PresentKeys) :
       op' = [op EXCEPT ![t] = [NoCall EXCEPT
                !.call = "cleanup", !.pc = "next", !.todo = scan, !.now = clock]]
  /\ UNCHANGED <<clock, keys, cells, reservations, next_id, key_count,
                 active_reservations, charge>>

\* keys.get_mut(&key), or on to the next key when it is gone.
CleanupNext(t, k) ==
  /\ op[t].call = "cleanup" /\ op[t].pc = "next"
  /\ k \in op[t].todo
  /\ ~SharedOn(k) /\ ~ExclusiveOn(k)
  /\ op' = [op EXCEPT ![t] =
              IF keys[k] = None
              THEN [op[t] EXCEPT !.todo = @ \ {k}]
              ELSE [op[t] EXCEPT !.todo = @ \ {k}, !.pc = "lock",
                                 !.key = k, !.cell = keys[k]]]
  /\ UNCHANGED <<clock, keys, cells, reservations, next_id, key_count,
                 active_reservations, charge>>

CleanupLock(t) ==
  LET c == op[t].cell IN
  /\ op[t].call = "cleanup" /\ op[t].pc = "lock"
  /\ ~Locked(c)
  /\ ReapCell(t, c, cells[c])
  /\ Record(Expired(cells[c], op[t].now), [id \in DOMAIN charge |-> charge[id].estimate])
  /\ UNCHANGED <<clock, keys, reservations, next_id, key_count, active_reservations>>

\* Back to the loop head; the Arc clone is dropped.
NextKey(t) ==
  op' = [op EXCEPT ![t] = [op[t] EXCEPT !.pc = "next", !.key = None,
                                        !.cell = None, !.expired = {}]]

\* fetch_sub, look whether the state is empty, drop the mutex and the guard.
CleanupUncount(t) ==
  /\ op[t].call = "cleanup" /\ op[t].pc = "uncount"
  /\ active_reservations' = active_reservations - Cardinality(op[t].expired)
  /\ IF IsEmpty(cells[op[t].cell])
     THEN op' = [op EXCEPT ![t].pc = "remove", ![t].expired = {}]
     ELSE NextKey(t)
  /\ UNCHANGED <<clock, keys, cells, reservations, next_id, key_count, charge>>

\* keys.remove_if: the entry goes only if it still is the same Arc and still
\* empty.  The closure waits for the mutex under the shard guard; a reconcile
\* that holds it needs no guard to finish, so this is one step.
CleanupRemove(t) ==
  LET k == op[t].key
      c == op[t].cell
  IN
  /\ op[t].call = "cleanup" /\ op[t].pc = "remove"
  /\ ~SharedOn(k) /\ ~ExclusiveOn(k)
  /\ keys[k] = c => ~Locked(c)
  /\ IF keys[k] = c /\ IsEmpty(cells[c])
     THEN /\ keys' = [keys EXCEPT ![k] = None]
          /\ Goto(t, "dropkey")
     ELSE /\ NextKey(t)
          /\ UNCHANGED keys
  /\ UNCHANGED <<clock, cells, reservations, next_id, key_count,
                 active_reservations, charge>>

\* The entry is gone: one key less.
CleanupDropKey(t) ==
  /\ op[t].call = "cleanup" /\ op[t].pc = "dropkey"
  /\ key_count' = key_count - 1
  /\ NextKey(t)
  /\ UNCHANGED <<clock, keys, cells, reservations, next_id, active_reservations, charge>>

CleanupEnd(t) ==
  /\ op[t].call = "cleanup" /\ op[t].pc = "next"
  /\ op[t].todo = {}
  /\ Return(t, None)
  /\ UNCHANGED <<clock, keys, cells, reservations, next_id, key_count,
                 active_reservations, charge>>

-----------------------------------------------------------------------------

\* What a thread does inside a call, once it is in one.
Step(t) ==
  \/ ReserveLookup(t) \/ ReserveInsert(t) \/ ReserveKeyCapacity(t)
  \/ ReserveLock(t) \/ ReserveUncount(t) \/ ReserveAdmit(t)
  \/ ReserveCapacity(t) \/ ReservePublish(t)
  \/ Forget(t)
  \/ ReconcileLookup(t) \/ ReconcileLock(t)
  \/ (\E id \in Ids : ReconcileForget(t, id))
  \/ ReconcileUncount(t) \/ ReconcileUnlock(t)
  \/ (\E k \in Keys : CleanupNext(t, k))
  \/ CleanupLock(t) \/ CleanupUncount(t) \/ CleanupRemove(t)
  \/ CleanupDropKey(t) \/ CleanupEnd(t)
  \/ Leave(t)

\* The ids that reserve has returned to a caller.
Issued == {id \in DOMAIN charge :
             ~\E t \in Threads : op[t].pc = "publish" /\ op[t].id = id}

Begin(t) ==
  \/ \E k \in Keys, e \in Estimates : ReserveBegin(t, k, e)
  \/ \E id \in Issued, a \in Actuals \cup {None} : ReconcileTake(t, id, a)
  \/ CleanupBegin(t)

Next == Tick \/ \E t \in Threads : Begin(t) \/ Step(t)

Spec == Init /\ [][Next]_vars

-----------------------------------------------------------------------------
(* Properties                                                              *)

Usages == [at_ms : Nat, tokens : Nat]
ActiveReservations == [estimate : Nat, created_at_ms : Nat]
Charges == [key : Keys, at : Nat, estimate : Nat, tokens : Nat, settled : BOOLEAN]

\* A function from some of the ids to values in T.
PartialFunction(f, T) == DOMAIN f \subseteq Ids /\ \A id \in DOMAIN f : f[id] \in T

Calls == [call : {None, "reserve", "reconcile", "cleanup"},
          pc : {"idle", "lookup", "lock", "forget", "uncount", "admit", "publish",
                "next", "remove", "dropkey", "done"},
          key : Keys \cup {None}, now : Nat, tokens : Nat \cup {None},
          id : Ids \cup {None}, cell : Cells \cup {None},
          expired : SUBSET Ids, todo : SUBSET Keys,
          result : {None, "InvalidKey", "KeyCapacity", "WindowCapacity",
                    "ReservationCapacity", "Admitted", "Applied", "Noop"}]

\* The shared maps and atomics of the Ledger hold values of their Rust types;
\* in particular no fetch_sub takes an unsigned counter below zero.
TypeOK ==
  /\ clock \in 0..MaxClock
  /\ keys \in [Keys -> Cells \cup {None}]
  /\ DOMAIN cells = Cells
  /\ \A c \in Cells : /\ cells[c].settled \in Seq(Usages)
                      /\ PartialFunction(cells[c].active, ActiveReservations)
  /\ PartialFunction(reservations, Keys)
  /\ next_id \in 1..(MaxId + 1)
  /\ key_count \in Nat
  /\ active_reservations \in Nat
  /\ op \in [Threads -> Calls]
  /\ PartialFunction(charge, Charges)

\* The promise of the component, read off the history of admissions.
Promise == INSTANCE ReservationBudget

\* The ledger implements the promise: every step of every thread is an atomic
\* admission, a settlement or invisible.
ImplementsPromise == Promise!Spec

\* No admission is ever forgotten or charged twice: whatever calls race, and
\* however stale their clocks, the KeyState that the map holds for a key sums
\* to exactly what was admitted on it and is still inside the window.
NoUsageLost ==
  \A k \in Keys, b \in Budgets :
    Promise!Charged(k, b.window_ms) =
      (IF keys[k] = None THEN 0
       ELSE UsageInWindow(cells[keys[k]], clock, b.window_ms))

\* Admission is atomic across threads and budgets: what was admitted inside a
\* window never exceeds the capacity.  Only what responses cost above their
\* estimate (the overage reconcile applies) may.
NeverOversold == Promise!NeverOversold

\* A cell that remove_if took out of the map, or that no key holds yet, carries
\* no usage: nobody ever charges a KeyState that admissions no longer read.
DetachedCellsEmpty ==
  \A c \in Cells : (\A k \in Keys : keys[k] # c) => IsEmpty(cells[c])

\* The reservations in KeyStates, and those that a thread has removed from one
\* and not yet taken off the counter.
Active == {p \in Cells \X Ids : p[2] \in DOMAIN cells[p[1]].active}
Reaped == {p \in Threads \X Ids : p[2] \in op[p[1]].expired}
Forgotten == {t \in Threads : op[t].call = "reconcile" /\ op[t].pc = "uncount"}

\* The atomics agree with the maps up to the decrements still under way, so
\* capacity is neither leaked nor handed out twice, and both limits hold for
\* the maps themselves.
CountersExact ==
  /\ active_reservations =
       Cardinality(Active) + Cardinality(Reaped) + Cardinality(Forgotten)
  /\ key_count = Cardinality(PresentKeys)
                   + Cardinality({t \in Threads : op[t].pc = "dropkey"})
  /\ Cardinality(Active) <= MaxActive
  /\ Cardinality(PresentKeys) <= MaxKeys

\* An id stays in `reservations` only while its reservation is active, or while
\* the thread that reaped it is about to remove it; a reservation that is
\* active is there, or is in the hands of one thread.  So a finished request
\* leaves no entry behind and an unfinished one can be reconciled.
ReservationsTracked ==
  /\ \A id \in DOMAIN reservations :
       \/ \E k \in Keys : /\ k = reservations[id] /\ keys[k] # None
                          /\ id \in DOMAIN cells[keys[k]].active
       \/ \E t \in Threads : /\ id \in op[t].expired
                            /\ (op[t].pc = "forget" \/ op[t].call = "reconcile")
  /\ \A c \in Cells : \A id \in DOMAIN cells[c].active :
       \/ id \in DOMAIN reservations
       \/ \E t \in Threads : op[t].id = id /\ op[t].pc \in {"publish", "lookup", "lock"}

\* reconcile answers Noop only when the reservation is settled, or when another
\* thread is settling it: no actual cost is dropped.
NoopMeansSettled ==
  \A t \in Threads :
    op[t].result = "Noop" =>
      \/ charge[op[t].id].settled
      \/ \E u \in Threads \ {t} : /\ op[u].call = "reconcile" /\ op[u].id = op[t].id
                                  /\ op[u].pc \in {"lookup", "lock"}

\* The ledger's locks are never waited for in a circle: while some call is
\* unfinished, some unfinished call can take a step.
NoLockCycle ==
  (\E t \in Threads : op[t].pc # "idle") =>
    \E t \in Threads : op[t].pc # "idle" /\ ENABLED Step(t)

\* What the ledger counts is what was admitted, and what was admitted fits.
UsageExact == NoUsageLost /\ NeverOversold

\* The bookkeeping beside the KeyStates is exact in every interleaving: the maps
\* and atomics have their types, detached cells are empty, both counters and the
\* id map agree with the cells, and a Noop answer drops no cost.
Bookkeeping ==
  /\ TypeOK
  /\ DetachedCellsEmpty
  /\ CountersExact
  /\ ReservationsTracked
  /\ NoopMeansSettled

=============================================================================
