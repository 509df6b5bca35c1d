------------------------- MODULE TokenBucketLedger -------------------------
(***************************************************************************)
(* The in-process token-bucket ledger of the token_rate_limit filter       *)
(* (filters/src/token_rate_limit/token_bucket_ledger.rs).                  *)
(*                                                                         *)
(* Its maps, locks and counters are those of ledger.rs, which module       *)
(* Ledger follows access by access.  Here a call's critical section (from  *)
(* taking a key's mutex to dropping it) is one step, and the steps of      *)
(* different threads interleave between the critical sections, the clock   *)
(* reading a caller took before it, and remove_if.                         *)
(*                                                                         *)
(* A balance is an f64 number of tokens.  It is an integer number of       *)
(* units here, Unit units to the token, so that a refill of a fraction of  *)
(* a token is exact; the rounding of f64 is left out.                      *)
(***************************************************************************)
EXTENDS Integers, FiniteSets

CONSTANTS
  Threads,
  Keys,                 \* valid budget keys
  Estimates,            \* token estimates a request may carry; 0 is refused
  Actuals,              \* token counts a response may report
  None,                 \* no value: Option::None
  Capacity,             \* tokens a bucket holds at most
  Unit,                 \* units in a token
  RefillPerMs,          \* refill_rate, in units per millisecond
  ReservationTimeout,   \* reservation_timeout_ms
  MaxKeys,              \* max_keys
  MaxActive,            \* max_active_reservations
  ScanLimit,            \* keys one cleanup looks at
  MaxClock,             \* bound: the clock stops here
  MaxId                 \* bound: reservations made in one behaviour

\* validate_capacity_and_refill_rate and TokenBucketConfig::validate.
ValidConfig ==
  /\ Capacity \in Nat \ {0}
  /\ Unit \in Nat \ {0}
  /\ RefillPerMs \in Nat \ {0}
  /\ ReservationTimeout \in Nat \ {0}
  /\ MaxKeys \in Nat \ {0}
  /\ MaxActive \in Nat \ {0}

ASSUME BucketAssumption == ValidConfig

ASSUME InputAssumption ==
  /\ Estimates \subseteq Nat
  /\ Actuals \subseteq Nat
  /\ ScanLimit \in Nat
  /\ MaxClock \in Nat
  /\ MaxId \in Nat
  /\ None \notin Nat /\ None # "WindowCapacity"

VARIABLES
  clock,                \* the filter's monotonic clock
  keys,                 \* the keys the map holds
  bucket,               \* bucket[k]: the BucketState of k; a new one if k is not held
  reservations,         \* the ids that can be reconciled, as [id, key] pairs
  next_id,
  key_count,
  active_reservations,
  op,                   \* op[t]: the call thread t is in
  granted               \* history: what k was granted net of refunds, in units:
                        \* ever, and since a refill time that Observe picks

vars == <<clock, keys, bucket, reservations, next_id, key_count,
          active_reservations, op, granted>>

-----------------------------------------------------------------------------
(* BucketState                                                             *)

Full == Capacity * Unit

AtMost(a, b)  == IF a <= b THEN a ELSE b
SatSub(a, b)  == IF a >= b THEN a - b ELSE 0

NewBucket == [tokens |-> Full, last_refill_ms |-> 0, active |-> {}]

\* Defect: a refill does not move last_refill_ms.
RefillForgetsTime(b, now) ==
  IF now > b.last_refill_ms
  THEN [b EXCEPT !.tokens = AtMost(@ + (now - b.last_refill_ms) * RefillPerMs, Full)]
  ELSE b

Refill(b, now) ==
  IF now > b.last_refill_ms
  THEN [b EXCEPT !.tokens = AtMost(@ + (now - b.last_refill_ms) * RefillPerMs, Full),
                 !.last_refill_ms = now]
  ELSE b

Expired(b, now) ==
  {r \in b.active : SatSub(now, r.created_at_ms) >= ReservationTimeout}

\* An expired reservation was charged when it was admitted: it is only dropped.
Reap(b, now) == [b EXCEPT !.active = @ \ Expired(b, now)]

\* Defect: a full bucket is forgotten with its reservations.
IsFull(b) == b.tokens >= Full

IsEmpty(b) == b.active = {} /\ b.tokens >= Full

\* The balance after a reservation of `estimate` tokens turned out to cost
\* `actual`: a refund stops at the capacity, an overage at zero.
Settled(tokens, estimate, actual) ==
  IF actual <= estimate
  THEN AtMost(tokens + (estimate - actual) * Unit, Full)
  ELSE SatSub(tokens, (actual - estimate) * Unit)

\* Defect: the delay is rounded down.
RetryAfterFloor(tokens, estimate) ==
  (estimate * Unit - tokens) \div RefillPerMs

\* Milliseconds until the refill covers what `estimate` lacks, rounded up.
RetryAfter(tokens, estimate) ==
  (estimate * Unit - tokens + RefillPerMs - 1) \div RefillPerMs

-----------------------------------------------------------------------------
(* Calls                                                                   *)

NoCall == [call |-> None, pc |-> "idle", key |-> None, now |-> 0,
           tokens |-> None, id |-> None, todo |-> {}, result |-> None,
           retry_after_ms |-> None, balance |-> None]

Return(t, result) ==
  op' = [op EXCEPT ![t] = [NoCall EXCEPT !.call = op[t].call, !.pc = "done",
                                         !.id = op[t].id, !.result = result]]

\* A denial carries the delay; the history keeps what it was computed from.
Deny(t, result, retry, balance) ==
  op' = [op EXCEPT ![t] = [@ EXCEPT !.pc = "done", !.result = result,
                                    !.retry_after_ms = retry, !.balance = balance]]

\* The history of k when a step costs it `units` (a refund is negative).
Grant(k, units) ==
  granted' = [granted EXCEPT ![k] = [since |-> @.since, units |-> @.units + units,
                                     ever |-> @.ever + units]]

\* The history measures the grants on k from `since` on.
Measure(k, since) ==
  granted' = [granted EXCEPT ![k] = [since |-> since, units |-> 0, ever |-> @.ever]]

Init ==
  /\ clock = 0
  /\ keys = {}
  /\ bucket = [k \in Keys |-> NewBucket]
  /\ reservations = {}
  /\ next_id = 1
  /\ key_count = 0
  /\ active_reservations = 0
  /\ op = [t \in Threads |-> NoCall]
  /\ granted = [k \in Keys |-> [since |-> 0, units |-> 0, ever |-> 0]]

Leave(t) ==
  /\ op[t].pc = "done"
  /\ op' = [op EXCEPT ![t] = NoCall]
  /\ UNCHANGED <<clock, keys, bucket, reservations, next_id, key_count,
                 active_reservations, granted>>

Tick ==
  /\ clock < MaxClock
  /\ clock' = clock + 1
  /\ UNCHANGED <<keys, bucket, reservations, next_id, key_count,
                 active_reservations, op, granted>>

\* The history starts to measure the grants on k anew, at any moment.
Observe(k) ==
  /\ k \in keys
  /\ Measure(k, bucket[k].last_refill_ms)
  /\ UNCHANGED <<clock, keys, bucket, reservations, next_id, key_count,
                 active_reservations, op>>

\* The reservations that a reap of b at `now` gives up leave the id map.
Remembered(b, now) ==
  {r \in reservations : \A x \in Expired(b, now) : x.id # r.id}

-----------------------------------------------------------------------------
(* reserve                                                                 *)

ReserveBegin(t, k, estimate) ==
  /\ op[t].pc = "idle"
  /\ next_id + Cardinality({u \in Threads : op[u].call = "reserve"}) <= MaxId
  /\ op' = [op EXCEPT ![t] =
              IF estimate = 0
              THEN [NoCall EXCEPT !.call = "reserve", !.pc = "done",
                                  !.result = "InvalidKey"]
              ELSE [NoCall EXCEPT !.call = "reserve", !.pc = "lookup",
                                  !.key = k, !.tokens = estimate, !.now = clock]]
  /\ UNCHANGED <<clock, keys, bucket, reservations, next_id, key_count,
                 active_reservations, granted>>

ReserveInsert(t) ==
  LET k == op[t].key IN
  /\ op[t].call = "reserve" /\ op[t].pc = "lookup"
  /\ k \notin keys
  /\ key_count < MaxKeys
  /\ keys' = keys \cup {k}
  /\ bucket' = [bucket EXCEPT ![k] = NewBucket]
  /\ key_count' = key_count + 1
  /\ Measure(k, 0)
  /\ UNCHANGED <<clock, reservations, next_id, active_reservations, op>>

ReserveKeyCapacity(t) ==
  /\ op[t].call = "reserve" /\ op[t].pc = "lookup"
  /\ op[t].key \notin keys
  /\ key_count >= MaxKeys
  /\ Return(t, "KeyCapacity")
  /\ UNCHANGED <<clock, keys, bucket, reservations, next_id, key_count,
                 active_reservations, granted>>

\* Refill, reap, decide and charge under the mutex.
ReserveLocked(t) ==
  LET k        == op[t].key
      now      == op[t].now
      estimate == op[t].tokens
      filled   == Refill(bucket[k], now)
      b        == Reap(filled, now)
      active   == active_reservations - Cardinality(Expired(filled, now))
  IN
  /\ op[t].call = "reserve" /\ op[t].pc = "lookup"
  /\ k \in keys
  /\ \/ /\ estimate * Unit > b.tokens
        /\ Deny(t, "WindowCapacity", RetryAfter(b.tokens, estimate), b.tokens)
        /\ bucket' = [bucket EXCEPT ![k] = b]
        /\ reservations' = Remembered(filled, now)
        /\ active_reservations' = active
        /\ UNCHANGED <<next_id, granted>>
     \/ /\ estimate * Unit <= b.tokens
        /\ active >= MaxActive
        /\ Deny(t, "ReservationCapacity", ReservationTimeout, b.tokens)
        /\ bucket' = [bucket EXCEPT ![k] = b]
        /\ reservations' = Remembered(filled, now)
        /\ active_reservations' = active
        /\ UNCHANGED <<next_id, granted>>
     \/ /\ estimate * Unit <= b.tokens
        /\ active < MaxActive
        /\ op' = [op EXCEPT ![t] = [NoCall EXCEPT
                    !.call = "reserve", !.pc = "done", !.id = next_id,
                    !.result = "Admitted"]]
        /\ bucket' = [bucket EXCEPT ![k] =
             [b EXCEPT !.tokens = @ - estimate * Unit,
                       !.active = @ \cup {[id |-> next_id, estimate |-> estimate,
                                           created_at_ms |-> now]}]]
        /\ reservations' = Remembered(filled, now) \cup {[id |-> next_id, key |-> k]}
        /\ active_reservations' = active + 1
        /\ next_id' = next_id + 1
        /\ Grant(k, estimate * Unit)
  /\ UNCHANGED <<clock, keys, key_count>>

-----------------------------------------------------------------------------
(* reconcile                                                               *)

ReconcileTake(t, id, actual) ==
  /\ op[t].pc = "idle"
  /\ \/ /\ \A r \in reservations : r.id # id
        /\ op' = [op EXCEPT ![t] = [NoCall EXCEPT
                    !.call = "reconcile", !.pc = "done", !.id = id,
                    !.result = "Noop"]]
        /\ UNCHANGED reservations
     \/ \E r \in reservations :
          /\ r.id = id
          /\ op' = [op EXCEPT ![t] = [NoCall EXCEPT
                      !.call = "reconcile", !.pc = "locked", !.id = id,
                      !.key = r.key, !.tokens = actual, !.now = clock]]
          /\ reservations' = reservations \ {r}
  /\ UNCHANGED <<clock, keys, bucket, next_id, key_count, active_reservations, granted>>

\* What the settlement takes from the balance, as far as it goes.
SettleCost(tokens, estimate, actual) ==
  IF actual <= estimate
  THEN -((estimate - actual) * Unit)
  ELSE AtMost(tokens, (actual - estimate) * Unit)

\* The key may be gone, or the reservation reaped, since the id was taken.
ReconcileNoop(t) ==
  LET k == op[t].key IN
  /\ op[t].call = "reconcile" /\ op[t].pc = "locked"
  /\ k \notin keys \/ \A r \in bucket[k].active : r.id # op[t].id
  /\ Return(t, "Noop")
  /\ UNCHANGED <<clock, keys, bucket, reservations, next_id, key_count,
                 active_reservations, granted>>

\* Unlike the sliding window, reconcile refills and does not reap.
ReconcileApply(t) ==
  LET k == op[t].key IN
  /\ op[t].call = "reconcile" /\ op[t].pc = "locked"
  /\ k \in keys
  /\ \E r \in bucket[k].active :
       LET b      == Refill(bucket[k], op[t].now)
           actual == IF op[t].tokens = None THEN r.estimate ELSE op[t].tokens
       IN  /\ r.id = op[t].id
           /\ bucket' = [bucket EXCEPT ![k] =
                [b EXCEPT !.tokens = Settled(@, r.estimate, actual),
                          !.active = @ \ {r}]]
           /\ Grant(k, SettleCost(b.tokens, r.estimate, actual))
  /\ active_reservations' = active_reservations - 1
  /\ Return(t, "Applied")
  /\ UNCHANGED <<clock, keys, reservations, next_id, key_count>>

-----------------------------------------------------------------------------
(* cleanup                                                                 *)

CleanupBegin(t) ==
  /\ op[t].pc = "idle"
  /\ \E scan \in SUBSET keys :
       /\ Cardinality(scan) = AtMost(ScanLimit, Cardinality(keys))
       /\ op' = [op EXCEPT ![t] = [NoCall EXCEPT
                   !.call = "cleanup", !.pc = "next", !.todo = scan, !.now = clock]]
  /\ UNCHANGED <<clock, keys, bucket, reservations, next_id, key_count,
                 active_reservations, granted>>

CleanupSkip(t, k) ==
  /\ op[t].call = "cleanup" /\ op[t].pc = "next"
  /\ k \in op[t].todo \ keys
  /\ op' = [op EXCEPT ![t] = [op[t] EXCEPT !.todo = @ \ {k}]]
  /\ UNCHANGED <<clock, keys, bucket, reservations, next_id, key_count,
                 active_reservations, granted>>

CleanupLocked(t, k) ==
  LET now    == op[t].now
      filled == Refill(bucket[k], now)
      b      == Reap(filled, now)
  IN
  /\ op[t].call = "cleanup" /\ op[t].pc = "next"
  /\ k \in op[t].todo \cap keys
  /\ bucket' = [bucket EXCEPT ![k] = b]
  /\ reservations' = Remembered(filled, now)
  /\ active_reservations' = active_reservations - Cardinality(Expired(filled, now))
  /\ op' = [op EXCEPT ![t] = [op[t] EXCEPT
                !.todo = @ \ {k},
                !.pc   = IF IsEmpty(b) THEN "remove" ELSE "next",
                !.key  = IF IsEmpty(b) THEN k ELSE None]]
  /\ UNCHANGED <<clock, keys, next_id, key_count, granted>>

\* remove_if succeeds on the same Arc, if it still is empty.  Once k is out of
\* the map, no other cleanup that holds the old Arc can remove k's next entry.
CleanupRemove(t) ==
  LET k == op[t].key IN
  /\ op[t].call = "cleanup" /\ op[t].pc = "remove"
  /\ IsEmpty(bucket[k])
  /\ keys' = keys \ {k}
  /\ bucket' = [bucket EXCEPT ![k] = NewBucket]
  /\ key_count' = key_count - 1
  /\ op' = [u \in Threads |->
              IF op[u].pc = "remove" /\ op[u].key = k
              THEN [op[u] EXCEPT !.pc = "next", !.key = None] ELSE op[u]]
  /\ UNCHANGED <<clock, reservations, next_id, active_reservations, granted>>

CleanupKeep(t) ==
  /\ op[t].call = "cleanup" /\ op[t].pc = "remove"
  /\ ~IsEmpty(bucket[op[t].key])
  /\ op' = [op EXCEPT ![t] = [@ EXCEPT !.pc = "next", !.key = None]]
  /\ UNCHANGED <<clock, keys, bucket, reservations, next_id, key_count,
                 active_reservations, granted>>

CleanupEnd(t) ==
  /\ op[t].call = "cleanup" /\ op[t].pc = "next"
  /\ op[t].todo = {}
  /\ Return(t, None)
  /\ UNCHANGED <<clock, keys, bucket, reservations, next_id, key_count,
                 active_reservations, granted>>

-----------------------------------------------------------------------------

Step(t) ==
  \/ Leave(t)
  \/ \E k \in Keys, e \in Estimates : ReserveBegin(t, k, e)
  \/ ReserveInsert(t) \/ ReserveKeyCapacity(t) \/ ReserveLocked(t)
  \/ \E id \in 1..(next_id - 1), a \in Actuals \cup {None} : ReconcileTake(t, id, a)
  \/ ReconcileNoop(t) \/ ReconcileApply(t)
  \/ CleanupBegin(t)
  \/ \E k \in Keys : CleanupSkip(t, k) \/ CleanupLocked(t, k)
  \/ CleanupRemove(t) \/ CleanupKeep(t) \/ CleanupEnd(t)

Next ==
  \/ Tick
  \/ \E k \in Keys : Observe(k)
  \/ \E t \in Threads : Step(t)

Spec == Init /\ [][Next]_vars

-----------------------------------------------------------------------------
(* Properties                                                              *)

ActiveReservations == [id : Nat, estimate : Nat, created_at_ms : Nat]

BucketStates == [tokens : 0..Full, last_refill_ms : Nat, active : SUBSET ActiveReservations]

Histories == [since : Nat, units : Int, ever : Int]

Calls == [call : {None, "reserve", "reconcile", "cleanup"},
          pc : {"idle", "lookup", "locked", "next", "remove", "done"},
          key : Keys \cup {None}, now : Nat, tokens : Nat \cup {None},
          id : Nat \cup {None}, todo : SUBSET Keys,
          result : {None, "InvalidKey", "KeyCapacity", "WindowCapacity",
                    "ReservationCapacity", "Admitted", "Applied", "Noop"},
          retry_after_ms : Nat \cup {None}, balance : Nat \cup {None}]

\* A balance stays between zero and the capacity through refills, refunds and
\* overages, and the rest of the state has its types.
TypeOK ==
  /\ clock \in Nat
  /\ keys \subseteq Keys
  /\ bucket \in [Keys -> BucketStates]
  /\ reservations \subseteq [id : Nat, key : Keys]
  /\ next_id \in Nat
  /\ key_count \in Int
  /\ active_reservations \in Int
  /\ op \in [Threads -> Calls]
  /\ granted \in [Keys -> Histories]

\* Over every interval of a bucket's life, in the callers' clock readings, the
\* bucket grants at most its capacity and the refill of the interval, net of
\* refunds: concurrent calls, refunds and overages create no tokens.
GrantedWithinRate ==
  \A k \in keys : granted[k].units <= Full + RefillPerMs * (clock - granted[k].since)

\* The counters agree with the maps, and both limits hold for the maps.
CountersExact ==
  /\ key_count = Cardinality(keys)
  /\ active_reservations = Cardinality(UNION {bucket[k].active : k \in keys})
  /\ Cardinality(keys) <= MaxKeys
  /\ active_reservations <= MaxActive

\* Every id in `reservations` belongs to an active reservation, and an active
\* reservation is there unless one reconcile has taken it: a finished request
\* leaves nothing behind, and only one reconcile can settle it.
ReservationsTracked ==
  /\ \A r \in reservations :
       r.key \in keys /\ \E a \in bucket[r.key].active : a.id = r.id
  /\ \A k \in keys : \A a \in bucket[k].active :
       Cardinality({r \in reservations : r.id = a.id})
         + Cardinality({t \in Threads : op[t].pc = "locked" /\ op[t].id = a.id}) = 1

\* The books are exact: counters, limits and id map agree with the reservations
\* the buckets hold, and every balance is between zero and the capacity.
Bookkeeping == TypeOK /\ CountersExact /\ ReservationsTracked

\* The delay of a WindowCapacity denial is long enough: a bucket that nobody
\* else charges meanwhile covers the estimate when the delay is over, provided
\* the estimate fits the bucket at all.
DenialDelaySuffices ==
  \A t \in Threads :
    op[t].result = "WindowCapacity" /\ op[t].tokens <= Capacity =>
      AtMost(op[t].balance + op[t].retry_after_ms * RefillPerMs, Full)
        >= op[t].tokens * Unit

\* The comment on BucketState::is_empty promises that forgetting a full bucket
\* is the same as keeping it: no key gets more, over its whole life, than a
\* bucket that is never forgotten grants.
ForgettingIsNeutral ==
  \A k \in Keys : granted[k].ever <= Full + RefillPerMs * clock

=============================================================================
