---------------------- MODULE TokenBucketLedger_proofs ----------------------
(***************************************************************************)
(* Proofs about TokenBucketLedger, for every set of threads and keys,      *)
(* every capacity, refill rate, timeout and limit.                         *)
(***************************************************************************)
EXTENDS TokenBucketLedger, FiniteSetTheorems, TLAPS

USE DEF ValidConfig

-----------------------------------------------------------------------------
(* Arithmetic of one bucket                                                *)

\* The capacity in units is a positive number.
LEMMA FullType == Full \in Nat
  BY BucketAssumption DEF Full

\* Multiplication by the refill rate distributes over a sum of times.
LEMMA RateDistributes ==
  ASSUME NEW a \in Int, NEW b \in Int
  PROVE  RefillPerMs * a + RefillPerMs * b = RefillPerMs * (a + b)
  BY BucketAssumption

\* BucketState::refill keeps the balance between zero and the capacity.
LEMMA RefillType ==
  ASSUME NEW b \in BucketStates, NEW now \in Nat
  PROVE  /\ Refill(b, now) \in BucketStates
         /\ Refill(b, now).active = b.active
         /\ Refill(b, now).last_refill_ms >= b.last_refill_ms
         /\ Refill(b, now).last_refill_ms \in {b.last_refill_ms, now}
<1>1. CASE now > b.last_refill_ms
  <2> DEFINE gain == (now - b.last_refill_ms) * RefillPerMs
  <2>1. gain \in Nat
    BY <1>1, BucketAssumption DEF BucketStates
  <2>2. AtMost(b.tokens + gain, Full) \in 0..Full
    BY <2>1, FullType DEF AtMost, BucketStates
  <2> DEFINE filled == AtMost(b.tokens + gain, Full)
  <2>3. Refill(b, now) = [b EXCEPT !.tokens = filled, !.last_refill_ms = now]
    BY <1>1 DEF Refill
  <2>4. filled \in 0..Full
    BY <2>2
  <2> HIDE DEF filled
  <2>5. Refill(b, now) = [tokens |-> filled, last_refill_ms |-> now,
                          active |-> b.active]
    BY <2>3 DEF BucketStates
  <2>6. b.active \in SUBSET ActiveReservations /\ b.last_refill_ms \in Nat
    BY DEF BucketStates
  <2> QED BY <1>1, <2>4, <2>5, <2>6 DEF BucketStates
<1>2. CASE ~(now > b.last_refill_ms)
  BY <1>2 DEF Refill, BucketStates
<1> QED BY <1>1, <1>2

\* What a bucket holds and has granted since `since` never exceeds its capacity
\* and the refill of the time between; refill preserves this.
Bounded(b, since, units) ==
  b.tokens + units <= Full + RefillPerMs * (b.last_refill_ms - since)

\* BucketState::refill adds what the elapsed time allows, at most.
LEMMA RefillBounded ==
  ASSUME NEW b \in BucketStates, NEW now \in Nat, NEW since \in Nat,
         NEW units \in Int, Bounded(b, since, units)
  PROVE  Bounded(Refill(b, now), since, units)
<1>1. CASE now > b.last_refill_ms
  <2> DEFINE last == b.last_refill_ms
  <2>1. last \in Nat /\ b.tokens \in Nat
    BY FullType DEF BucketStates
  <2>2. RefillPerMs * (now - last) + RefillPerMs * (last - since)
          = RefillPerMs * ((now - last) + (last - since))
    <3> HIDE DEF last
    <3>1. now - last \in Int /\ last - since \in Int
      BY <2>1
    <3> QED BY <3>1, RateDistributes
  <2>3. (now - last) + (last - since) = now - since
    BY <2>1
  <2>4. (now - last) * RefillPerMs = RefillPerMs * (now - last)
    BY <2>1, BucketAssumption
  <2>5. /\ RefillPerMs * (now - last) \in Int
        /\ RefillPerMs * (last - since) \in Int
    BY <2>1, BucketAssumption
  <2>6. Refill(b, now).tokens <= b.tokens + RefillPerMs * (now - last)
    BY <1>1, <2>1, <2>4, <2>5, FullType DEF Refill, AtMost, BucketStates
  <2>7. Refill(b, now).last_refill_ms = now
    BY <1>1 DEF Refill, BucketStates
  <2>8. Refill(b, now).tokens \in Int
    BY RefillType, FullType DEF BucketStates
  <2>9. b.tokens + units <= Full + RefillPerMs * (last - since)
    BY DEF Bounded
  <2>10. RefillPerMs * (now - since)
           = RefillPerMs * (now - last) + RefillPerMs * (last - since)
    BY <2>2, <2>3
  <2> QED BY <2>1, <2>5, <2>6, <2>7, <2>8, <2>9, <2>10, FullType DEF Bounded
<1>2. CASE ~(now > b.last_refill_ms)
  BY <1>2 DEF Refill
<1> QED BY <1>1, <1>2

\* Settling a reservation takes from the balance what it costs the key, or more.
LEMMA SettleBounded ==
  ASSUME NEW tokens \in 0..Full, NEW estimate \in Nat, NEW actual \in Nat
  PROVE  /\ Settled(tokens, estimate, actual) \in 0..Full
         /\ SettleCost(tokens, estimate, actual) \in Int
         /\ Settled(tokens, estimate, actual) + SettleCost(tokens, estimate, actual)
              <= tokens
<1>1. CASE actual <= estimate
  <2>1. (estimate - actual) * Unit \in Nat
    BY <1>1, BucketAssumption
  <2> QED BY <1>1, <2>1, FullType DEF Settled, SettleCost, AtMost
<1>2. CASE ~(actual <= estimate)
  <2>1. (actual - estimate) * Unit \in Nat
    BY <1>2, BucketAssumption
  <2> QED BY <1>2, <2>1, FullType DEF Settled, SettleCost, AtMost, SatSub
<1> QED BY <1>1, <1>2

-----------------------------------------------------------------------------
(* The inductive invariant                                                 *)

\* What a thread carries between its steps.
CallOK(c) ==
  /\ c \in Calls
  /\ c.now <= clock
  /\ c.pc = "lookup" => c.key \in Keys /\ c.tokens \in Nat
  /\ c.pc \in {"locked", "remove"} => c.key \in Keys

OpOK == \A t \in Threads : CallOK(op[t])

\* The bound on what a bucket holds and has granted, which the bound on the
\* grants alone does not imply.
GrantOK ==
  \A k \in keys :
    /\ bucket[k].last_refill_ms <= clock
    /\ Bounded(bucket[k], granted[k].since, granted[k].units)

\* A bucket tracks finitely many reservations, so they can be counted.
FiniteOK == \A k \in Keys : IsFiniteSet(bucket[k].active)

Inv == TypeOK /\ OpOK /\ FiniteOK /\ GrantOK

\* An idle thread carries nothing.
LEMMA NoCallType == NoCall \in Calls
  BY DEF NoCall, Calls

\* A new bucket is a BucketState.
LEMMA NewBucketType == NewBucket \in BucketStates
  BY FullType DEF NewBucket, BucketStates

\* BucketState::reap only drops reservations.
LEMMA ReapType ==
  ASSUME NEW b \in BucketStates, NEW now \in Nat
  PROVE  /\ Reap(b, now) \in BucketStates
         /\ Reap(b, now).tokens = b.tokens
         /\ Reap(b, now).last_refill_ms = b.last_refill_ms
<1> DEFINE kept == b.active \ Expired(b, now)
<1>1. kept \in SUBSET ActiveReservations
  BY DEF BucketStates
<1>2. Reap(b, now) = [b EXCEPT !.active = kept]
  BY DEF Reap
<1> HIDE DEF kept
<1> QED BY <1>1, <1>2 DEF BucketStates

\* The initial state satisfies the invariant.
LEMMA InitInv == Init => Inv
<1> SUFFICES ASSUME Init PROVE Inv
  OBVIOUS
<1>1. TypeOK
  BY NoCallType, NewBucketType DEF Init, TypeOK, Histories
<1>2. OpOK
  BY NoCallType DEF Init, OpOK, CallOK, NoCall
<1>3. GrantOK
  BY DEF Init, GrantOK
<1>4. FiniteOK
  BY FS_EmptySet DEF Init, FiniteOK, NewBucket
<1> QED BY <1>1, <1>2, <1>3, <1>4 DEF Inv

\* A step that leaves the buckets, the map and the history alone keeps the
\* bound; most steps do.
LEMMA GrantUnchanged ==
  ASSUME Inv, UNCHANGED <<keys, bucket, granted>>, clock' \in Nat, clock' >= clock
  PROVE  GrantOK'
<1> SUFFICES ASSUME NEW k \in keys
             PROVE  /\ bucket[k].last_refill_ms <= clock'
                    /\ Bounded(bucket[k], granted[k].since, granted[k].units)
  BY DEF GrantOK, Bounded
<1>1. bucket[k].last_refill_ms \in Nat /\ clock \in Nat
  BY DEF Inv, TypeOK, BucketStates
<1> QED BY <1>1 DEF Inv, GrantOK

\* The calls a step may put a thread in.
LEMMA OpStep ==
  ASSUME Inv, NEW t \in Threads, NEW c, UNCHANGED clock,
         op' = [op EXCEPT ![t] = c], CallOK(c)
  PROVE  op' \in [Threads -> Calls] /\ OpOK'
<1>1. op \in [Threads -> Calls]
  BY DEF Inv, TypeOK
<1>2. op' \in [Threads -> Calls]
  BY <1>1 DEF CallOK
<1>3. OpOK'
  BY <1>1 DEF Inv, OpOK, CallOK
<1> QED BY <1>2, <1>3

\* A step that replaces one thread's call and leaves the ledger alone.
LEMMA CallOnly ==
  ASSUME Inv, NEW t \in Threads, NEW c,
         UNCHANGED <<clock, keys, bucket, next_id, key_count, active_reservations, granted>>,
         reservations' \subseteq reservations,
         op' = [op EXCEPT ![t] = c], CallOK(c)
  PROVE  Inv'
<1>1. op' \in [Threads -> Calls] /\ OpOK'
  BY OpStep
<1>2. TypeOK'
  BY <1>1 DEF Inv, TypeOK
<1>3. GrantOK'
  BY GrantUnchanged DEF Inv, TypeOK
<1>4. FiniteOK'
  BY DEF Inv, FiniteOK
<1> QED BY <1>1, <1>2, <1>3, <1>4 DEF Inv

\* A result is a call a thread may be in.
LEMMA ReturnCall ==
  ASSUME Inv, NEW t \in Threads, NEW r, NEW i \in Nat \cup {None},
         r \in {None, "InvalidKey", "KeyCapacity", "Admitted", "Applied", "Noop"}
  PROVE  CallOK([NoCall EXCEPT !.call = op[t].call, !.pc = "done",
                               !.id = i, !.result = r])
<1> DEFINE c == [NoCall EXCEPT !.call = op[t].call, !.pc = "done",
                               !.id = i, !.result = r]
<1>1. op[t].call \in {None, "reserve", "reconcile", "cleanup"} /\ clock \in Nat
  BY DEF Inv, TypeOK, Calls
<1>a. c = [NoCall EXCEPT !.call = op[t].call, !.pc = "done", !.id = i, !.result = r]
  OBVIOUS
<1> HIDE DEF c
<1>2. c = [call |-> op[t].call, pc |-> "done", key |-> None, now |-> 0,
           tokens |-> None, id |-> i, todo |-> {}, result |-> r,
           retry_after_ms |-> None, balance |-> None]
  BY <1>a DEF NoCall
<1>3. c \in Calls
  BY <1>1, <1>2 DEF Calls
<1>4. CallOK(c)
  BY <1>1, <1>2, <1>3 DEF CallOK
<1> QED BY <1>4 DEF c

\* A thread that takes its result leaves the ledger as it is.
LEMMA LeaveInv == ASSUME Inv, NEW t \in Threads, Leave(t) PROVE Inv'
<1>1. CallOK(NoCall)
  BY NoCallType DEF NoCall, CallOK, Inv, TypeOK
<1>2. /\ UNCHANGED <<clock, keys, bucket, next_id, key_count, active_reservations, granted>>
      /\ reservations' \subseteq reservations
      /\ op' = [op EXCEPT ![t] = NoCall]
  BY DEF Leave
<1> QED BY <1>1, <1>2, CallOnly

\* The clock moves on: every reading that a call carries stays in the past.
LEMMA TickInv == ASSUME Inv, Tick PROVE Inv'
<1>1. clock \in Nat /\ clock' = clock + 1
  BY DEF Inv, TypeOK, Tick
<1>2. TypeOK'
  BY <1>1 DEF Inv, TypeOK, Tick
<1>3. OpOK'
  <2>1. \A t \in Threads : op[t].now \in Nat
    BY DEF Inv, TypeOK, Calls
  <2> QED BY <1>1, <2>1 DEF Inv, OpOK, CallOK, Tick
<1>4. GrantOK'
  BY <1>1, GrantUnchanged DEF Tick
<1>5. FiniteOK'
  BY DEF Inv, FiniteOK, Tick
<1> QED BY <1>2, <1>3, <1>4, <1>5 DEF Inv

\* Restarting the measurement on k changes the history of k only.
LEMMA MeasureHistory ==
  ASSUME Inv, NEW k \in Keys, NEW since \in Nat, Measure(k, since)
  PROVE  /\ granted' \in [Keys -> Histories]
         /\ granted'[k].since = since /\ granted'[k].units = 0
         /\ \A j \in Keys \ {k} : granted'[j] = granted[j]
<1>1. granted \in [Keys -> Histories]
  BY DEF Inv, TypeOK
<1>2. granted' = [granted EXCEPT ![k] = [since |-> since, units |-> 0,
                                        ever |-> granted[k].ever]]
  BY <1>1 DEF Measure
<1>3. granted[k].ever \in Int
  BY <1>1 DEF Histories
<1> QED BY <1>1, <1>2, <1>3 DEF Histories

\* Restarting the measurement on a bucket starts with a bound that holds.
LEMMA ObserveInv == ASSUME Inv, NEW k \in Keys, Observe(k) PROVE Inv'
<1> DEFINE last == bucket[k].last_refill_ms
<1>1. bucket[k] \in BucketStates /\ last \in Nat
  BY DEF Inv, TypeOK, BucketStates
<1>2. /\ granted' \in [Keys -> Histories]
      /\ granted'[k].since = last /\ granted'[k].units = 0
      /\ \A j \in Keys \ {k} : granted'[j] = granted[j]
  BY <1>1, MeasureHistory DEF Observe
<1>3. TypeOK'
  BY <1>2 DEF Inv, TypeOK, Observe
<1>4. OpOK'
  BY DEF Inv, OpOK, CallOK, Observe
<1>5. GrantOK'
  <2> SUFFICES ASSUME NEW j \in keys
               PROVE  /\ bucket[j].last_refill_ms <= clock
                      /\ Bounded(bucket[j], granted'[j].since, granted'[j].units)
    BY DEF GrantOK, Bounded, Observe
  <2>1. CASE j = k
    <3>1. bucket[k].tokens \in 0..Full
      BY <1>1 DEF BucketStates
    <3>2. RefillPerMs * (last - last) = 0
      BY <1>1, BucketAssumption
    <3> QED BY <1>2, <2>1, <3>1, <3>2, FullType DEF Bounded, Inv, GrantOK
  <2>2. CASE j # k
    BY <1>2, <2>2 DEF Inv, TypeOK, GrantOK
  <2> QED BY <2>1, <2>2
<1>6. FiniteOK'
  BY DEF Inv, FiniteOK, Observe
<1> QED BY <1>3, <1>4, <1>5, <1>6 DEF Inv

\* Replacing the bucket and the history of one key keeps the bound if the new
\* ones satisfy it.
LEMMA BucketStep ==
  ASSUME Inv, NEW k \in Keys, NEW b \in BucketStates, NEW g \in Histories,
         UNCHANGED clock, keys' \subseteq keys \cup {k},
         bucket' = [bucket EXCEPT ![k] = b],
         granted' = [granted EXCEPT ![k] = g],
         b.last_refill_ms <= clock, Bounded(b, g.since, g.units),
         IsFiniteSet(b.active)
  PROVE  /\ bucket' \in [Keys -> BucketStates]
         /\ granted' \in [Keys -> Histories]
         /\ FiniteOK' /\ GrantOK'
<1>1. bucket \in [Keys -> BucketStates] /\ granted \in [Keys -> Histories] /\ keys \subseteq Keys
  BY DEF Inv, TypeOK
<1>2. bucket' \in [Keys -> BucketStates] /\ granted' \in [Keys -> Histories]
  BY <1>1
<1>3. GrantOK'
  <2> SUFFICES ASSUME NEW j \in keys'
               PROVE  /\ bucket'[j].last_refill_ms <= clock
                      /\ Bounded(bucket'[j], granted'[j].since, granted'[j].units)
    BY DEF GrantOK, Bounded
  <2>1. CASE j = k
    BY <1>1, <2>1
  <2>2. CASE j # k
    <3>1. j \in keys /\ bucket'[j] = bucket[j] /\ granted'[j] = granted[j]
      BY <1>1, <2>2
    <3> QED BY <3>1 DEF Inv, GrantOK
  <2> QED BY <2>1, <2>2
<1>4. FiniteOK'
  BY <1>1 DEF Inv, FiniteOK
<1> QED BY <1>2, <1>3, <1>4

\* What a call finds when it has refilled and reaped the bucket of its key.
LEMMA Refreshed ==
  ASSUME Inv, NEW k \in keys, NEW now \in Nat, now <= clock
  PROVE  LET b == Reap(Refill(bucket[k], now), now)
         IN  /\ Refill(bucket[k], now) \in BucketStates
             /\ b \in BucketStates
             /\ b.tokens = Refill(bucket[k], now).tokens
             /\ b.last_refill_ms = Refill(bucket[k], now).last_refill_ms
             /\ b.last_refill_ms <= clock
             /\ Bounded(Refill(bucket[k], now), granted[k].since, granted[k].units)
             /\ Bounded(b, granted[k].since, granted[k].units)
             /\ IsFiniteSet(b.active)
             /\ Refill(bucket[k], now).active = bucket[k].active
             /\ Cardinality(Expired(Refill(bucket[k], now), now)) \in Nat
<1> DEFINE filled == Refill(bucket[k], now)
           b == Reap(filled, now)
<1>1. bucket[k] \in BucketStates /\ granted[k] \in Histories /\ clock \in Nat
  BY DEF Inv, TypeOK
<1>2. granted[k].since \in Nat /\ granted[k].units \in Int
  BY <1>1 DEF Histories
<1>3. /\ bucket[k].last_refill_ms <= clock
      /\ Bounded(bucket[k], granted[k].since, granted[k].units)
  BY DEF Inv, GrantOK
<1>4. /\ filled \in BucketStates
      /\ filled.active = bucket[k].active
      /\ filled.last_refill_ms \in {bucket[k].last_refill_ms, now}
  BY <1>1, RefillType
<1>5. Bounded(filled, granted[k].since, granted[k].units)
  BY <1>1, <1>2, <1>3, RefillBounded
<1> HIDE DEF filled
<1>9. /\ IsFiniteSet(filled.active)
      /\ Expired(filled, now) \subseteq filled.active
      /\ b.active \subseteq filled.active
  BY <1>4 DEF Inv, FiniteOK, TypeOK, Expired, Reap, BucketStates
<1>10. IsFiniteSet(b.active) /\ Cardinality(Expired(filled, now)) \in Nat
  BY <1>9, FS_Subset, FS_CardinalityType
<1>6. /\ b \in BucketStates
      /\ b.tokens = filled.tokens
      /\ b.last_refill_ms = filled.last_refill_ms
  BY <1>4, ReapType
<1> HIDE DEF b
<1>7. Bounded(b, granted[k].since, granted[k].units)
  BY <1>5, <1>6 DEF Bounded
<1>8. b.last_refill_ms <= clock
  BY <1>3, <1>4, <1>6
<1> QED BY <1>4, <1>5, <1>6, <1>7, <1>8, <1>10 DEF b, filled

\* The history after a grant of `units` on k.
LEMMA GrantHistory ==
  ASSUME Inv, NEW k \in Keys, NEW units \in Int, Grant(k, units)
  PROVE  LET g == [since |-> granted[k].since, units |-> granted[k].units + units,
                   ever |-> granted[k].ever + units]
         IN  g \in Histories /\ granted' = [granted EXCEPT ![k] = g]
<1>1. granted \in [Keys -> Histories]
  BY DEF Inv, TypeOK
<1>2. granted[k].since \in Nat /\ granted[k].units \in Int /\ granted[k].ever \in Int
  BY <1>1 DEF Histories
<1> QED BY <1>1, <1>2 DEF Grant, Histories

-----------------------------------------------------------------------------
(* One lemma per action                                                    *)

\* reserve reads the clock, or refuses an estimate of zero.
LEMMA ReserveBeginInv ==
  ASSUME Inv, NEW t \in Threads, NEW k \in Keys, NEW e \in Estimates,
         ReserveBegin(t, k, e)
  PROVE  Inv'
<1>1. clock \in Nat /\ e \in Nat
  BY InputAssumption DEF Inv, TypeOK
<1>2. PICK c : /\ op' = [op EXCEPT ![t] = c]
               /\ c = IF e = 0
                      THEN [NoCall EXCEPT !.call = "reserve", !.pc = "done",
                                          !.result = "InvalidKey"]
                      ELSE [NoCall EXCEPT !.call = "reserve", !.pc = "lookup",
                                          !.key = k, !.tokens = e, !.now = clock]
  BY DEF ReserveBegin
<1>3. CASE e = 0
  <2>1. c = [call |-> "reserve", pc |-> "done", key |-> None, now |-> 0,
             tokens |-> None, id |-> None, todo |-> {}, result |-> "InvalidKey",
             retry_after_ms |-> None, balance |-> None]
    BY <1>2, <1>3 DEF NoCall
  <2>2. CallOK(c)
    BY <1>1, <2>1 DEF CallOK, Calls
  <2> QED BY <1>2, <2>2, CallOnly DEF ReserveBegin
<1>4. CASE e # 0
  <2>1. c = [call |-> "reserve", pc |-> "lookup", key |-> k, now |-> clock,
             tokens |-> e, id |-> None, todo |-> {}, result |-> None,
             retry_after_ms |-> None, balance |-> None]
    BY <1>2, <1>4 DEF NoCall
  <2>2. CallOK(c)
    BY <1>1, <2>1 DEF CallOK, Calls
  <2> QED BY <1>2, <2>2, CallOnly DEF ReserveBegin
<1> QED BY <1>3, <1>4

\* reserve inserts a full bucket whose measurement starts with it.
LEMMA ReserveInsertInv ==
  ASSUME Inv, NEW t \in Threads, ReserveInsert(t) PROVE Inv'
<1> DEFINE k == op[t].key
<1>1. k \in Keys
  BY DEF ReserveInsert, Inv, OpOK, CallOK
<1> HIDE DEF k
<1>2. /\ keys' = keys \cup {k} /\ bucket' = [bucket EXCEPT ![k] = NewBucket]
      /\ Measure(k, 0) /\ key_count' = key_count + 1
      /\ UNCHANGED <<clock, reservations, next_id, active_reservations, op>>
  BY DEF ReserveInsert, k
<1>3. granted \in [Keys -> Histories] /\ clock \in Nat
  BY DEF Inv, TypeOK
<1> DEFINE g == [since |-> 0, units |-> 0, ever |-> granted[k].ever]
<1>4. g \in Histories /\ granted' = [granted EXCEPT ![k] = g]
  BY <1>1, <1>2, <1>3 DEF Measure, Histories
<1>5. g.since = 0 /\ g.units = 0
  OBVIOUS
<1> HIDE DEF g
<1>6. NewBucket.tokens = Full /\ NewBucket.last_refill_ms = 0
  BY DEF NewBucket
<1>7. Bounded(NewBucket, g.since, g.units)
  BY <1>5, <1>6, FullType, BucketAssumption DEF Bounded
<1>a. keys' \subseteq keys \cup {k} /\ clock' = clock /\ NewBucket.last_refill_ms <= clock
  BY <1>2, <1>3, <1>6
<1>8. /\ bucket' \in [Keys -> BucketStates]
      /\ granted' \in [Keys -> Histories]
      /\ FiniteOK' /\ GrantOK'
  <2>1. IsFiniteSet(NewBucket.active)
    BY FS_EmptySet DEF NewBucket
  <2> QED BY <1>1, <1>2, <1>4, <1>7, <1>a, <2>1, NewBucketType, BucketStep
<1>9. TypeOK'
  BY <1>1, <1>2, <1>8 DEF Inv, TypeOK
<1>10. OpOK'
  BY <1>2 DEF Inv, OpOK, CallOK
<1> QED BY <1>8, <1>9, <1>10 DEF Inv

\* reserve is denied for want of a key slot.
LEMMA ReserveKeyCapacityInv ==
  ASSUME Inv, NEW t \in Threads, ReserveKeyCapacity(t) PROVE Inv'
<1> DEFINE c == [NoCall EXCEPT !.call = op[t].call, !.pc = "done",
                               !.id = op[t].id, !.result = "KeyCapacity"]
<1>1. op[t].id \in Nat \cup {None}
  BY DEF Inv, TypeOK, Calls
<1>2. CallOK(c)
  BY <1>1, ReturnCall
<1>3. op' = [op EXCEPT ![t] = c]
  BY DEF ReserveKeyCapacity, Return
<1> HIDE DEF c
<1> QED BY <1>2, <1>3, CallOnly DEF ReserveKeyCapacity

\* reconcile finds no bucket or no reservation.
LEMMA ReconcileNoopInv ==
  ASSUME Inv, NEW t \in Threads, ReconcileNoop(t) PROVE Inv'
<1> DEFINE c == [NoCall EXCEPT !.call = op[t].call, !.pc = "done",
                               !.id = op[t].id, !.result = "Noop"]
<1>1. op[t].id \in Nat \cup {None}
  BY DEF Inv, TypeOK, Calls
<1>2. CallOK(c)
  BY <1>1, ReturnCall
<1>3. op' = [op EXCEPT ![t] = c]
  BY DEF ReconcileNoop, Return
<1> HIDE DEF c
<1> QED BY <1>2, <1>3, CallOnly DEF ReconcileNoop

\* cleanup has visited every key it scans.
LEMMA CleanupEndInv ==
  ASSUME Inv, NEW t \in Threads, CleanupEnd(t) PROVE Inv'
<1> DEFINE c == [NoCall EXCEPT !.call = op[t].call, !.pc = "done",
                               !.id = op[t].id, !.result = None]
<1>1. op[t].id \in Nat \cup {None}
  BY DEF Inv, TypeOK, Calls
<1>2. CallOK(c)
  BY <1>1, ReturnCall
<1>3. op' = [op EXCEPT ![t] = c]
  BY DEF CleanupEnd, Return
<1> HIDE DEF c
<1> QED BY <1>2, <1>3, CallOnly DEF CleanupEnd

\* cleanup reads the clock and chooses its keys.
LEMMA CleanupBeginInv ==
  ASSUME Inv, NEW t \in Threads, CleanupBegin(t) PROVE Inv'
<1>1. PICK scan \in SUBSET keys :
        op' = [op EXCEPT ![t] = [NoCall EXCEPT
                 !.call = "cleanup", !.pc = "next", !.todo = scan, !.now = clock]]
  BY DEF CleanupBegin
<1>2. PICK c : /\ op' = [op EXCEPT ![t] = c]
               /\ c = [NoCall EXCEPT !.call = "cleanup", !.pc = "next",
                                     !.todo = scan, !.now = clock]
  BY <1>1
<1>3. c = [call |-> "cleanup", pc |-> "next", key |-> None, now |-> clock,
           tokens |-> None, id |-> None, todo |-> scan, result |-> None,
           retry_after_ms |-> None, balance |-> None]
  BY <1>2 DEF NoCall
<1>4. clock \in Nat /\ scan \in SUBSET Keys
  BY DEF Inv, TypeOK
<1>5. CallOK(c)
  BY <1>3, <1>4 DEF CallOK, Calls
<1> QED BY <1>2, <1>5, CallOnly DEF CleanupBegin

\* cleanup passes over a key that has gone.
LEMMA CleanupSkipInv ==
  ASSUME Inv, NEW t \in Threads, NEW k \in Keys, CleanupSkip(t, k) PROVE Inv'
<1>1. CallOK(op[t])
  BY DEF Inv, OpOK
<1>2. PICK c : /\ op' = [op EXCEPT ![t] = c]
               /\ c = [op[t] EXCEPT !.todo = @ \ {k}]
  BY DEF CleanupSkip
<1>3. CallOK(c)
  BY <1>1, <1>2 DEF CallOK, Calls, CleanupSkip
<1> QED BY <1>2, <1>3, CallOnly DEF CleanupSkip

\* cleanup's remove_if finds the bucket in use again.
LEMMA CleanupKeepInv ==
  ASSUME Inv, NEW t \in Threads, CleanupKeep(t) PROVE Inv'
<1>1. CallOK(op[t])
  BY DEF Inv, OpOK
<1>2. PICK c : /\ op' = [op EXCEPT ![t] = c]
               /\ c = [op[t] EXCEPT !.pc = "next", !.key = None]
  BY DEF CleanupKeep
<1>3. CallOK(c)
  BY <1>1, <1>2 DEF CallOK, Calls
<1> QED BY <1>2, <1>3, CallOnly DEF CleanupKeep

\* reconcile takes its id out of the id map.
LEMMA ReconcileTakeInv ==
  ASSUME Inv, NEW t \in Threads, NEW id \in 1..(next_id - 1),
         NEW a \in Actuals \cup {None}, ReconcileTake(t, id, a)
  PROVE  Inv'
<1>1. clock \in Nat /\ id \in Nat /\ a \in Nat \cup {None}
  BY InputAssumption DEF Inv, TypeOK
<1>2. CASE op' = [op EXCEPT ![t] = [NoCall EXCEPT !.call = "reconcile", !.pc = "done",
                                    !.id = id, !.result = "Noop"]]
           /\ UNCHANGED reservations
  <2>1. PICK c : /\ op' = [op EXCEPT ![t] = c]
                 /\ c = [NoCall EXCEPT !.call = "reconcile", !.pc = "done",
                                       !.id = id, !.result = "Noop"]
    BY <1>2
  <2>2. c = [call |-> "reconcile", pc |-> "done", key |-> None, now |-> 0,
             tokens |-> None, id |-> id, todo |-> {}, result |-> "Noop",
             retry_after_ms |-> None, balance |-> None]
    BY <2>1 DEF NoCall
  <2>3. CallOK(c)
    BY <1>1, <2>2 DEF CallOK, Calls
  <2> QED BY <1>2, <2>1, <2>3, CallOnly DEF ReconcileTake
<1>3. ASSUME NEW r \in reservations,
             op' = [op EXCEPT ![t] = [NoCall EXCEPT
                      !.call = "reconcile", !.pc = "locked", !.id = id,
                      !.key = r.key, !.tokens = a, !.now = clock]],
             reservations' = reservations \ {r}
      PROVE  Inv'
  <2>1. PICK c : /\ op' = [op EXCEPT ![t] = c]
                 /\ c = [NoCall EXCEPT !.call = "reconcile", !.pc = "locked",
                                       !.id = id, !.key = r.key, !.tokens = a,
                                       !.now = clock]
    BY <1>3
  <2>2. c = [call |-> "reconcile", pc |-> "locked", key |-> r.key, now |-> clock,
             tokens |-> a, id |-> id, todo |-> {}, result |-> None,
             retry_after_ms |-> None, balance |-> None]
    BY <2>1 DEF NoCall
  <2>3. r.key \in Keys
    BY DEF Inv, TypeOK
  <2>4. CallOK(c)
    BY <1>1, <2>2, <2>3 DEF CallOK, Calls
  <2> QED BY <1>3, <2>1, <2>4, CallOnly DEF ReconcileTake
<1> QED BY <1>2, <1>3 DEF ReconcileTake

\* The delay of a denial is a natural number.
LEMMA RetryAfterType ==
  ASSUME NEW tokens \in Nat, NEW estimate \in Nat, estimate * Unit > tokens
  PROVE  RetryAfter(tokens, estimate) \in Nat
<1>1. estimate * Unit \in Nat
  BY BucketAssumption
<1>2. estimate * Unit - tokens + RefillPerMs - 1 \in Nat
  BY <1>1, BucketAssumption
<1>3. \A a \in Nat : \A d \in Nat \ {0} : a \div d \in Nat
  OBVIOUS
<1> QED BY <1>2, <1>3, BucketAssumption DEF RetryAfter

\* reserve under the key's guard: refill, reap, then grant or deny.
LEMMA ReserveLockedInv ==
  ASSUME Inv, NEW t \in Threads, ReserveLocked(t) PROVE Inv'
<1> DEFINE k        == op[t].key
           now      == op[t].now
           estimate == op[t].tokens
           filled   == Refill(bucket[k], now)
           b        == Reap(filled, now)
           active   == active_reservations - Cardinality(Expired(filled, now))
<1>1. CallOK(op[t]) /\ op[t] \in Calls /\ clock \in Nat
  BY DEF Inv, OpOK, TypeOK
<1>2. k \in keys /\ k \in Keys /\ estimate \in Nat /\ now \in Nat /\ now <= clock
  BY <1>1 DEF ReserveLocked, CallOK, Calls
<1>3. /\ b \in BucketStates
      /\ b.last_refill_ms <= clock
      /\ Bounded(b, granted[k].since, granted[k].units)
      /\ IsFiniteSet(b.active)
      /\ Cardinality(Expired(filled, now)) \in Nat
  BY <1>2, Refreshed
<1>4. b.tokens \in 0..Full /\ b.tokens \in Nat /\ b.active \subseteq ActiveReservations
      /\ b.last_refill_ms \in Nat
  BY <1>3, FullType DEF BucketStates
<1>5. granted[k] \in Histories /\ granted = [granted EXCEPT ![k] = granted[k]]
  BY <1>2 DEF Inv, TypeOK
<1>6. estimate * Unit \in Nat
  BY <1>2, BucketAssumption
<1>7. /\ active_reservations' \in Int
      /\ reservations' \subseteq [id : Nat, key : Keys]
      /\ next_id' \in Nat
  <2>1. Remembered(filled, now) \subseteq reservations
    BY DEF Remembered
  <2>2. /\ reservations \subseteq [id : Nat, key : Keys] /\ next_id \in Nat
        /\ active \in Int
    BY <1>3 DEF Inv, TypeOK
  <2>3. [id |-> next_id, key |-> k] \in [id : Nat, key : Keys]
    BY <1>2, <2>2
  <2>4. /\ \/ active_reservations' = active
           \/ active_reservations' = active + 1
        /\ \/ reservations' = Remembered(filled, now)
           \/ reservations' = Remembered(filled, now) \cup {[id |-> next_id, key |-> k]}
        /\ \/ next_id' = next_id
           \/ next_id' = next_id + 1
    BY DEF ReserveLocked
  <2> HIDE DEF k, now, filled, active
  <2> QED BY <2>1, <2>2, <2>3, <2>4
<1>8. UNCHANGED <<clock, keys, key_count>>
  BY DEF ReserveLocked
<1>9. ASSUME NEW result \in {"WindowCapacity", "ReservationCapacity"},
             NEW retry \in Nat,
             Deny(t, result, retry, b.tokens),
             bucket' = [bucket EXCEPT ![k] = b], UNCHANGED granted
      PROVE  Inv'
  <2> HIDE DEF k, now, estimate, filled, b, active
  <2>1. PICK c : /\ op' = [op EXCEPT ![t] = c]
                 /\ c = [op[t] EXCEPT !.pc = "done", !.result = result,
                                      !.retry_after_ms = retry, !.balance = b.tokens]
    BY <1>9 DEF Deny
  <2>2. CallOK(c)
    BY <1>1, <1>4, <1>9, <2>1 DEF CallOK, Calls
  <2>3. op' \in [Threads -> Calls] /\ OpOK'
    BY <1>8, <2>1, <2>2, OpStep
  <2>4. keys' \subseteq keys \cup {k} /\ granted' = [granted EXCEPT ![k] = granted[k]]
    BY <1>5, <1>8, <1>9
  <2>5. /\ bucket' \in [Keys -> BucketStates] /\ granted' \in [Keys -> Histories]
        /\ FiniteOK' /\ GrantOK'
    BY <1>2, <1>3, <1>5, <1>8, <1>9, <2>4, BucketStep
  <2>6. TypeOK'
    BY <1>7, <1>8, <2>3, <2>5 DEF Inv, TypeOK
  <2> QED BY <2>3, <2>5, <2>6 DEF Inv
<1>10. ASSUME estimate * Unit <= b.tokens,
              op' = [op EXCEPT ![t] = [NoCall EXCEPT
                       !.call = "reserve", !.pc = "done", !.id = next_id,
                       !.result = "Admitted"]],
              bucket' = [bucket EXCEPT ![k] =
                [b EXCEPT !.tokens = @ - estimate * Unit,
                          !.active = @ \cup {[id |-> next_id, estimate |-> estimate,
                                              created_at_ms |-> now]}]],
              Grant(k, estimate * Unit)
       PROVE  Inv'
  <2> HIDE DEF k, now, estimate, filled, b, active
  <2> DEFINE r == [id |-> next_id, estimate |-> estimate, created_at_ms |-> now]
             spent == estimate * Unit
  <2>1. PICK c : /\ op' = [op EXCEPT ![t] = c]
                 /\ c = [NoCall EXCEPT !.call = "reserve", !.pc = "done",
                                       !.id = next_id, !.result = "Admitted"]
    BY <1>10
  <2>2. c = [call |-> "reserve", pc |-> "done", key |-> None, now |-> 0,
             tokens |-> None, id |-> next_id, todo |-> {}, result |-> "Admitted",
             retry_after_ms |-> None, balance |-> None]
    BY <2>1 DEF NoCall
  <2>3. CallOK(c)
    BY <1>1, <2>2 DEF CallOK, Calls, Inv, TypeOK
  <2>4. op' \in [Threads -> Calls] /\ OpOK'
    BY <1>8, <2>1, <2>3, OpStep
  <2>5. PICK n : /\ bucket' = [bucket EXCEPT ![k] = n]
                 /\ n = [b EXCEPT !.tokens = @ - spent, !.active = @ \cup {r}]
    BY <1>10
  <2>6. r \in ActiveReservations
    BY <1>2 DEF ActiveReservations, Inv, TypeOK
  <2> HIDE DEF r
  <2>7. spent \in Nat /\ spent <= b.tokens
    BY <1>6, <1>10
  <2> HIDE DEF spent
  <2>8. n = [tokens |-> b.tokens - spent, last_refill_ms |-> b.last_refill_ms,
             active |-> b.active \cup {r}]
    BY <1>3, <2>5 DEF BucketStates
  <2>9. n \in BucketStates
    BY <1>4, <2>6, <2>7, <2>8, FullType DEF BucketStates
  <2>10. IsFiniteSet(n.active)
    BY <1>3, <2>8, FS_AddElement
  <2> DEFINE g == [since |-> granted[k].since, units |-> granted[k].units + spent,
                   ever |-> granted[k].ever + spent]
  <2>11. g \in Histories /\ granted' = [granted EXCEPT ![k] = g]
    BY <1>2, <1>10, <2>7, GrantHistory DEF spent
  <2>12. Bounded(n, g.since, g.units)
    <3>1. granted[k].units \in Int /\ granted[k].since \in Nat
      BY <1>5 DEF Histories
    <3>2. n.tokens = b.tokens - spent /\ n.last_refill_ms = b.last_refill_ms
      BY <2>8
    <3>3. g.since = granted[k].since /\ g.units = granted[k].units + spent
      OBVIOUS
    <3> HIDE DEF g
    <3>4. n.tokens + g.units = b.tokens + granted[k].units
      BY <1>4, <2>7, <3>1, <3>2, <3>3
    <3> QED BY <1>3, <3>2, <3>3, <3>4 DEF Bounded
  <2> HIDE DEF g
  <2>13. /\ keys' \subseteq keys \cup {k} /\ clock' = clock
         /\ n.last_refill_ms <= clock
    BY <1>3, <1>8, <2>8
  <2>14. /\ bucket' \in [Keys -> BucketStates] /\ granted' \in [Keys -> Histories]
         /\ FiniteOK' /\ GrantOK'
    BY <1>2, <2>5, <2>9, <2>10, <2>11, <2>12, <2>13, BucketStep
  <2>15. TypeOK'
    BY <1>7, <1>8, <2>4, <2>14 DEF Inv, TypeOK
  <2> QED BY <2>4, <2>14, <2>15 DEF Inv
<1>11. estimate * Unit > b.tokens => RetryAfter(b.tokens, estimate) \in Nat
  BY <1>2, <1>4, RetryAfterType
<1>12. ReservationTimeout \in Nat
  BY BucketAssumption
<1>13. \/ /\ estimate * Unit > b.tokens
          /\ Deny(t, "WindowCapacity", RetryAfter(b.tokens, estimate), b.tokens)
          /\ bucket' = [bucket EXCEPT ![k] = b] /\ UNCHANGED granted
       \/ /\ Deny(t, "ReservationCapacity", ReservationTimeout, b.tokens)
          /\ bucket' = [bucket EXCEPT ![k] = b] /\ UNCHANGED granted
       \/ /\ estimate * Unit <= b.tokens
          /\ op' = [op EXCEPT ![t] = [NoCall EXCEPT
                      !.call = "reserve", !.pc = "done", !.id = next_id,
                      !.result = "Admitted"]]
          /\ bucket' = [bucket EXCEPT ![k] =
                [b EXCEPT !.tokens = @ - estimate * Unit,
                          !.active = @ \cup {[id |-> next_id, estimate |-> estimate,
                                              created_at_ms |-> now]}]]
          /\ Grant(k, estimate * Unit)
  BY DEF ReserveLocked
<1> HIDE DEF k, now, estimate, filled, b, active
<1> QED BY <1>9, <1>10, <1>11, <1>12, <1>13

\* reconcile under the key's guard: refund or charge the difference.
LEMMA ReconcileApplyInv ==
  ASSUME Inv, NEW t \in Threads, ReconcileApply(t) PROVE Inv'
<1> DEFINE k == op[t].key
           b == Refill(bucket[k], op[t].now)
<1>1. CallOK(op[t]) /\ op[t] \in Calls /\ clock \in Nat
  BY DEF Inv, OpOK, TypeOK
<1>2. k \in keys /\ k \in Keys /\ op[t].now \in Nat /\ op[t].now <= clock
  BY <1>1 DEF ReconcileApply, CallOK, Calls
<1>3. /\ b \in BucketStates /\ b.active = bucket[k].active
      /\ b.last_refill_ms <= clock
      /\ Bounded(b, granted[k].since, granted[k].units)
      /\ IsFiniteSet(b.active)
  BY <1>2, Refreshed DEF Inv, FiniteOK
<1>4. PICK r \in bucket[k].active :
        \E actual \in {r.estimate, op[t].tokens} :
          /\ actual \in {r.estimate} \cup (Nat \cap {op[t].tokens})
          /\ bucket' = [bucket EXCEPT ![k] =
               [b EXCEPT !.tokens = Settled(@, r.estimate, actual),
                         !.active = @ \ {r}]]
          /\ Grant(k, SettleCost(b.tokens, r.estimate, actual))
  <2>1. op[t].tokens \in Nat \cup {None}
    BY <1>1 DEF Calls
  <2> QED BY <2>1 DEF ReconcileApply
<1>5. r.estimate \in Nat
  BY <1>2 DEF Inv, TypeOK, BucketStates, ActiveReservations
<1>6. PICK actual \in Nat :
        /\ bucket' = [bucket EXCEPT ![k] =
             [b EXCEPT !.tokens = Settled(@, r.estimate, actual),
                       !.active = @ \ {r}]]
        /\ Grant(k, SettleCost(b.tokens, r.estimate, actual))
  BY <1>4, <1>5
<1>7. /\ active_reservations' = active_reservations - 1
      /\ op' = [op EXCEPT ![t] = [NoCall EXCEPT !.call = op[t].call, !.pc = "done",
                                  !.id = op[t].id, !.result = "Applied"]]
      /\ UNCHANGED <<clock, keys, reservations, next_id, key_count>>
  BY DEF ReconcileApply, Return
<1> HIDE DEF k, b
<1> DEFINE c == [NoCall EXCEPT !.call = op[t].call, !.pc = "done",
                               !.id = op[t].id, !.result = "Applied"]
<1>8. CallOK(c)
  BY <1>1, ReturnCall DEF Calls
<1>9. op' = [op EXCEPT ![t] = c]
  BY <1>7
<1> HIDE DEF c
<1>10. op' \in [Threads -> Calls] /\ OpOK'
  BY <1>7, <1>8, <1>9, OpStep
<1> DEFINE left == Settled(b.tokens, r.estimate, actual)
           cost == SettleCost(b.tokens, r.estimate, actual)
<1>11. b.tokens \in 0..Full /\ b.last_refill_ms \in Nat
  BY <1>3 DEF BucketStates
<1>12. left \in 0..Full /\ cost \in Int /\ left + cost <= b.tokens
  BY <1>5, <1>6, <1>11, SettleBounded
<1>13. PICK n : /\ bucket' = [bucket EXCEPT ![k] = n]
                /\ n = [b EXCEPT !.tokens = left, !.active = @ \ {r}]
  BY <1>6
<1>14. Grant(k, cost)
  BY <1>6
<1> HIDE DEF left, cost
<1>15. n = [tokens |-> left, last_refill_ms |-> b.last_refill_ms,
            active |-> b.active \ {r}]
  BY <1>3, <1>13 DEF BucketStates
<1>16. n \in BucketStates
  BY <1>3, <1>12, <1>15 DEF BucketStates
<1>17. IsFiniteSet(n.active)
  BY <1>3, <1>15, FS_Subset
<1> DEFINE g == [since |-> granted[k].since, units |-> granted[k].units + cost,
                 ever |-> granted[k].ever + cost]
<1>18. g \in Histories /\ granted' = [granted EXCEPT ![k] = g]
  BY <1>2, <1>12, <1>14, GrantHistory
<1>19. Bounded(n, g.since, g.units)
  <2>1. granted[k].units \in Int /\ granted[k].since \in Nat
    BY <1>2 DEF Inv, TypeOK, Histories
  <2>2. n.tokens = left /\ n.last_refill_ms = b.last_refill_ms
    BY <1>15
  <2>3. g.since = granted[k].since /\ g.units = granted[k].units + cost
    OBVIOUS
  <2> HIDE DEF g
  <2>4. left \in Int /\ b.tokens \in Int /\ Full \in Nat
    BY <1>11, <1>12, FullType
  <2>5. n.tokens + g.units <= b.tokens + granted[k].units
    BY <1>12, <2>1, <2>2, <2>3, <2>4
  <2>6. RefillPerMs * (b.last_refill_ms - granted[k].since) \in Int
    BY <1>11, <2>1, BucketAssumption
  <2>7. b.tokens + granted[k].units
          <= Full + RefillPerMs * (b.last_refill_ms - granted[k].since)
    BY <1>3 DEF Bounded
  <2>8. n.tokens + g.units
          <= Full + RefillPerMs * (b.last_refill_ms - granted[k].since)
    BY <1>12, <2>1, <2>2, <2>3, <2>4, <2>5, <2>6, <2>7
  <2> QED BY <2>2, <2>3, <2>8 DEF Bounded
<1> HIDE DEF g
<1>20. /\ keys' \subseteq keys \cup {k} /\ clock' = clock /\ n.last_refill_ms <= clock
  BY <1>3, <1>7, <1>15
<1>21. /\ bucket' \in [Keys -> BucketStates] /\ granted' \in [Keys -> Histories]
       /\ FiniteOK' /\ GrantOK'
  BY <1>2, <1>13, <1>16, <1>17, <1>18, <1>19, <1>20, BucketStep
<1>22. TypeOK'
  BY <1>7, <1>10, <1>21 DEF Inv, TypeOK
<1> QED BY <1>10, <1>21, <1>22 DEF Inv

\* cleanup under the key's guard: refill and reap.
LEMMA CleanupLockedInv ==
  ASSUME Inv, NEW t \in Threads, NEW k \in Keys, CleanupLocked(t, k) PROVE Inv'
<1> DEFINE now    == op[t].now
           filled == Refill(bucket[k], now)
           b      == Reap(filled, now)
<1>1. CallOK(op[t]) /\ op[t] \in Calls /\ clock \in Nat
  BY DEF Inv, OpOK, TypeOK
<1>2. k \in keys /\ now \in Nat /\ now <= clock
  BY <1>1 DEF CleanupLocked, CallOK, Calls
<1>3. /\ b \in BucketStates
      /\ b.last_refill_ms <= clock
      /\ Bounded(b, granted[k].since, granted[k].units)
      /\ IsFiniteSet(b.active)
      /\ Cardinality(Expired(filled, now)) \in Nat
  BY <1>2, Refreshed
<1>4. /\ bucket' = [bucket EXCEPT ![k] = b]
      /\ reservations' = Remembered(filled, now)
      /\ active_reservations' = active_reservations - Cardinality(Expired(filled, now))
      /\ op' = [op EXCEPT ![t] = [op[t] EXCEPT
                  !.todo = @ \ {k},
                  !.pc   = IF IsEmpty(b) THEN "remove" ELSE "next",
                  !.key  = IF IsEmpty(b) THEN k ELSE None]]
      /\ UNCHANGED <<clock, keys, next_id, key_count, granted>>
  BY DEF CleanupLocked
<1>5. Remembered(filled, now) \subseteq reservations
  BY DEF Remembered
<1> HIDE DEF now, filled, b
<1>6. PICK c : /\ op' = [op EXCEPT ![t] = c]
               /\ c = [op[t] EXCEPT !.todo = @ \ {k},
                                    !.pc  = IF IsEmpty(b) THEN "remove" ELSE "next",
                                    !.key = IF IsEmpty(b) THEN k ELSE None]
  BY <1>4
<1>7. CallOK(c)
  BY <1>1, <1>6 DEF CallOK, Calls
<1>8. op' \in [Threads -> Calls] /\ OpOK'
  BY <1>4, <1>6, <1>7, OpStep
<1>9. granted[k] \in Histories /\ granted' = [granted EXCEPT ![k] = granted[k]]
  BY <1>4 DEF Inv, TypeOK
<1>10. keys' \subseteq keys \cup {k}
  BY <1>4
<1>11. /\ bucket' \in [Keys -> BucketStates] /\ granted' \in [Keys -> Histories]
       /\ FiniteOK' /\ GrantOK'
  BY <1>3, <1>4, <1>9, <1>10, BucketStep
<1>12. TypeOK'
  BY <1>3, <1>4, <1>5, <1>8, <1>11 DEF Inv, TypeOK
<1> QED BY <1>8, <1>11, <1>12 DEF Inv

\* cleanup removes an idle bucket; a new one starts its own measurement.
LEMMA CleanupRemoveInv ==
  ASSUME Inv, NEW t \in Threads, CleanupRemove(t) PROVE Inv'
<1> DEFINE k == op[t].key
<1>1. /\ keys' = keys \ {k} /\ bucket' = [bucket EXCEPT ![k] = NewBucket]
      /\ key_count' = key_count - 1
      /\ op' = [u \in Threads |->
                  IF op[u].pc = "remove" /\ op[u].key = k
                  THEN [op[u] EXCEPT !.pc = "next", !.key = None] ELSE op[u]]
      /\ UNCHANGED <<clock, reservations, next_id, active_reservations, granted>>
  BY DEF CleanupRemove
<1>2. \A u \in Threads : CallOK(op'[u])
  <2> TAKE u \in Threads
  <2>1. CallOK(op[u])
    BY DEF Inv, OpOK
  <2>2. CASE op'[u] = op[u]
    BY <2>1, <2>2
  <2>3. CASE op'[u] = [op[u] EXCEPT !.pc = "next", !.key = None]
    BY <2>1, <2>3 DEF CallOK, Calls
  <2> QED BY <1>1, <2>2, <2>3
<1> HIDE DEF k
<1>3. op' \in [Threads -> Calls] /\ OpOK'
  <2>1. OpOK'
    BY <1>1, <1>2 DEF OpOK, CallOK
  <2>2. \A u \in Threads : op'[u] \in Calls
    BY <1>2 DEF CallOK
  <2>3. op' = [u \in Threads |-> op'[u]]
    BY <1>1
  <2> QED BY <2>1, <2>2, <2>3
<1>4. bucket' \in [Keys -> BucketStates]
  BY <1>1, NewBucketType DEF Inv, TypeOK
<1>5. FiniteOK'
  BY <1>1, FS_EmptySet DEF Inv, TypeOK, FiniteOK, NewBucket
<1>6. GrantOK'
  <2> SUFFICES ASSUME NEW j \in keys'
               PROVE  /\ bucket'[j].last_refill_ms <= clock
                      /\ Bounded(bucket'[j], granted[j].since, granted[j].units)
    BY <1>1 DEF GrantOK, Bounded
  <2>1. j \in keys /\ bucket'[j] = bucket[j]
    BY <1>1 DEF Inv, TypeOK
  <2> QED BY <2>1 DEF Inv, GrantOK
<1>7. TypeOK'
  <2>1. /\ keys' = keys \ {k} /\ key_count' = key_count - 1
        /\ UNCHANGED <<clock, reservations, next_id, active_reservations, granted>>
    BY <1>1
  <2>2. TypeOK
    BY DEF Inv
  <2> QED BY <1>3, <1>4, <2>1, <2>2 DEF TypeOK
<1> QED BY <1>3, <1>5, <1>6, <1>7 DEF Inv

-----------------------------------------------------------------------------
(* The theorems                                                            *)

\* Every step of every thread preserves the invariant.
LEMMA NextInv == Inv /\ [Next]_vars => Inv'
<1> SUFFICES ASSUME Inv, [Next]_vars PROVE Inv'
  OBVIOUS
<1>1. CASE Tick
  BY <1>1, TickInv
<1>2. ASSUME NEW k \in Keys, Observe(k) PROVE Inv'
  BY <1>2, ObserveInv
<1>3. ASSUME NEW t \in Threads, Step(t) PROVE Inv'
  <2>1. CASE Leave(t)
    BY <2>1, LeaveInv
  <2>2. ASSUME NEW k \in Keys, NEW e \in Estimates, ReserveBegin(t, k, e) PROVE Inv'
    BY <2>2, ReserveBeginInv
  <2>3. CASE ReserveInsert(t)
    BY <2>3, ReserveInsertInv
  <2>4. CASE ReserveKeyCapacity(t)
    BY <2>4, ReserveKeyCapacityInv
  <2>5. CASE ReserveLocked(t)
    BY <2>5, ReserveLockedInv
  <2>6. ASSUME NEW id \in 1..(next_id - 1), NEW a \in Actuals \cup {None},
               ReconcileTake(t, id, a)
        PROVE  Inv'
    BY <2>6, ReconcileTakeInv
  <2>7. CASE ReconcileNoop(t)
    BY <2>7, ReconcileNoopInv
  <2>8. CASE ReconcileApply(t)
    BY <2>8, ReconcileApplyInv
  <2>9. CASE CleanupBegin(t)
    BY <2>9, CleanupBeginInv
  <2>10. ASSUME NEW k \in Keys, CleanupSkip(t, k) PROVE Inv'
    BY <2>10, CleanupSkipInv
  <2>11. ASSUME NEW k \in Keys, CleanupLocked(t, k) PROVE Inv'
    BY <2>11, CleanupLockedInv
  <2>12. CASE CleanupRemove(t)
    BY <2>12, CleanupRemoveInv
  <2>13. CASE CleanupKeep(t)
    BY <2>13, CleanupKeepInv
  <2>14. CASE CleanupEnd(t)
    BY <2>14, CleanupEndInv
  <2> QED BY <1>3, <2>1, <2>2, <2>3, <2>4, <2>5, <2>6, <2>7, <2>8, <2>9, <2>10,
             <2>11, <2>12, <2>13, <2>14 DEF Step
<1>4. CASE UNCHANGED vars
  BY <1>4 DEF vars, Inv, TypeOK, OpOK, CallOK, FiniteOK, GrantOK, Bounded
<1> QED BY <1>1, <1>2, <1>3, <1>4 DEF Next

\* The balance of every bucket stays between zero and its capacity, and the
\* rest of the ledger's state is well typed, whatever calls interleave.
THEOREM TypeCorrect == Spec => []TypeOK
<1>1. Inv => TypeOK
  BY DEF Inv
<1> QED BY <1>1, InitInv, NextInv, PTL DEF Spec

\* The bound on holdings and grants gives the bound on grants.
LEMMA InvGranted == Inv => GrantedWithinRate
<1> SUFFICES ASSUME Inv, NEW k \in keys
             PROVE  granted[k].units <= Full + RefillPerMs * (clock - granted[k].since)
  BY DEF GrantedWithinRate
<1> DEFINE last == bucket[k].last_refill_ms
           since == granted[k].since
           units == granted[k].units
<1>1. /\ last \in Nat /\ since \in Nat /\ units \in Int /\ clock \in Nat
      /\ bucket[k].tokens \in 0..Full
  BY DEF Inv, TypeOK, BucketStates, Histories
<1>2. bucket[k].tokens + units <= Full + RefillPerMs * (last - since) /\ last <= clock
  BY DEF Inv, GrantOK, Bounded
<1> HIDE DEF last, since, units
<1>3. /\ last - since \in Int /\ clock - last \in Nat
      /\ (last - since) + (clock - last) = clock - since
  BY <1>1, <1>2
<1>4. RefillPerMs * (last - since) + RefillPerMs * (clock - last)
        = RefillPerMs * (clock - since)
  BY <1>3, RateDistributes
<1>5. /\ RefillPerMs * (clock - last) \in Nat
      /\ RefillPerMs * (last - since) \in Int
  BY <1>3, BucketAssumption
<1>6. units <= Full + RefillPerMs * (clock - since)
  BY <1>1, <1>2, <1>4, <1>5, FullType
<1> QED BY <1>6 DEF since, units

\* Over every interval, a bucket grants at most its capacity and the refill of
\* the interval, net of refunds: for any number of threads, keys and calls.
THEOREM GrantsBounded == Spec => []GrantedWithinRate
  BY InvGranted, InitInv, NextInv, PTL DEF Spec

-----------------------------------------------------------------------------
(* The books of the ledger: counters, limits, the id map, and delays       *)

\* The reservations that the buckets of the map hold.
AllActive == UNION {bucket[k].active : k \in keys}

\* Thread t has taken an id out of the id map and has yet to settle it.
Locked(t) == op[t].pc = "locked"

\* key_count counts the map, within its limit.
KeysCounted ==
  /\ IsFiniteSet(keys)
  /\ key_count = Cardinality(keys)
  /\ Cardinality(keys) <= MaxKeys

\* active_reservations counts the reservations of the map, within its limit.
ActiveCounted ==
  /\ IsFiniteSet(AllActive)
  /\ active_reservations = Cardinality(AllActive)
  /\ active_reservations <= MaxActive

\* An id names one reservation of one bucket, without which a reservation in
\* two buckets would be counted once and settled twice.
IdsUnique ==
  \A k, j \in keys : \A a \in bucket[k].active, b \in bucket[j].active :
    a.id = b.id => k = j /\ a = b

\* The next id is in no bucket and no thread holds it.
IdsUsed ==
  /\ \A k \in keys : \A a \in bucket[k].active : a.id < next_id
  /\ \A t \in Threads : Locked(t) => op[t].id \in Nat /\ op[t].id < next_id

\* An id in the id map is that of a reservation in the bucket it names.
IdsMapped ==
  \A r \in reservations :
    r.key \in keys /\ \E a \in bucket[r.key].active : a.id = r.id

\* A taken id is held by one thread, has left the id map, and can only be that
\* of a reservation in the bucket the thread is about to lock.
IdsTaken ==
  /\ \A t, u \in Threads : Locked(t) /\ Locked(u) /\ op[t].id = op[u].id => t = u
  /\ \A t \in Threads : \A r \in reservations : Locked(t) => r.id # op[t].id
  /\ \A t \in Threads : \A k \in keys : \A a \in bucket[k].active :
       Locked(t) /\ a.id = op[t].id => k = op[t].key

\* The id of every reservation is in the id map, or a thread has taken it.
IdsOwned ==
  \A k \in keys : \A a \in bucket[k].active :
    \/ \E r \in reservations : r.id = a.id
    \/ \E t \in Threads : Locked(t) /\ op[t].id = a.id

\* remove_if is only tried on an entry that is still in the map.
Removable == \A t \in Threads : op[t].pc = "remove" => op[t].key \in keys

\* A denial for want of tokens carries the delay of its balance and estimate.
DelayExact(c) ==
  c.result = "WindowCapacity" =>
    /\ c.tokens \in Nat /\ c.balance \in Nat
    /\ c.tokens * Unit > c.balance
    /\ c.retry_after_ms = RetryAfter(c.balance, c.tokens)

DelaysExact == \A t \in Threads : DelayExact(op[t])

Books ==
  /\ KeysCounted /\ ActiveCounted
  /\ IdsUnique /\ IdsUsed /\ IdsMapped /\ IdsTaken /\ IdsOwned
  /\ Removable /\ DelaysExact

BookInv == Inv /\ Books

\* A call d after the call c that neither takes nor gives back an id, does not
\* come to remove_if and is not denied for want of tokens.
QuietCall(c, d) ==
  /\ c.pc = "locked" \/ d.pc = "locked" => d = c
  /\ d.pc = "remove" => c.pc = "remove" /\ d.key = c.key
  /\ d.result = "WindowCapacity" =>
       c.result = "WindowCapacity" /\ d.tokens = c.tokens
       /\ d.balance = c.balance /\ d.retry_after_ms = c.retry_after_ms

\* The initial ledger is empty and its books agree.
LEMMA InitBooks == Init => Books
<1> SUFFICES ASSUME Init PROVE Books
  OBVIOUS
<1>1. keys = {} /\ key_count = 0 /\ active_reservations = 0 /\ reservations = {}
      /\ op = [t \in Threads |-> NoCall]
  BY DEF Init
<1>2. IsFiniteSet({}) /\ Cardinality({}) = 0
  BY FS_EmptySet
<1>3. KeysCounted
  BY <1>1, <1>2, BucketAssumption DEF KeysCounted
<1>4. AllActive = {}
  BY <1>1 DEF AllActive
<1>5. ActiveCounted
  BY <1>1, <1>2, <1>4, BucketAssumption DEF ActiveCounted
<1>6. \A t \in Threads : op[t] = NoCall
  BY <1>1
<1>7. \A t \in Threads : op[t].pc = "idle" /\ op[t].result = None
  BY <1>6 DEF NoCall
<1>8. IdsUnique /\ IdsUsed /\ IdsMapped /\ IdsTaken /\ IdsOwned /\ Removable
  BY <1>1, <1>7 DEF IdsUnique, IdsUsed, IdsMapped, IdsTaken, IdsOwned, Removable, Locked
<1>9. None # "WindowCapacity"
  BY InputAssumption
<1>10. DelaysExact
  BY <1>7, <1>9 DEF DelaysExact, DelayExact
<1> QED BY <1>3, <1>5, <1>8, <1>10 DEF Books

\* A quiet step of every thread that leaves the ledger alone keeps the books.
LEMMA QuietBooks ==
  ASSUME Inv, Books,
         UNCHANGED <<keys, bucket, reservations, next_id, key_count, active_reservations>>,
         \A u \in Threads : QuietCall(op[u], op'[u])
  PROVE  Books'
<1>1. KeysCounted' /\ ActiveCounted'
  BY DEF Books, KeysCounted, ActiveCounted, AllActive
<1>2. IdsUnique' /\ IdsMapped'
  BY DEF Books, IdsUnique, IdsMapped
<1>3. \A u \in Threads : /\ Locked(u)' <=> Locked(u)
                         /\ Locked(u) => op'[u] = op[u]
  BY DEF QuietCall, Locked
<1>4. IdsUsed'
  BY <1>3 DEF Books, IdsUsed
<1>5. IdsTaken' /\ IdsOwned'
  BY <1>3 DEF Books, IdsTaken, IdsOwned
<1>6. Removable'
  BY DEF Books, Removable, QuietCall
<1>7. DelaysExact'
  BY DEF Books, DelaysExact, DelayExact, QuietCall
<1> QED BY <1>1, <1>2, <1>4, <1>5, <1>6, <1>7 DEF Books

\* One thread's call is replaced, and the others stay.
LEMMA OpAt ==
  ASSUME Inv, NEW t \in Threads, NEW c, op' = [op EXCEPT ![t] = c]
  PROVE  op'[t] = c /\ \A u \in Threads \ {t} : op'[u] = op[u]
  BY DEF Inv, TypeOK

\* A call follows itself quietly.
LEMMA QuietSame == \A c : QuietCall(c, c)
  BY DEF QuietCall

\* One thread's quiet step that leaves the ledger alone keeps the books.
LEMMA QuietStep ==
  ASSUME Inv, Books, NEW t \in Threads, NEW c, op' = [op EXCEPT ![t] = c],
         QuietCall(op[t], c),
         UNCHANGED <<keys, bucket, reservations, next_id, key_count, active_reservations>>
  PROVE  Books'
<1>1. \A u \in Threads : QuietCall(op[u], op'[u])
  BY OpAt, QuietSame
<1> QED BY <1>1, QuietBooks

\* A call that begins or ends without a denial and without an id is quiet when
\* the thread held no id.
LEMMA PlainQuiet ==
  ASSUME NEW c, NEW d, c.pc # "locked", d.pc \notin {"locked", "remove"},
         d.result # "WindowCapacity"
  PROVE  QuietCall(c, d)
  BY DEF QuietCall

\* What Return leaves in a thread's call.
LEMMA ReturnFields ==
  ASSUME NEW t \in Threads, NEW result, Inv, Return(t, result)
  PROVE  \E c : /\ op' = [op EXCEPT ![t] = c]
                /\ c.pc = "done" /\ c.result = result
<1>1. PICK c : /\ op' = [op EXCEPT ![t] = c]
               /\ c = [NoCall EXCEPT !.call = op[t].call, !.pc = "done",
                                     !.id = op[t].id, !.result = result]
  BY DEF Return
<1>2. c.pc = "done" /\ c.result = result
  BY <1>1 DEF NoCall
<1> QED BY <1>1, <1>2

\* Taking the result of a call keeps the books.
LEMMA LeaveBooks == ASSUME Inv, Books, NEW t \in Threads, Leave(t) PROVE Books'
<1>1. op[t].pc = "done" /\ op' = [op EXCEPT ![t] = NoCall]
      /\ UNCHANGED <<keys, bucket, reservations, next_id, key_count, active_reservations>>
  BY DEF Leave
<1>2. NoCall.pc = "idle" /\ NoCall.result = None
  BY DEF NoCall
<1>3. QuietCall(op[t], NoCall)
  BY <1>1, <1>2, InputAssumption, PlainQuiet
<1> QED BY <1>1, <1>3, QuietStep

\* The clock is not in the books.
LEMMA TickBooks == ASSUME Inv, Books, Tick PROVE Books'
<1>1. UNCHANGED <<keys, bucket, reservations, next_id, key_count, active_reservations, op>>
  BY DEF Tick
<1> QED BY <1>1, QuietBooks, QuietSame

\* Neither is the history.
LEMMA ObserveBooks == ASSUME Inv, Books, NEW k \in Keys, Observe(k) PROVE Books'
<1>1. UNCHANGED <<keys, bucket, reservations, next_id, key_count, active_reservations, op>>
  BY DEF Observe
<1> QED BY <1>1, QuietBooks, QuietSame

\* reserve begins.
LEMMA ReserveBeginBooks ==
  ASSUME Inv, Books, NEW t \in Threads, NEW k \in Keys, NEW e \in Estimates,
         ReserveBegin(t, k, e)
  PROVE  Books'
<1>1. PICK c : /\ op' = [op EXCEPT ![t] = c]
               /\ c = IF e = 0
                      THEN [NoCall EXCEPT !.call = "reserve", !.pc = "done",
                                          !.result = "InvalidKey"]
                      ELSE [NoCall EXCEPT !.call = "reserve", !.pc = "lookup",
                                          !.key = k, !.tokens = e, !.now = clock]
  BY DEF ReserveBegin
<1>2. c.pc \in {"done", "lookup"} /\ c.result \in {None, "InvalidKey"}
  BY <1>1 DEF NoCall
<1>3. op[t].pc = "idle"
      /\ UNCHANGED <<keys, bucket, reservations, next_id, key_count, active_reservations>>
  BY DEF ReserveBegin
<1>4. QuietCall(op[t], c)
  BY <1>2, <1>3, InputAssumption, PlainQuiet
<1> QED BY <1>1, <1>3, <1>4, QuietStep

\* reserve finds no key slot.
LEMMA ReserveKeyCapacityBooks ==
  ASSUME Inv, Books, NEW t \in Threads, ReserveKeyCapacity(t) PROVE Books'
<1>1. op[t].pc = "lookup" /\ Return(t, "KeyCapacity")
      /\ UNCHANGED <<keys, bucket, reservations, next_id, key_count, active_reservations>>
  BY DEF ReserveKeyCapacity
<1>2. PICK c : op' = [op EXCEPT ![t] = c] /\ c.pc = "done" /\ c.result = "KeyCapacity"
  BY <1>1, ReturnFields
<1>3. QuietCall(op[t], c)
  BY <1>1, <1>2, PlainQuiet
<1> QED BY <1>1, <1>2, <1>3, QuietStep

\* cleanup begins.
LEMMA CleanupBeginBooks ==
  ASSUME Inv, Books, NEW t \in Threads, CleanupBegin(t) PROVE Books'
<1>1. PICK scan \in SUBSET keys :
        op' = [op EXCEPT ![t] = [NoCall EXCEPT
                 !.call = "cleanup", !.pc = "next", !.todo = scan, !.now = clock]]
  BY DEF CleanupBegin
<1>2. PICK c : /\ op' = [op EXCEPT ![t] = c]
               /\ c = [NoCall EXCEPT !.call = "cleanup", !.pc = "next",
                                     !.todo = scan, !.now = clock]
  BY <1>1
<1>3. c.pc = "next" /\ c.result = None
  BY <1>2 DEF NoCall
<1>4. op[t].pc = "idle"
      /\ UNCHANGED <<keys, bucket, reservations, next_id, key_count, active_reservations>>
  BY DEF CleanupBegin
<1>5. QuietCall(op[t], c)
  BY <1>3, <1>4, InputAssumption, PlainQuiet
<1> QED BY <1>2, <1>4, <1>5, QuietStep

\* cleanup passes over a key that has gone.
LEMMA CleanupSkipBooks ==
  ASSUME Inv, Books, NEW t \in Threads, NEW k \in Keys, CleanupSkip(t, k) PROVE Books'
<1>1. PICK c : op' = [op EXCEPT ![t] = c] /\ c = [op[t] EXCEPT !.todo = @ \ {k}]
  BY DEF CleanupSkip
<1>2. op[t] \in Calls
  BY DEF Inv, TypeOK
<1>3. c.pc = op[t].pc /\ c.result = op[t].result /\ c.tokens = op[t].tokens
      /\ c.balance = op[t].balance /\ c.retry_after_ms = op[t].retry_after_ms
  BY <1>1, <1>2 DEF Calls
<1>4. op[t].pc = "next"
      /\ UNCHANGED <<keys, bucket, reservations, next_id, key_count, active_reservations>>
  BY DEF CleanupSkip
<1>5. QuietCall(op[t], c)
  BY <1>3, <1>4 DEF QuietCall
<1> QED BY <1>1, <1>4, <1>5, QuietStep

\* remove_if finds the bucket in use again.
LEMMA CleanupKeepBooks ==
  ASSUME Inv, Books, NEW t \in Threads, CleanupKeep(t) PROVE Books'
<1>1. PICK c : op' = [op EXCEPT ![t] = c] /\ c = [op[t] EXCEPT !.pc = "next", !.key = None]
  BY DEF CleanupKeep
<1>2. op[t] \in Calls
  BY DEF Inv, TypeOK
<1>3. c.pc = "next" /\ c.result = op[t].result /\ c.tokens = op[t].tokens
      /\ c.balance = op[t].balance /\ c.retry_after_ms = op[t].retry_after_ms
  BY <1>1, <1>2 DEF Calls
<1>4. op[t].pc = "remove"
      /\ UNCHANGED <<keys, bucket, reservations, next_id, key_count, active_reservations>>
  BY DEF CleanupKeep
<1>5. QuietCall(op[t], c)
  BY <1>3, <1>4 DEF QuietCall
<1> QED BY <1>1, <1>4, <1>5, QuietStep

\* cleanup ends.
LEMMA CleanupEndBooks ==
  ASSUME Inv, Books, NEW t \in Threads, CleanupEnd(t) PROVE Books'
<1>1. op[t].pc = "next" /\ Return(t, None)
      /\ UNCHANGED <<keys, bucket, reservations, next_id, key_count, active_reservations>>
  BY DEF CleanupEnd
<1>2. PICK c : op' = [op EXCEPT ![t] = c] /\ c.pc = "done" /\ c.result = None
  BY <1>1, ReturnFields
<1>3. QuietCall(op[t], c)
  BY <1>1, <1>2, InputAssumption, PlainQuiet
<1> QED BY <1>1, <1>2, <1>3, QuietStep

\* reserve inserts an empty bucket.
LEMMA ReserveInsertBooks ==
  ASSUME Inv, Books, NEW t \in Threads, ReserveInsert(t) PROVE Books'
<1> DEFINE k == op[t].key
<1>1. k \in Keys
  BY DEF ReserveInsert, Inv, OpOK, CallOK
<1>2. /\ k \notin keys /\ key_count < MaxKeys /\ keys' = keys \cup {k}
      /\ bucket' = [bucket EXCEPT ![k] = NewBucket]
      /\ key_count' = key_count + 1
      /\ UNCHANGED <<reservations, next_id, active_reservations, op>>
  BY DEF ReserveInsert
<1> HIDE DEF k
<1>3. NewBucket.active = {}
  BY DEF NewBucket
<1>4. /\ bucket'[k].active = {}
      /\ \A j \in keys : bucket'[j] = bucket[j]
      /\ keys \subseteq Keys
  BY <1>1, <1>2, <1>3 DEF Inv, TypeOK
<1>5. KeysCounted'
  <2>1. IsFiniteSet(keys) /\ key_count = Cardinality(keys) /\ Cardinality(keys) <= MaxKeys
    BY DEF Books, KeysCounted
  <2>2. IsFiniteSet(keys \cup {k}) /\ Cardinality(keys \cup {k}) = Cardinality(keys) + 1
    BY <1>2, <2>1, FS_AddElement
  <2>3. Cardinality(keys) \in Nat
    BY <2>1, FS_CardinalityType
  <2> QED BY <1>2, <2>1, <2>2, <2>3, BucketAssumption DEF KeysCounted
<1>6. AllActive' = AllActive
  BY <1>2, <1>4 DEF AllActive
<1>7. ActiveCounted'
  BY <1>2, <1>6 DEF Books, ActiveCounted
<1>8. IdsUnique'
  BY <1>2, <1>4 DEF Books, IdsUnique
<1>9. IdsUsed'
  BY <1>2, <1>4 DEF Books, IdsUsed, Locked
<1>10. IdsMapped'
  BY <1>2, <1>4 DEF Books, IdsMapped
<1>11. IdsTaken'
  BY <1>2, <1>4 DEF Books, IdsTaken, Locked
<1>12. IdsOwned'
  BY <1>2, <1>4 DEF Books, IdsOwned, Locked
<1>13. Removable' /\ DelaysExact'
  BY <1>2 DEF Books, Removable, DelaysExact, DelayExact
<1> QED BY <1>5, <1>7, <1>8, <1>9, <1>10, <1>11, <1>12, <1>13 DEF Books

\* remove_if takes an empty bucket out of the map.
LEMMA CleanupRemoveBooks ==
  ASSUME Inv, Books, NEW t \in Threads, CleanupRemove(t) PROVE Books'
<1> DEFINE k == op[t].key
<1>1. /\ op[t].pc = "remove" /\ IsEmpty(bucket[k])
      /\ keys' = keys \ {k} /\ bucket' = [bucket EXCEPT ![k] = NewBucket]
      /\ key_count' = key_count - 1
      /\ op' = [u \in Threads |->
                  IF op[u].pc = "remove" /\ op[u].key = k
                  THEN [op[u] EXCEPT !.pc = "next", !.key = None] ELSE op[u]]
      /\ UNCHANGED <<reservations, next_id, active_reservations>>
  BY DEF CleanupRemove
<1>a. /\ keys' = keys \ {k} /\ key_count' = key_count - 1
      /\ UNCHANGED <<reservations, next_id, active_reservations>>
  BY <1>1
<1>2. k \in keys
  BY <1>1 DEF Books, Removable
<1>3. bucket[k].active = {}
  BY <1>1 DEF IsEmpty
<1> HIDE DEF k
<1>4. \A j \in keys' : j \in keys /\ j # k /\ bucket'[j] = bucket[j]
  BY <1>1 DEF Inv, TypeOK
<1>5. \A u \in Threads : /\ QuietCall(op[u], op'[u])
                         /\ op'[u].pc = "remove" => op'[u].key # k
  <2> TAKE u \in Threads
  <2>1. CASE op[u].pc = "remove" /\ op[u].key = k
    <3>1. PICK c : op'[u] = c /\ c = [op[u] EXCEPT !.pc = "next", !.key = None]
      BY <1>1, <2>1
    <3>2. op[u] \in Calls
      BY DEF Inv, TypeOK
    <3>3. c.pc = "next" /\ c.result = op[u].result /\ c.tokens = op[u].tokens
          /\ c.balance = op[u].balance /\ c.retry_after_ms = op[u].retry_after_ms
      BY <3>1, <3>2 DEF Calls
    <3> QED BY <2>1, <3>1, <3>3 DEF QuietCall
  <2>2. CASE ~(op[u].pc = "remove" /\ op[u].key = k)
    <3>1. op'[u] = op[u]
      BY <1>1, <2>2
    <3> QED BY <2>2, <3>1, QuietSame
  <2> QED BY <2>1, <2>2
<1>6. KeysCounted'
  <2>1. IsFiniteSet(keys) /\ key_count = Cardinality(keys) /\ Cardinality(keys) <= MaxKeys
    BY DEF Books, KeysCounted
  <2>2. IsFiniteSet(keys \ {k}) /\ Cardinality(keys \ {k}) = Cardinality(keys) - 1
    BY <1>2, <2>1, FS_RemoveElement
  <2>3. Cardinality(keys) \in Nat
    BY <2>1, FS_CardinalityType
  <2> QED BY <1>a, <2>1, <2>2, <2>3, BucketAssumption DEF KeysCounted
<1>7. AllActive' = AllActive
  <2>1. keys = keys' \cup {k}
    BY <1>a, <1>2
  <2> QED BY <1>3, <1>4, <2>1 DEF AllActive
<1>8. ActiveCounted'
  BY <1>a, <1>7 DEF Books, ActiveCounted
<1>9. \A u \in Threads : /\ Locked(u)' <=> Locked(u)
                         /\ Locked(u) => op'[u] = op[u]
  BY <1>5 DEF QuietCall, Locked
<1>10. IdsUnique'
  BY <1>4 DEF Books, IdsUnique
<1>11. IdsUsed'
  BY <1>a, <1>4, <1>9 DEF Books, IdsUsed
<1>12. IdsMapped'
  <2> SUFFICES ASSUME NEW r \in reservations
               PROVE  r.key \in keys' /\ \E a \in bucket'[r.key].active : a.id = r.id
    BY <1>1 DEF IdsMapped
  <2>1. r.key \in keys /\ \E a \in bucket[r.key].active : a.id = r.id
    BY DEF Books, IdsMapped
  <2>2. r.key # k
    BY <1>3, <2>1
  <2> QED BY <1>a, <1>4, <2>1, <2>2
<1>13. IdsTaken'
  BY <1>a, <1>4, <1>9 DEF Books, IdsTaken
<1>14. IdsOwned'
  BY <1>a, <1>4, <1>9 DEF Books, IdsOwned
<1>15. Removable'
  BY <1>a, <1>5 DEF Books, Removable, QuietCall
<1>16. DelaysExact'
  BY <1>5 DEF Books, DelaysExact, DelayExact, QuietCall
<1> QED BY <1>6, <1>8, <1>10, <1>11, <1>12, <1>13, <1>14, <1>15, <1>16 DEF Books

\* Under a key's guard a step drops the reservations X of the bucket and their
\* ids, and may add one reservation under the next id; no thread takes or gives
\* back an id.  The ids then stay unique and mapped, and the count is the old
\* one less the dropped and plus the added.
LEMMA GuardedBooks ==
  ASSUME Inv, Books, NEW k \in keys, NEW X \in SUBSET bucket[k].active, NEW N, NEW M,
         \/ N = {} /\ M = {} /\ next_id' = next_id
         \/ \E a \in ActiveReservations :
              /\ a.id = next_id /\ N = {a}
              /\ M = {[id |-> next_id, key |-> k]}
              /\ next_id' = next_id + 1,
         keys' = keys,
         bucket'[k].active = (bucket[k].active \ X) \cup N,
         \A j \in keys \ {k} : bucket'[j] = bucket[j],
         reservations' = {r \in reservations : \A x \in X : x.id # r.id} \cup M,
         \A u \in Threads : /\ Locked(u)' <=> Locked(u)
                            /\ Locked(u) => op'[u] = op[u]
  PROVE  /\ IdsUnique' /\ IdsUsed' /\ IdsMapped' /\ IdsTaken' /\ IdsOwned'
         /\ IsFiniteSet(AllActive') /\ Cardinality(X) \in Nat
         /\ N = {} => Cardinality(AllActive') = Cardinality(AllActive) - Cardinality(X)
         /\ N # {} => Cardinality(AllActive') = Cardinality(AllActive) - Cardinality(X) + 1
         /\ Cardinality(AllActive) \in Nat
<1> DEFINE A == bucket[k].active
           B == bucket'[k].active
<1>1. /\ next_id \in Nat
      /\ \A j \in keys : \A a \in bucket[j].active : a.id \in Nat
      /\ \A r \in reservations : r.id \in Nat
  BY DEF Inv, TypeOK, BucketStates, ActiveReservations
<1>2. /\ IdsUnique /\ IdsUsed /\ IdsMapped /\ IdsTaken /\ IdsOwned
  BY DEF Books
<1>3. \A a \in N : a.id = next_id
  OBVIOUS
<1>4. \A a, b \in N : a = b
  OBVIOUS
<1>5. next_id' \in Nat /\ next_id' >= next_id /\ (N # {} => next_id' > next_id)
  BY <1>1
<1>6. \A r \in M : r.id = next_id /\ r.key = k /\ \E a \in N : a.id = r.id
  OBVIOUS
<1>7. \A a \in N : \E r \in M : r.id = a.id
  <2> SUFFICES ASSUME NEW a \in N PROVE \E r \in M : r.id = a.id
    OBVIOUS
  <2>1. a.id = next_id /\ M = {[id |-> next_id, key |-> k]}
    OBVIOUS
  <2>2. [id |-> next_id, key |-> k].id = next_id
    OBVIOUS
  <2> QED BY <2>1, <2>2
<1>8. \A j \in keys : \A a \in bucket[j].active : a.id < next_id
  BY <1>2 DEF IdsUsed
<1>9. \A r \in reservations : r.id < next_id
  BY <1>2, <1>8 DEF IdsMapped
<1>10. \A a \in B : a \in A \ X \/ a \in N
  OBVIOUS
<1>u. \A j \in keys : \A a \in bucket'[j].active :
        \/ a \in bucket[j].active /\ a \notin X
        \/ j = k /\ a \in N
  <2> SUFFICES ASSUME NEW j \in keys, NEW a \in bucket'[j].active
               PROVE  \/ a \in bucket[j].active /\ a \notin X
                      \/ j = k /\ a \in N
    OBVIOUS
  <2>1. CASE j = k
    BY <1>10, <2>1
  <2>2. CASE j # k
    BY <1>2, <2>2 DEF IdsUnique
  <2> QED BY <2>1, <2>2
<1>v. \A j \in keys : \A a \in bucket[j].active : a \notin X => a \in bucket'[j].active
  OBVIOUS
<1> HIDE DEF A, B
<1>11. IdsUnique'
  <2> SUFFICES ASSUME NEW i \in keys, NEW j \in keys, NEW a \in bucket'[i].active,
                      NEW b \in bucket'[j].active, a.id = b.id
               PROVE  i = j /\ a = b
    BY DEF IdsUnique
  <2>1. CASE a \in bucket[i].active /\ b \in bucket[j].active
    BY <1>2, <2>1 DEF IdsUnique
  <2>2. CASE a \in bucket[i].active /\ j = k /\ b \in N
    BY <1>1, <1>3, <1>8, <2>2
  <2>3. CASE b \in bucket[j].active /\ i = k /\ a \in N
    BY <1>1, <1>3, <1>8, <2>3
  <2>4. CASE i = k /\ a \in N /\ j = k /\ b \in N
    BY <1>4, <2>4
  <2> QED BY <1>u, <2>1, <2>2, <2>3, <2>4
<1>12. IdsUsed'
  <2>1. \A j \in keys : \A a \in bucket'[j].active : a.id < next_id'
    BY <1>1, <1>3, <1>5, <1>8, <1>u
  <2>2. \A t \in Threads : Locked(t) => op[t].id \in Nat /\ op[t].id < next_id'
    BY <1>1, <1>2, <1>5 DEF IdsUsed
  <2> QED BY <2>1, <2>2 DEF IdsUsed
<1>13. IdsMapped'
  <2> SUFFICES ASSUME NEW r \in reservations'
               PROVE  r.key \in keys /\ \E a \in bucket'[r.key].active : a.id = r.id
    BY DEF IdsMapped
  <2>1. CASE r \in M
    BY <1>6, <2>1
  <2>2. CASE r \in reservations /\ \A x \in X : x.id # r.id
    <3>1. r.key \in keys
      BY <1>2, <2>2 DEF IdsMapped
    <3>2. PICK a \in bucket[r.key].active : a.id = r.id
      BY <1>2, <2>2 DEF IdsMapped
    <3> QED BY <1>v, <2>2, <3>1, <3>2
  <2> QED BY <2>1, <2>2
<1>14. IdsTaken'
  <2>1. \A t, u \in Threads : Locked(t) /\ Locked(u) /\ op[t].id = op[u].id => t = u
    BY <1>2 DEF IdsTaken
  <2>2. \A t \in Threads : Locked(t) => op[t].id \in Nat /\ op[t].id < next_id
    BY <1>2 DEF IdsUsed
  <2>3. \A t \in Threads : \A r \in reservations' : Locked(t) => r.id # op[t].id
    BY <1>1, <1>2, <1>6, <2>2 DEF IdsTaken
  <2>4. \A t \in Threads : \A j \in keys : \A a \in bucket'[j].active :
          Locked(t) /\ a.id = op[t].id => j = op[t].key
    BY <1>1, <1>2, <1>3, <1>u, <2>2 DEF IdsTaken
  <2> QED BY <2>1, <2>3, <2>4 DEF IdsTaken
<1>15. IdsOwned'
  <2> SUFFICES ASSUME NEW j \in keys, NEW a \in bucket'[j].active
               PROVE  \/ \E r \in reservations' : r.id = a.id
                      \/ \E t \in Threads : Locked(t) /\ op[t].id = a.id
    BY DEF IdsOwned
  <2>1. CASE a \in N
    BY <1>7, <2>1
  <2>2. CASE a \in bucket[j].active /\ a \notin X
    <3>1. CASE \E t \in Threads : Locked(t) /\ op[t].id = a.id
      BY <3>1
    <3>2. ASSUME NEW r \in reservations, r.id = a.id
          PROVE  r \in reservations'
      BY <1>2, <2>2, <3>2 DEF IdsUnique
    <3> QED BY <1>2, <2>2, <3>1, <3>2 DEF IdsOwned
  <2> QED BY <1>u, <2>1, <2>2
<1>16. AllActive' = (AllActive \ X) \cup N
  <2>1. ASSUME NEW a \in AllActive' PROVE a \in (AllActive \ X) \cup N
    <3>1. PICK j \in keys : a \in bucket'[j].active
      BY <2>1 DEF AllActive
    <3> QED BY <1>u, <3>1 DEF AllActive
  <2>2. ASSUME NEW a \in (AllActive \ X) \cup N PROVE a \in AllActive'
    <3>1. CASE a \in N
      BY <3>1 DEF AllActive
    <3>2. CASE a \in AllActive \ X
      <4>1. PICK j \in keys : a \in bucket[j].active
        BY <3>2 DEF AllActive
      <4> QED BY <1>v, <3>2, <4>1 DEF AllActive
    <3> QED BY <2>2, <3>1, <3>2
  <2> QED BY <2>1, <2>2
<1>17. X \subseteq AllActive /\ IsFiniteSet(AllActive)
  BY DEF AllActive, Books, ActiveCounted
<1>18. N \cap AllActive = {}
  BY <1>1, <1>3, <1>8 DEF AllActive
<1>19. /\ IsFiniteSet(AllActive \ X) /\ Cardinality(X) \in Nat
       /\ Cardinality(AllActive) \in Nat
       /\ Cardinality(AllActive \ X) = Cardinality(AllActive) - Cardinality(X)
  <2>1. AllActive \cap X = X
    BY <1>17
  <2>2. IsFiniteSet(X)
    BY <1>17, FS_Subset
  <2>3. /\ IsFiniteSet(AllActive \ X)
        /\ Cardinality(AllActive \ X)
             = Cardinality(AllActive) - Cardinality(AllActive \cap X)
    BY <1>17, FS_Difference, Zenon
  <2> QED BY <1>17, <2>1, <2>2, <2>3, FS_CardinalityType
<1>20. CASE N = {}
  BY <1>11, <1>12, <1>13, <1>14, <1>15, <1>16, <1>19, <1>20
<1>21. CASE N # {}
  <2>1. PICK a : N = {a} /\ a \notin AllActive
    BY <1>18, <1>21
  <2>2. a \notin AllActive \ X
    BY <2>1
  <2>3. /\ IsFiniteSet(AllActive')
        /\ Cardinality(AllActive') = Cardinality(AllActive \ X) + 1
    BY <1>16, <1>19, <2>1, <2>2, FS_AddElement
  <2> QED BY <1>11, <1>12, <1>13, <1>14, <1>15, <1>19, <1>21, <2>3
<1> QED BY <1>20, <1>21

\* What a call drops when it reaps the bucket of its key.
LEMMA ReapDrops ==
  ASSUME Inv, NEW k \in keys, NEW now \in Nat
  PROVE  LET filled == Refill(bucket[k], now)
         IN  /\ Expired(filled, now) \in SUBSET bucket[k].active
             /\ Reap(filled, now).active = bucket[k].active \ Expired(filled, now)
<1> DEFINE filled == Refill(bucket[k], now)
<1>1. bucket[k] \in BucketStates
  BY DEF Inv, TypeOK
<1>2. filled \in BucketStates /\ filled.active = bucket[k].active
  BY <1>1, RefillType
<1> HIDE DEF filled
<1>3. Reap(filled, now).active = filled.active \ Expired(filled, now)
  BY <1>2 DEF Reap, BucketStates
<1> QED BY <1>2, <1>3 DEF Expired, filled

\* A new bucket for one key of the map.
LEMMA BucketAt ==
  ASSUME Inv, NEW k \in keys, NEW b, bucket' = [bucket EXCEPT ![k] = b]
  PROVE  bucket'[k] = b /\ \A j \in keys \ {k} : bucket'[j] = bucket[j]
  BY DEF Inv, TypeOK

\* cleanup under a key's guard: expired reservations leave the bucket, the id
\* map and the counter together.
LEMMA CleanupLockedBooks ==
  ASSUME Inv, Books, NEW t \in Threads, NEW k \in Keys, CleanupLocked(t, k) PROVE Books'
<1> DEFINE now    == op[t].now
           filled == Refill(bucket[k], now)
           b      == Reap(filled, now)
           X      == Expired(filled, now)
<1>1. /\ op[t].pc = "next" /\ k \in keys
      /\ bucket' = [bucket EXCEPT ![k] = b]
      /\ reservations' = Remembered(filled, now)
      /\ active_reservations' = active_reservations - Cardinality(X)
      /\ UNCHANGED <<keys, next_id, key_count>>
  BY DEF CleanupLocked
<1>2. PICK c : /\ op' = [op EXCEPT ![t] = c]
               /\ c = [op[t] EXCEPT !.todo = @ \ {k},
                                    !.pc  = IF IsEmpty(b) THEN "remove" ELSE "next",
                                    !.key = IF IsEmpty(b) THEN k ELSE None]
  BY DEF CleanupLocked
<1>3. op[t] \in Calls /\ now \in Nat
  BY DEF Inv, TypeOK, Calls
<1>4. X \in SUBSET bucket[k].active /\ b.active = bucket[k].active \ X
  BY <1>1, <1>3, ReapDrops
<1>5. reservations' = {r \in reservations : \A x \in X : x.id # r.id}
  BY <1>1 DEF Remembered
<1> HIDE DEF now, filled, b, X
<1>6. /\ c.pc \in {"remove", "next"} /\ (c.pc = "remove" => c.key = k)
      /\ c.result = op[t].result /\ c.tokens = op[t].tokens
      /\ c.balance = op[t].balance /\ c.retry_after_ms = op[t].retry_after_ms
  BY <1>2, <1>3 DEF Calls
<1>7. op'[t] = c /\ \A u \in Threads \ {t} : op'[u] = op[u]
  BY <1>2, OpAt
<1>8. \A u \in Threads : /\ Locked(u)' <=> Locked(u)
                         /\ Locked(u) => op'[u] = op[u]
  BY <1>1, <1>6, <1>7 DEF Locked
<1>9. bucket'[k] = b /\ \A j \in keys \ {k} : bucket'[j] = bucket[j]
  BY <1>1, BucketAt
<1>10. /\ keys' = keys /\ next_id' = next_id
       /\ bucket'[k].active = (bucket[k].active \ X) \cup {}
       /\ reservations' = {r \in reservations : \A x \in X : x.id # r.id} \cup {}
  BY <1>1, <1>4, <1>5, <1>9
<1>11. /\ IdsUnique' /\ IdsUsed' /\ IdsMapped' /\ IdsTaken' /\ IdsOwned'
       /\ IsFiniteSet(AllActive') /\ Cardinality(X) \in Nat
       /\ Cardinality(AllActive') = Cardinality(AllActive) - Cardinality(X)
       /\ Cardinality(AllActive) \in Nat
  <2>1. k \in keys
    BY <1>1
  <2> QED BY <1>4, <1>8, <1>9, <1>10, <2>1, GuardedBooks
<1>12. ActiveCounted'
  BY <1>1, <1>11, BucketAssumption DEF Books, ActiveCounted
<1>13. KeysCounted'
  BY <1>1 DEF Books, KeysCounted
<1>14. Removable'
  BY <1>1, <1>6, <1>7 DEF Books, Removable
<1>15. DelaysExact'
  BY <1>6, <1>7 DEF Books, DelaysExact, DelayExact
<1> QED BY <1>11, <1>12, <1>13, <1>14, <1>15 DEF Books

\* reserve under a key's guard, which also admits or denies.
LEMMA ReserveLockedBooks ==
  ASSUME Inv, Books, NEW t \in Threads, ReserveLocked(t) PROVE Books'
<1> DEFINE k        == op[t].key
           now      == op[t].now
           estimate == op[t].tokens
           filled   == Refill(bucket[k], now)
           b        == Reap(filled, now)
           X        == Expired(filled, now)
           active   == active_reservations - Cardinality(X)
           kept     == {r \in reservations : \A x \in X : x.id # r.id}
<1>1. CallOK(op[t]) /\ op[t] \in Calls /\ op[t].pc = "lookup"
  BY DEF Inv, OpOK, TypeOK, ReserveLocked
<1>2. k \in keys /\ k \in Keys /\ estimate \in Nat /\ now \in Nat /\ now <= clock
  BY <1>1 DEF ReserveLocked, CallOK, Calls
<1>3. X \in SUBSET bucket[k].active /\ b.active = bucket[k].active \ X
  BY <1>2, ReapDrops
<1>4. b \in BucketStates /\ b.tokens \in Nat
  BY <1>2, Refreshed, FullType DEF BucketStates
<1>5. UNCHANGED <<keys, key_count>>
  BY DEF ReserveLocked
<1>6. kept = Remembered(filled, now)
  BY DEF Remembered
<1>7. next_id \in Nat
  BY DEF Inv, TypeOK
<1>8. /\ IsFiniteSet(AllActive) /\ active_reservations = Cardinality(AllActive)
      /\ active_reservations <= MaxActive /\ MaxActive \in Nat
  BY BucketAssumption DEF Books, ActiveCounted
<1>9. \/ /\ \/ /\ estimate * Unit > b.tokens
               /\ Deny(t, "WindowCapacity", RetryAfter(b.tokens, estimate), b.tokens)
            \/ Deny(t, "ReservationCapacity", ReservationTimeout, b.tokens)
         /\ bucket' = [bucket EXCEPT ![k] = b]
         /\ reservations' = Remembered(filled, now)
         /\ active_reservations' = active
         /\ UNCHANGED next_id
      \/ /\ active < MaxActive
         /\ op' = [op EXCEPT ![t] = [NoCall EXCEPT
                     !.call = "reserve", !.pc = "done", !.id = next_id,
                     !.result = "Admitted"]]
         /\ bucket' = [bucket EXCEPT ![k] =
              [b EXCEPT !.tokens = @ - estimate * Unit,
                        !.active = @ \cup {[id |-> next_id, estimate |-> estimate,
                                            created_at_ms |-> now]}]]
         /\ reservations' = Remembered(filled, now) \cup {[id |-> next_id, key |-> k]}
         /\ active_reservations' = active + 1
         /\ next_id' = next_id + 1
  BY DEF ReserveLocked
<1>10. KeysCounted'
  BY <1>5 DEF Books, KeysCounted
<1> HIDE DEF k, now, estimate, filled, b, X, kept
<1>11. ASSUME NEW result \in {"WindowCapacity", "ReservationCapacity"}, NEW retry,
              Deny(t, result, retry, b.tokens),
              result = "WindowCapacity" =>
                estimate * Unit > b.tokens /\ retry = RetryAfter(b.tokens, estimate),
              bucket' = [bucket EXCEPT ![k] = b],
              reservations' = Remembered(filled, now),
              active_reservations' = active, UNCHANGED next_id
       PROVE  Books'
  <2>1. PICK c : /\ op' = [op EXCEPT ![t] = c]
                 /\ c = [op[t] EXCEPT !.pc = "done", !.result = result,
                                      !.retry_after_ms = retry, !.balance = b.tokens]
    BY <1>11 DEF Deny
  <2>2. /\ c.pc = "done" /\ c.result = result /\ c.retry_after_ms = retry
        /\ c.balance = b.tokens /\ c.tokens = estimate
    BY <1>1, <2>1 DEF Calls, estimate
  <2>3. op'[t] = c /\ \A u \in Threads \ {t} : op'[u] = op[u]
    BY <2>1, OpAt
  <2>4. \A u \in Threads : /\ Locked(u)' <=> Locked(u)
                           /\ Locked(u) => op'[u] = op[u]
    BY <1>1, <2>2, <2>3 DEF Locked
  <2>5. bucket'[k] = b /\ \A j \in keys \ {k} : bucket'[j] = bucket[j]
    BY <1>2, <1>11, BucketAt
  <2>6. /\ keys' = keys /\ next_id' = next_id
        /\ bucket'[k].active = (bucket[k].active \ X) \cup {}
        /\ reservations' = {r \in reservations : \A x \in X : x.id # r.id} \cup {}
    BY <1>3, <1>5, <1>6, <1>11, <2>5 DEF kept
  <2>7. /\ IdsUnique' /\ IdsUsed' /\ IdsMapped' /\ IdsTaken' /\ IdsOwned'
        /\ IsFiniteSet(AllActive') /\ Cardinality(X) \in Nat
        /\ Cardinality(AllActive') = Cardinality(AllActive) - Cardinality(X)
        /\ Cardinality(AllActive) \in Nat
    BY <1>2, <1>3, <2>4, <2>5, <2>6, GuardedBooks
  <2>8. ActiveCounted'
    BY <1>8, <1>11, <2>7 DEF ActiveCounted
  <2>9. Removable'
    BY <1>5, <2>2, <2>3 DEF Books, Removable
  <2>10. DelayExact(c)
    BY <1>2, <1>4, <1>11, <2>2 DEF DelayExact
  <2>11. DelaysExact'
    BY <2>3, <2>10 DEF Books, DelaysExact, DelayExact
  <2> QED BY <1>10, <2>7, <2>8, <2>9, <2>11 DEF Books
<1>12. ASSUME active < MaxActive,
              op' = [op EXCEPT ![t] = [NoCall EXCEPT
                       !.call = "reserve", !.pc = "done", !.id = next_id,
                       !.result = "Admitted"]],
              bucket' = [bucket EXCEPT ![k] =
                [b EXCEPT !.tokens = @ - estimate * Unit,
                          !.active = @ \cup {[id |-> next_id, estimate |-> estimate,
                                              created_at_ms |-> now]}]],
              reservations' = Remembered(filled, now) \cup {[id |-> next_id, key |-> k]},
              active_reservations' = active + 1, next_id' = next_id + 1
       PROVE  Books'
  <2> DEFINE a == [id |-> next_id, estimate |-> estimate, created_at_ms |-> now]
             m == [id |-> next_id, key |-> k]
  <2>1. PICK c : /\ op' = [op EXCEPT ![t] = c]
                 /\ c = [NoCall EXCEPT !.call = "reserve", !.pc = "done",
                                       !.id = next_id, !.result = "Admitted"]
    BY <1>12
  <2>2. c.pc = "done" /\ c.result = "Admitted"
    BY <2>1 DEF NoCall
  <2>3. op'[t] = c /\ \A u \in Threads \ {t} : op'[u] = op[u]
    BY <2>1, OpAt
  <2>4. \A u \in Threads : /\ Locked(u)' <=> Locked(u)
                           /\ Locked(u) => op'[u] = op[u]
    BY <1>1, <2>2, <2>3 DEF Locked
  <2>5. a \in ActiveReservations /\ a.id = next_id
    BY <1>2, <1>7 DEF ActiveReservations
  <2>6. PICK n : /\ bucket' = [bucket EXCEPT ![k] = n]
                 /\ n = [b EXCEPT !.tokens = @ - estimate * Unit, !.active = @ \cup {a}]
    BY <1>12
  <2>7. reservations' = kept \cup {m}
    BY <1>6, <1>12
  <2> HIDE DEF a
  <2>8. n.active = b.active \cup {a}
    BY <1>4, <2>6 DEF BucketStates
  <2>9. bucket'[k] = n /\ \A j \in keys \ {k} : bucket'[j] = bucket[j]
    BY <1>2, <2>6, BucketAt
  <2>10. /\ keys' = keys /\ next_id' = next_id + 1
         /\ bucket'[k].active = (bucket[k].active \ X) \cup {a}
         /\ reservations' = {r \in reservations : \A x \in X : x.id # r.id} \cup {m}
    BY <1>3, <1>5, <1>12, <2>7, <2>8, <2>9 DEF kept
  <2>11. /\ IdsUnique' /\ IdsUsed' /\ IdsMapped' /\ IdsTaken' /\ IdsOwned'
         /\ IsFiniteSet(AllActive') /\ Cardinality(X) \in Nat
         /\ Cardinality(AllActive') = Cardinality(AllActive) - Cardinality(X) + 1
         /\ Cardinality(AllActive) \in Nat
    <3>1. {a} # {}
      OBVIOUS
    <3> QED BY <1>2, <1>3, <2>4, <2>5, <2>9, <2>10, <3>1, GuardedBooks
  <2>12. ActiveCounted'
    BY <1>8, <1>12, <2>11 DEF ActiveCounted
  <2>13. Removable'
    BY <1>5, <2>2, <2>3 DEF Books, Removable
  <2>14. DelaysExact'
    BY <2>2, <2>3 DEF Books, DelaysExact, DelayExact
  <2> QED BY <1>10, <2>11, <2>12, <2>13, <2>14 DEF Books
<1> HIDE DEF active
<1> QED BY <1>9, <1>11, <1>12

\* reconcile takes an id out of the id map, or finds it gone.
LEMMA ReconcileTakeBooks ==
  ASSUME Inv, Books, NEW t \in Threads, NEW id \in 1..(next_id - 1),
         NEW a \in Actuals \cup {None}, ReconcileTake(t, id, a)
  PROVE  Books'
<1>1. /\ op[t].pc = "idle"
      /\ UNCHANGED <<keys, bucket, next_id, key_count, active_reservations>>
  BY DEF ReconcileTake
<1>2. next_id \in Nat /\ id \in Nat /\ id < next_id
  BY DEF Inv, TypeOK
<1>3. CASE /\ op' = [op EXCEPT ![t] = [NoCall EXCEPT !.call = "reconcile", !.pc = "done",
                                       !.id = id, !.result = "Noop"]]
           /\ UNCHANGED reservations
  <2>1. PICK c : /\ op' = [op EXCEPT ![t] = c]
                 /\ c = [NoCall EXCEPT !.call = "reconcile", !.pc = "done",
                                       !.id = id, !.result = "Noop"]
    BY <1>3
  <2>2. c.pc = "done" /\ c.result = "Noop"
    BY <2>1 DEF NoCall
  <2>3. QuietCall(op[t], c)
    BY <1>1, <2>2, PlainQuiet
  <2> QED BY <1>1, <1>3, <2>1, <2>3, QuietStep
<1>4. ASSUME NEW r \in reservations, r.id = id,
             op' = [op EXCEPT ![t] = [NoCall EXCEPT
                      !.call = "reconcile", !.pc = "locked", !.id = id,
                      !.key = r.key, !.tokens = a, !.now = clock]],
             reservations' = reservations \ {r}
      PROVE  Books'
  <2>1. PICK c : /\ op' = [op EXCEPT ![t] = c]
                 /\ c = [NoCall EXCEPT !.call = "reconcile", !.pc = "locked",
                                       !.id = id, !.key = r.key, !.tokens = a,
                                       !.now = clock]
    BY <1>4
  <2>2. c.pc = "locked" /\ c.id = id /\ c.key = r.key /\ c.result = None
    BY <2>1 DEF NoCall
  <2>3. op'[t] = c /\ \A u \in Threads \ {t} : op'[u] = op[u]
    BY <2>1, OpAt
  <2>4. /\ \A u \in Threads \ {t} : Locked(u)' <=> Locked(u)
        /\ Locked(t)' /\ ~Locked(t)
    BY <1>1, <2>2, <2>3 DEF Locked
  <2>5. reservations' = reservations \ {r}
    BY <1>4
  <2>6. \A k \in keys : \A x \in bucket[k].active : x.id = id => k = r.key
    BY <1>4 DEF Books, IdsMapped, IdsUnique
  <2>7. \A s \in reservations : s.id = id => s = r
    <3> SUFFICES ASSUME NEW s \in reservations, s.id = id PROVE s = r
      OBVIOUS
    <3>1. s.key \in keys /\ \E x \in bucket[s.key].active : x.id = id
      BY DEF Books, IdsMapped
    <3>2. s.key = r.key
      BY <2>6, <3>1
    <3> QED BY <1>4, <3>2 DEF Inv, TypeOK
  <2>8. \A u \in Threads : Locked(u) => op[u].id # id
    BY <1>4 DEF Books, IdsTaken
  <2>9. KeysCounted' /\ ActiveCounted'
    BY <1>1 DEF Books, KeysCounted, ActiveCounted, AllActive
  <2>10. IdsUnique'
    BY <1>1 DEF Books, IdsUnique
  <2>11. IdsUsed'
    BY <1>1, <1>2, <2>2, <2>3, <2>4 DEF Books, IdsUsed
  <2>12. IdsMapped'
    BY <1>1, <2>5 DEF Books, IdsMapped
  <2>13. IdsTaken'
    <3>1. \A v, u \in Threads : Locked(v)' /\ Locked(u)' /\ op'[v].id = op'[u].id => v = u
      BY <2>2, <2>3, <2>4, <2>8 DEF Books, IdsTaken
    <3>2. \A u \in Threads : \A s \in reservations' : Locked(u)' => s.id # op'[u].id
      BY <2>2, <2>3, <2>4, <2>5, <2>7 DEF Books, IdsTaken
    <3>3. \A u \in Threads : \A k \in keys : \A x \in bucket[k].active :
            Locked(u)' /\ x.id = op'[u].id => k = op'[u].key
      BY <2>2, <2>3, <2>4, <2>6 DEF Books, IdsTaken
    <3> QED BY <1>1, <3>1, <3>2, <3>3 DEF IdsTaken
  <2>14. IdsOwned'
    <3> SUFFICES ASSUME NEW k \in keys, NEW x \in bucket[k].active
                 PROVE  \/ \E s \in reservations' : s.id = x.id
                        \/ \E u \in Threads : Locked(u)' /\ op'[u].id = x.id
      BY <1>1 DEF IdsOwned
    <3>1. CASE x.id = id
      BY <2>2, <2>3, <2>4, <3>1
    <3>2. CASE x.id # id
      <4>1. CASE \E s \in reservations : s.id = x.id
        BY <1>4, <2>5, <3>2, <4>1
      <4>2. CASE \E u \in Threads : Locked(u) /\ op[u].id = x.id
        BY <2>3, <2>4, <4>2
      <4> QED BY <4>1, <4>2 DEF Books, IdsOwned
    <3> QED BY <3>1, <3>2
  <2>15. Removable'
    BY <1>1, <2>2, <2>3 DEF Books, Removable
  <2>16. DelaysExact'
    BY <2>2, <2>3, InputAssumption DEF Books, DelaysExact, DelayExact
  <2> QED BY <2>9, <2>10, <2>11, <2>12, <2>13, <2>14, <2>15, <2>16 DEF Books
<1> QED BY <1>3, <1>4 DEF ReconcileTake

\* A thread gives up the id it had taken, when no reservation has that id.
LEMMA GiveUpBooks ==
  ASSUME Inv, Books, NEW t \in Threads, Locked(t), NEW c,
         op' = [op EXCEPT ![t] = c], c.pc = "done", c.result # "WindowCapacity",
         UNCHANGED <<keys, reservations, next_id>>,
         \A k \in keys : bucket'[k].active \subseteq bucket[k].active,
         \A k \in keys : \A x \in bucket'[k].active : x.id # op[t].id
  PROVE  /\ IdsUnique' /\ IdsUsed' /\ IdsTaken' /\ IdsOwned'
         /\ Removable' /\ DelaysExact'
         /\ (\A k \in keys : \A x \in bucket[k].active :
               x.id # op[t].id => x \in bucket'[k].active) => IdsMapped'
<1>1. op'[t] = c /\ \A u \in Threads \ {t} : op'[u] = op[u]
  BY OpAt
<1>2. /\ \A u \in Threads \ {t} : Locked(u)' <=> Locked(u)
      /\ ~Locked(t)'
  BY <1>1 DEF Locked
<1>3. IdsUnique'
  BY DEF Books, IdsUnique
<1>4. IdsUsed'
  BY <1>1, <1>2 DEF Books, IdsUsed
<1>5. IdsTaken'
  BY <1>1, <1>2 DEF Books, IdsTaken
<1>6. IdsOwned'
  <2> SUFFICES ASSUME NEW k \in keys, NEW x \in bucket'[k].active
               PROVE  \/ \E s \in reservations : s.id = x.id
                      \/ \E u \in Threads : Locked(u)' /\ op'[u].id = x.id
    BY DEF IdsOwned
  <2>1. x \in bucket[k].active /\ x.id # op[t].id
    OBVIOUS
  <2>2. CASE \E u \in Threads : Locked(u) /\ op[u].id = x.id
    BY <1>1, <1>2, <2>1, <2>2
  <2> QED BY <2>1, <2>2 DEF Books, IdsOwned
<1>7. Removable'
  BY <1>1 DEF Books, Removable
<1>8. DelaysExact'
  BY <1>1 DEF Books, DelaysExact, DelayExact
<1>9. ASSUME \A k \in keys : \A x \in bucket[k].active :
               x.id # op[t].id => x \in bucket'[k].active
      PROVE  IdsMapped'
  <2> SUFFICES ASSUME NEW r \in reservations
               PROVE  r.key \in keys /\ \E x \in bucket'[r.key].active : x.id = r.id
    BY DEF IdsMapped
  <2>1. r.key \in keys
    BY DEF Books, IdsMapped
  <2>2. PICK x \in bucket[r.key].active : x.id = r.id
    BY DEF Books, IdsMapped
  <2>3. r.id # op[t].id
    BY DEF Books, IdsTaken
  <2> QED BY <1>9, <2>1, <2>2, <2>3
<1> QED BY <1>3, <1>4, <1>5, <1>6, <1>7, <1>8, <1>9

\* reconcile finds that the reservation was reaped since its id was taken.
LEMMA ReconcileNoopBooks ==
  ASSUME Inv, Books, NEW t \in Threads, ReconcileNoop(t) PROVE Books'
<1>1. /\ op[t].pc = "locked" /\ Return(t, "Noop")
      /\ op[t].key \notin keys \/ \A r \in bucket[op[t].key].active : r.id # op[t].id
      /\ UNCHANGED <<keys, bucket, reservations, next_id, key_count, active_reservations>>
  BY DEF ReconcileNoop
<1>2. PICK c : op' = [op EXCEPT ![t] = c] /\ c.pc = "done" /\ c.result = "Noop"
  BY <1>1, ReturnFields
<1>3. Locked(t)
  BY <1>1 DEF Locked
<1>4. \A k \in keys : \A x \in bucket[k].active : x.id # op[t].id
  BY <1>1, <1>3 DEF Books, IdsTaken
<1>5. /\ \A k \in keys : bucket'[k].active \subseteq bucket[k].active
      /\ \A k \in keys : \A x \in bucket'[k].active : x.id # op[t].id
      /\ \A k \in keys : \A x \in bucket[k].active : x \in bucket'[k].active
      /\ UNCHANGED <<keys, reservations, next_id>>
  BY <1>1, <1>4
<1>6. /\ IdsUnique' /\ IdsUsed' /\ IdsMapped' /\ IdsTaken' /\ IdsOwned'
      /\ Removable' /\ DelaysExact'
  BY <1>2, <1>3, <1>5, GiveUpBooks
<1>7. KeysCounted' /\ ActiveCounted'
  BY <1>1 DEF Books, KeysCounted, ActiveCounted, AllActive
<1> QED BY <1>6, <1>7 DEF Books

\* reconcile settles the reservation and takes it off the count.
LEMMA ReconcileApplyBooks ==
  ASSUME Inv, Books, NEW t \in Threads, ReconcileApply(t) PROVE Books'
<1> DEFINE k == op[t].key
<1>1. /\ op[t].pc = "locked" /\ k \in keys
      /\ active_reservations' = active_reservations - 1
      /\ Return(t, "Applied")
      /\ UNCHANGED <<keys, reservations, next_id, key_count>>
  BY DEF ReconcileApply
<1>2. op[t].now \in Nat /\ bucket[k] \in BucketStates
  BY <1>1 DEF Inv, TypeOK, Calls
<1> DEFINE b == Refill(bucket[k], op[t].now)
<1>3. b \in BucketStates /\ b.active = bucket[k].active
  BY <1>2, RefillType
<1>4. PICK r \in bucket[k].active :
        /\ r.id = op[t].id
        /\ \E left : bucket' = [bucket EXCEPT ![k] =
                       [b EXCEPT !.tokens = left, !.active = @ \ {r}]]
  BY DEF ReconcileApply
<1> HIDE DEF b
<1>5. PICK n : /\ bucket' = [bucket EXCEPT ![k] = n]
               /\ \E left : n = [b EXCEPT !.tokens = left, !.active = @ \ {r}]
  BY <1>4
<1>6. n.active = bucket[k].active \ {r}
  BY <1>3, <1>5 DEF BucketStates
<1>7. bucket'[k] = n /\ \A j \in keys \ {k} : bucket'[j] = bucket[j]
  BY <1>1, <1>5, BucketAt
<1>8. PICK c : op' = [op EXCEPT ![t] = c] /\ c.pc = "done" /\ c.result = "Applied"
  BY <1>1, ReturnFields
<1>9. Locked(t)
  BY <1>1 DEF Locked
<1> HIDE DEF k
<1>10. \A j \in keys : bucket'[j].active \subseteq bucket[j].active
  BY <1>6, <1>7
<1>11. \A j \in keys : \A x \in bucket[j].active : x.id = op[t].id <=> j = k /\ x = r
  BY <1>1, <1>4 DEF Books, IdsUnique
<1>12. \A j \in keys : \A x \in bucket'[j].active : x.id # op[t].id
  BY <1>6, <1>7, <1>10, <1>11
<1>13. \A j \in keys : \A x \in bucket[j].active :
         x.id # op[t].id => x \in bucket'[j].active
  BY <1>4, <1>6, <1>7
<1>14. /\ IdsUnique' /\ IdsUsed' /\ IdsMapped' /\ IdsTaken' /\ IdsOwned'
       /\ Removable' /\ DelaysExact'
  <2>1. UNCHANGED <<keys, reservations, next_id>>
    BY <1>1
  <2> QED BY <1>8, <1>9, <1>10, <1>12, <1>13, <2>1, GiveUpBooks
<1>15. KeysCounted'
  BY <1>1 DEF Books, KeysCounted
<1>16. AllActive' = AllActive \ {r}
  <2>1. ASSUME NEW x \in AllActive' PROVE x \in AllActive \ {r}
    <3>1. PICK j \in keys : x \in bucket'[j].active
      BY <1>1, <2>1 DEF AllActive
    <3> QED BY <1>4, <1>10, <1>12, <3>1 DEF AllActive
  <2>2. ASSUME NEW x \in AllActive \ {r} PROVE x \in AllActive'
    <3>1. PICK j \in keys : x \in bucket[j].active
      BY <2>2 DEF AllActive
    <3> QED BY <1>1, <1>11, <1>13, <2>2, <3>1 DEF AllActive
  <2> QED BY <2>1, <2>2
<1>17. ActiveCounted'
  <2>1. /\ IsFiniteSet(AllActive) /\ active_reservations = Cardinality(AllActive)
        /\ active_reservations <= MaxActive /\ r \in AllActive
    BY <1>1, <1>4 DEF Books, ActiveCounted, AllActive
  <2>2. /\ IsFiniteSet(AllActive \ {r})
        /\ Cardinality(AllActive \ {r}) = Cardinality(AllActive) - 1
        /\ Cardinality(AllActive) \in Nat
    BY <2>1, FS_RemoveElement, FS_CardinalityType
  <2> QED BY <1>1, <1>16, <2>1, <2>2, BucketAssumption DEF ActiveCounted
<1> QED BY <1>14, <1>15, <1>17 DEF Books

\* Every step of every thread keeps the books.
LEMMA NextBooks == Inv /\ Books /\ [Next]_vars => Books'
<1> SUFFICES ASSUME Inv, Books, [Next]_vars PROVE Books'
  OBVIOUS
<1>1. CASE Tick
  BY <1>1, TickBooks
<1>2. ASSUME NEW k \in Keys, Observe(k) PROVE Books'
  BY <1>2, ObserveBooks
<1>3. ASSUME NEW t \in Threads, Step(t) PROVE Books'
  <2>1. CASE Leave(t)
    BY <2>1, LeaveBooks
  <2>2. ASSUME NEW k \in Keys, NEW e \in Estimates, ReserveBegin(t, k, e) PROVE Books'
    BY <2>2, ReserveBeginBooks
  <2>3. CASE ReserveInsert(t)
    BY <2>3, ReserveInsertBooks
  <2>4. CASE ReserveKeyCapacity(t)
    BY <2>4, ReserveKeyCapacityBooks
  <2>5. CASE ReserveLocked(t)
    BY <2>5, ReserveLockedBooks
  <2>6. ASSUME NEW id \in 1..(next_id - 1), NEW a \in Actuals \cup {None},
               ReconcileTake(t, id, a)
        PROVE  Books'
    BY <2>6, ReconcileTakeBooks
  <2>7. CASE ReconcileNoop(t)
    BY <2>7, ReconcileNoopBooks
  <2>8. CASE ReconcileApply(t)
    BY <2>8, ReconcileApplyBooks
  <2>9. CASE CleanupBegin(t)
    BY <2>9, CleanupBeginBooks
  <2>10. ASSUME NEW k \in Keys, CleanupSkip(t, k) PROVE Books'
    BY <2>10, CleanupSkipBooks
  <2>11. ASSUME NEW k \in Keys, CleanupLocked(t, k) PROVE Books'
    BY <2>11, CleanupLockedBooks
  <2>12. CASE CleanupRemove(t)
    BY <2>12, CleanupRemoveBooks
  <2>13. CASE CleanupKeep(t)
    BY <2>13, CleanupKeepBooks
  <2>14. CASE CleanupEnd(t)
    BY <2>14, CleanupEndBooks
  <2> QED BY <1>3, <2>1, <2>2, <2>3, <2>4, <2>5, <2>6, <2>7, <2>8, <2>9, <2>10,
             <2>11, <2>12, <2>13, <2>14 DEF Step
<1>4. CASE UNCHANGED vars
  <2>1. UNCHANGED <<keys, bucket, reservations, next_id, key_count, active_reservations, op>>
    BY <1>4 DEF vars
  <2> QED BY <2>1, QuietBooks, QuietSame
<1> QED BY <1>1, <1>2, <1>3, <1>4 DEF Next

\* The set of the elements with a property that exactly one element has.
LEMMA OneCounted ==
  ASSUME NEW S, NEW e, S = {e}
  PROVE  Cardinality(S) = 1
  BY FS_Singleton

\* The books give the counters and limits, and that each reservation can be
\* settled by exactly one reconcile.
LEMMA BooksBookkeeping == Inv /\ Books => Bookkeeping
<1> SUFFICES ASSUME Inv, Books PROVE Bookkeeping
  OBVIOUS
<1>1. CountersExact
  BY DEF Books, KeysCounted, ActiveCounted, AllActive, CountersExact
<1>2. \A r \in reservations :
        r.key \in keys /\ \E a \in bucket[r.key].active : a.id = r.id
  BY DEF Books, IdsMapped
<1>3. ASSUME NEW k \in keys, NEW a \in bucket[k].active
      PROVE  Cardinality({r \in reservations : r.id = a.id})
               + Cardinality({t \in Threads : op[t].pc = "locked" /\ op[t].id = a.id}) = 1
  <2> DEFINE R == {r \in reservations : r.id = a.id}
             T == {t \in Threads : op[t].pc = "locked" /\ op[t].id = a.id}
  <2>1. \A r, s \in R : r = s
    <3> SUFFICES ASSUME NEW r \in R, NEW s \in R PROVE r = s
      OBVIOUS
    <3>1. r.key = k /\ s.key = k
      BY <1>2 DEF Books, IdsUnique
    <3> QED BY <3>1 DEF Inv, TypeOK
  <2>2. \A t, u \in T : t = u
    BY DEF Books, IdsTaken, Locked
  <2>3. R = {} \/ T = {}
    BY DEF Books, IdsTaken, Locked
  <2>4. R # {} \/ T # {}
    BY DEF Books, IdsOwned, Locked
  <2> HIDE DEF R, T
  <2>5. Cardinality({}) = 0
    BY FS_EmptySet
  <2>6. ASSUME R # {} PROVE Cardinality(R) = 1 /\ Cardinality(T) = 0
    <3>1. PICK e : R = {e}
      BY <2>1, <2>6
    <3>2. T = {}
      BY <2>3, <2>6
    <3> QED BY <2>5, <3>1, <3>2, OneCounted
  <2>7. ASSUME T # {} PROVE Cardinality(R) = 0 /\ Cardinality(T) = 1
    <3>1. PICK e : T = {e}
      BY <2>2, <2>7
    <3>2. R = {}
      BY <2>3, <2>7
    <3> QED BY <2>5, <3>1, <3>2, OneCounted
  <2>8. Cardinality(R) + Cardinality(T) = 1
    BY <2>4, <2>6, <2>7
  <2> QED BY <2>8 DEF R, T
<1>4. ReservationsTracked
  BY <1>2, <1>3 DEF ReservationsTracked
<1>5. TypeOK
  BY DEF Inv
<1> QED BY <1>1, <1>4, <1>5 DEF Bookkeeping

\* A delay rounded up covers what it is for.
LEMMA RoundedUp ==
  ASSUME NEW d \in Nat, NEW q \in Nat, q = (d + RefillPerMs - 1) \div RefillPerMs
  PROVE  q * RefillPerMs >= d
<1> DEFINE R == RefillPerMs
           n == d + R - 1
<1>1. R \in Nat /\ R > 0
  BY BucketAssumption
<1>2. n \in Nat
  BY <1>1
<1>3. \A x \in Nat : \A y \in Nat \ {0} : x < (x \div y) * y + y
  OBVIOUS
<1>4. n < q * R + R
  BY <1>1, <1>2, <1>3
<1>5. q * R \in Nat
  BY <1>1
<1> QED BY <1>1, <1>4, <1>5

\* A larger number of tokens is a larger number of units.
LEMMA UnitsMonotone ==
  ASSUME NEW m \in Nat, NEW n \in Nat, m <= n
  PROVE  m * Unit <= n * Unit
<1>1. Unit \in Nat
  BY BucketAssumption
<1> DEFINE d == n - m
<1>2. d \in Nat /\ n = m + d
  OBVIOUS
<1> HIDE DEF d
<1>3. n * Unit = m * Unit + d * Unit
  <2>1. \A x, y \in Int : (x + y) * Unit = x * Unit + y * Unit
    BY <1>1
  <2> QED BY <1>2, <2>1
<1>4. d * Unit \in Nat /\ m * Unit \in Nat
  BY <1>1, <1>2
<1> QED BY <1>3, <1>4

\* The delay of a denial is enough for the balance it was computed from.
LEMMA BooksDelays == Inv /\ Books => DenialDelaySuffices
<1> SUFFICES ASSUME Inv, Books, NEW t \in Threads, op[t].result = "WindowCapacity",
                    op[t].tokens <= Capacity
             PROVE  AtMost(op[t].balance + op[t].retry_after_ms * RefillPerMs, Full)
                      >= op[t].tokens * Unit
  BY DEF DenialDelaySuffices
<1> DEFINE tokens == op[t].tokens
           balance == op[t].balance
           delay == op[t].retry_after_ms
           lack == tokens * Unit - balance
<1>1. /\ tokens \in Nat /\ balance \in Nat /\ tokens * Unit > balance
      /\ delay = RetryAfter(balance, tokens)
  BY DEF Books, DelaysExact, DelayExact
<1>2. tokens * Unit \in Nat
  BY <1>1, BucketAssumption
<1>3. lack \in Nat
  BY <1>1, <1>2
<1>4. delay \in Nat
  BY <1>1, RetryAfterType
<1>5. delay = (lack + RefillPerMs - 1) \div RefillPerMs
  BY <1>1 DEF RetryAfter
<1>6. delay * RefillPerMs >= lack
  <2> HIDE DEF delay, lack
  <2> QED BY <1>3, <1>4, <1>5, RoundedUp
<1>7. tokens * Unit <= Full
  BY <1>1, BucketAssumption, UnitsMonotone DEF Full
<1>8. delay * RefillPerMs \in Nat
  BY <1>4, BucketAssumption
<1> DEFINE gain == delay * RefillPerMs
<1>9. gain \in Nat /\ gain >= lack
  BY <1>6, <1>8
<1> HIDE DEF gain
<1>10. balance + gain >= tokens * Unit
  BY <1>1, <1>2, <1>9
<1>11. AtMost(balance + gain, Full) >= tokens * Unit
  BY <1>1, <1>2, <1>7, <1>9, <1>10, FullType DEF AtMost
<1> QED BY <1>11 DEF gain

\* The invariant of the buckets and of the books.
LEMMA BookInvariant == Spec => []BookInv
  BY InitInv, InitBooks, NextInv, NextBooks, PTL DEF Spec, BookInv

\* For any number of threads and keys, the counters and the limits of the ledger
\* are those of its maps, no id is left behind, and every active reservation can
\* be settled by exactly one reconcile.
THEOREM BookkeepingExact == Spec => []Bookkeeping
  BY BooksBookkeeping, BookInvariant, PTL DEF BookInv

\* The retry_after_ms of a denial is long enough for every capacity, refill rate,
\* balance and estimate that the bucket can hold at all.
THEOREM DelaysSuffice == Spec => []DenialDelaySuffices
  BY BooksDelays, BookInvariant, PTL DEF BookInv

=============================================================================
