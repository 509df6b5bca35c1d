---------------------------- MODULE ValkeyBucket ----------------------------
(***************************************************************************)
(* The token bucket kept in a Valkey server that several gateways share.   *)
(* The refill is a read-modify-write, so reserve and reconcile read under  *)
(* WATCH, compute the new balance on the gateway and write it in a         *)
(* MULTI/EXEC that aborts when the bucket (or, for a settlement, the       *)
(* reservation) has changed since.  An aborted attempt is repeated until a *)
(* deadline.  A transaction whose reply is lost may never run, may have    *)
(* run, or runs after its client has given up (wire).                      *)
(*                                                                         *)
(* Requests of every gateway are processes of one set; a settlement is     *)
(* attempted up to three times, as by the reconcile worker.  Balances are  *)
(* whole tokens and the rate is whole tokens per unit of time.  The expiry *)
(* of the index keys is left out (they outlive their members), and so are  *)
(* the gauges.                                                             *)
(***************************************************************************)
EXTENDS Integers, FiniteSets, Functions

CONSTANTS
    TbRequests, TbKeys, TbEstimates, TbActuals,
    TbCapacity, RefillRate, TbTimeout, TbMaxKeys, TbMaxActive,
    TbMaxTime         \* bound on the clock

ASSUME BucketStateAssumption ==
    /\ IsFiniteSet(TbRequests) /\ TbEstimates \subseteq Nat /\ TbActuals \subseteq Nat
    /\ TbCapacity \in Nat /\ RefillRate \in Nat \ {0}
    /\ TbTimeout \in Nat \ {0} /\ TbMaxKeys \in Nat /\ TbMaxActive \in Nat
    /\ TbMaxTime \in Nat

VARIABLES
    tbNow,
    bucket,     \* bucket[k]: balance, time of its refill, expiry; or Absent
    tbResv,     \* tbResv[r]: the reservation key of request r; or Absent
    tbActive,   \* deadline-scored index of unsettled reservations
    tbRetained, \* deadline-scored index of keys; 0 for a key not in it
    tbReq,      \* tbReq[r]: progress of request r, reserve then settlement
    tbWire,     \* transactions the client gave up on that may still run
    tbCharge,   \* history: what request r has been charged
    tbLag       \* history: tbLag[k], how long transactions that re-created k's
                \* bucket were overdue when they ran

tbServer == <<bucket, tbResv, tbActive, tbRetained, tbCharge, tbLag>>
tbVars == <<tbNow, tbServer, tbReq, tbWire>>

Absent == [until |-> 0]

Least(a, b) == IF a < b THEN a ELSE b
Most(a, b) == IF a > b THEN a ELSE b

\* The time an empty bucket takes to fill, plus the reservation timeout.
StateTtl == (TbCapacity + RefillRate - 1) \div RefillRate + TbTimeout

\* refill: the balance at time t; a missing bucket is full.
Refill(b, t) ==
    IF b = Absent THEN TbCapacity
    ELSE Least(TbCapacity, b.tokens + Most(0, t - b.last) * RefillRate)

\* deny_reason, in the order of its checks; "admit" if there is none.
Deny(reads, tokens, est) ==
    IF ~reads.known /\ reads.keys >= TbMaxKeys THEN "KeyCapacity"
    ELSE IF reads.active >= TbMaxActive THEN "ReservationCapacity"
    ELSE IF est > tokens THEN "WindowCapacity"
    ELSE "admit"

\* settled: refund capped at the capacity, overage floored at zero.
Settled(tokens, est, actual) == Most(0, Least(TbCapacity, tokens + est - actual))

-----------------------------------------------------------------------------
TbInit ==
    /\ tbNow = 0
    /\ bucket = [k \in TbKeys |-> Absent] /\ tbResv = [r \in TbRequests |-> Absent]
    /\ tbActive = {} /\ tbRetained = [k \in TbKeys |-> 0]
    /\ tbReq = [r \in TbRequests |-> [pc |-> "idle"]]
    /\ tbWire = {}
    /\ tbCharge = [r \in TbRequests |-> Absent] /\ tbLag = [k \in TbKeys |-> 0]

\* Defect: the refill time is that of the writer, whatever was there.
WrittenBucketOwnClock(k, tokens, at) ==
    [tokens |-> tokens, until |-> tbNow + StateTtl, last |-> at]

\* write_bucket: the refill time never moves backwards.
WrittenBucket(k, tokens, at) ==
    [tokens |-> tokens, until |-> tbNow + StateTtl,
     last |-> IF bucket[k] = Absent THEN at ELSE Most(bucket[k].last, at)]

\* A transaction is overdue when its clock reading is older than the reservation
\* timeout: nothing in the code bounds the time between the two.
Overdue(t) == Most(0, tbNow - t.at - TbTimeout)

\* reservation_pipeline
ReserveRuns(t) ==
    /\ bucket' = [bucket EXCEPT ![t.key] = WrittenBucket(t.key, t.tokens, t.at)]
    /\ tbResv' = [tbResv EXCEPT ![t.r] = [est |-> t.est, until |-> tbNow + TbTimeout]]
    /\ tbActive' = tbActive \cup {[r |-> t.r, deadline |-> t.at + TbTimeout]}
    /\ tbRetained' = [tbRetained EXCEPT ![t.key] = Most(@, t.at + StateTtl)]
    /\ tbCharge' = [tbCharge EXCEPT ![t.r] = [est |-> t.est, amount |-> t.est, key |-> t.key]]
    /\ tbLag' = [tbLag EXCEPT ![t.key] = @ + IF bucket[t.key] = Absent THEN Overdue(t) ELSE 0]

\* settlement_pipeline
SettlementRuns(t) ==
    /\ bucket' = [bucket EXCEPT ![t.key] = WrittenBucket(t.key, t.tokens, t.at)]
    /\ tbRetained' = [tbRetained EXCEPT ![t.key] = Most(@, t.at + StateTtl)]
    /\ tbResv' = [tbResv EXCEPT ![t.r] = Absent]
    /\ tbActive' = {a \in tbActive : a.r # t.r}
    /\ tbCharge' = [tbCharge EXCEPT ![t.r].amount = t.actual]
    /\ UNCHANGED tbLag

Run(t) == IF t.kind = "reserve" THEN ReserveRuns(t) ELSE SettlementRuns(t)

\* The bucket of key k was written: every WATCH of it is spoilt.
SpoiltWire(k) == {IF t.key = k THEN [t EXCEPT !.clean = FALSE] ELSE t : t \in tbWire}
SpoiltReq(k) == [s \in TbRequests |->
    IF tbReq[s].pc \in {"exec", "settle_exec"} /\ tbReq[s].key = k
    THEN [tbReq[s] EXCEPT !.tx.clean = FALSE] ELSE tbReq[s]]

\* EXEC runs only with every watched key as it was read.
MayRun(t) == t.clean

-----------------------------------------------------------------------------
TbBegin(r) ==
    /\ tbReq[r].pc = "idle"
    /\ \E k \in TbKeys, e \in TbEstimates :
         tbReq' = [tbReq EXCEPT ![r] = [pc |-> "read", key |-> k, est |-> e, at |-> tbNow]]
    /\ UNCHANGED <<tbNow, tbServer, tbWire>>

\* read_bucket: WATCH, read, trim the indexes and draw an id; then decide.
ReadBucket(r) ==
    LET q == tbReq[r]
        kept == {a \in tbActive : a.deadline > q.at}
        keys == {k \in TbKeys : tbRetained[k] > q.at}
        reads == [active |-> Cardinality(kept), keys |-> Cardinality(keys),
                  known |-> q.key \in keys]
        tokens == Refill(bucket[q.key], q.at)
    IN  /\ q.pc = "read"
        /\ tbActive' = kept
        /\ tbRetained' = [k \in TbKeys |-> IF k \in keys THEN tbRetained[k] ELSE 0]
        /\ tbReq' = [tbReq EXCEPT ![r] =
             IF Deny(reads, tokens, q.est) # "admit" THEN [pc |-> "over"]
             ELSE [pc |-> "exec", key |-> q.key,
                   tx |-> [kind |-> "reserve", r |-> r, key |-> q.key, at |-> q.at,
                           est |-> q.est, tokens |-> tokens - q.est, clean |-> TRUE]]]
        /\ UNCHANGED <<tbNow, bucket, tbResv, tbWire, tbCharge, tbLag>>

\* The actual usage is known, within or after the reservation's lifetime.
Respond(r) ==
    /\ tbReq[r].pc = "admitted"
    /\ \E a \in TbActuals :
         tbReq' = [tbReq EXCEPT ![r] = [pc |-> "settle_read", key |-> tbReq[r].key, at |-> tbNow,
                                    actual |-> a, tries |-> 0]]
    /\ UNCHANGED <<tbNow, tbServer, tbWire>>

\* read_reservation: WATCH of bucket and reservation; absent, a no-op.
ReadReservation(r) ==
    LET q == tbReq[r]
    IN  /\ q.pc = "settle_read"
        /\ tbReq' = [tbReq EXCEPT ![r] =
             IF tbResv[r] = Absent THEN [pc |-> "settled"]
             ELSE [pc |-> "settle_exec", key |-> q.key, at |-> q.at, actual |-> q.actual,
                   tries |-> q.tries,
                   tx |-> [kind |-> "settle", r |-> r, key |-> q.key, at |-> q.at,
                           actual |-> q.actual, clean |-> TRUE,
                           tokens |-> Settled(Refill(bucket[q.key], q.at),
                                              tbResv[r].est, q.actual)]]]
        /\ UNCHANGED <<tbNow, tbServer, tbWire>>

\* EXEC with its reply; aborted, the attempt starts again.
Exec(r) ==
    LET q == tbReq[r]
        t == q.tx
    IN  /\ q.pc \in {"exec", "settle_exec"}
        /\ IF MayRun(t)
           THEN /\ Run(t)
                /\ tbReq' = [SpoiltReq(t.key) EXCEPT ![r] =
                     IF q.pc = "exec" THEN [pc |-> "admitted", key |-> t.key]
                     ELSE [pc |-> "settled"]]
                /\ tbWire' = SpoiltWire(t.key)
           ELSE /\ tbReq' = [tbReq EXCEPT ![r] =
                     IF q.pc = "exec"
                     THEN [pc |-> "read", key |-> t.key, est |-> t.est, at |-> t.at]
                     ELSE [pc |-> "settle_read", key |-> q.key, at |-> q.at,
                           actual |-> q.actual, tries |-> q.tries]]
                /\ UNCHANGED <<tbServer, tbWire>>
        /\ UNCHANGED tbNow

\* An attempt fails, at the deadline or for want of a reply.  A reserve fails
\* closed; a settlement is retried twice.  The connection is not reused, but
\* what was sent on it may still arrive.
TbFails(r) ==
    LET q == tbReq[r]
    IN  /\ q.pc \in {"read", "exec", "settle_read", "settle_exec"}
        /\ tbReq' = [tbReq EXCEPT ![r] =
             IF q.pc \in {"read", "exec"} \/ q.tries = 2 THEN [pc |-> "over"]
             ELSE [pc |-> "settle_read", key |-> q.key, at |-> q.at, actual |-> q.actual,
                   tries |-> q.tries + 1]]
        /\ \/ tbWire' = tbWire
           \/ q.pc \in {"exec", "settle_exec"} /\ tbWire' = tbWire \cup {q.tx}
        /\ UNCHANGED <<tbNow, tbServer>>

TbLateRun(t) ==
    /\ t \in tbWire /\ MayRun(t)
    /\ Run(t) /\ tbReq' = SpoiltReq(t.key) /\ tbWire' = SpoiltWire(t.key)
    /\ UNCHANGED tbNow

\* Time passes.  An expired key is a changed one for whoever watches it.
TbTick ==
    LET gone == {k \in TbKeys : bucket[k] # Absent /\ bucket[k].until <= tbNow + 1}
        dead == {r \in TbRequests : tbResv[r] # Absent /\ tbResv[r].until <= tbNow + 1}
        stale(t) == t.key \in gone \/ (t.kind = "settle" /\ t.r \in dead)
        spoil(t) == IF stale(t) THEN [t EXCEPT !.clean = FALSE] ELSE t
    IN  /\ tbNow < TbMaxTime /\ tbNow' = tbNow + 1
        /\ bucket' = [k \in TbKeys |-> IF k \in gone THEN Absent ELSE bucket[k]]
        /\ tbResv' = [r \in TbRequests |-> IF r \in dead THEN Absent ELSE tbResv[r]]
        /\ tbReq' = [r \in TbRequests |-> IF tbReq[r].pc \in {"exec", "settle_exec"}
                     THEN [tbReq[r] EXCEPT !.tx = spoil(@)] ELSE tbReq[r]]
        /\ tbWire' = {spoil(t) : t \in tbWire}
        /\ UNCHANGED <<tbActive, tbRetained, tbCharge, tbLag>>

TbNext ==
    \/ \E r \in TbRequests : \/ TbBegin(r) \/ ReadBucket(r) \/ Respond(r) \/ ReadReservation(r)
                           \/ Exec(r) \/ TbFails(r)
    \/ \E t \in tbWire : TbLateRun(t)
    \/ TbTick

TbSpec == TbInit /\ [][TbNext]_tbVars

-----------------------------------------------------------------------------
ChargedTo(k) == {r \in TbRequests : tbCharge[r] # Absent /\ tbCharge[r].key = k}

\* What the admissions of a key have cost so far, no more than was estimated.
Granted(k) ==
    SumFunctionOnSet([r \in ChargedTo(k) |-> Least(tbCharge[r].est, tbCharge[r].amount)],
                     ChargedTo(k))

\* Whatever the races, retries and late transactions, a key is granted no more
\* than a full bucket plus what has been refilled, where time counts twice only
\* as long as transactions that re-created the bucket were overdue: such a one
\* dates the bucket back to before it expired.
GrantsBounded ==
    \A k \in TbKeys :
        Granted(k) + Refill(bucket[k], tbNow) <= TbCapacity + RefillRate * (tbNow + tbLag[k])

\* "it never overcredits": without that exception.  A request that stalls between
\* its clock reading and its reads until the bucket has expired breaks it.
NeverOvercredits ==
    \A k \in TbKeys : Granted(k) + Refill(bucket[k], tbNow) <= TbCapacity + RefillRate * tbNow

\* A balance is between zero and the capacity, so refill never refuses the
\* stored value as invalid.
BalanceInRange ==
    \A k \in TbKeys : bucket[k] # Absent => bucket[k].tokens \in 0..TbCapacity

\* The two together: the shared bucket grants no more than was refilled, overdue
\* time included, and every balance written is one that refill accepts.
BucketGrants == GrantsBounded /\ BalanceInRange

\* "after that an untouched bucket is indistinguishable from a new one": a
\* bucket is dropped by its TTL only when it is full.
ExpiryHarmless ==
    [][\A k \in TbKeys : (bucket[k] # Absent /\ bucket'[k] = Absent)
                         => Refill(bucket[k], tbNow') = TbCapacity]_tbVars

\* A reservation is settled at most once, and one that expired is never
\* refunded: what a request reported settled was charged stays.
SettledOnce ==
    [][\A r \in TbRequests : (tbCharge[r] # Absent /\ tbResv[r] = Absent) => tbCharge'[r] = tbCharge[r]]_tbVars
=============================================================================
