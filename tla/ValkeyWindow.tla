---------------------------- MODULE ValkeyWindow ----------------------------
(***************************************************************************)
(* The sliding-window rate limit kept in a Valkey server that several      *)
(* gateways share, and the background worker of each gateway that settles  *)
(* reservations after the response has been sent.                          *)
(*                                                                         *)
(* A request reads the window in one pipeline, decides on what it read,    *)
(* draws an id and commits its charge in a second, atomic pipeline: other  *)
(* gateways act between the two.  A settlement is one WATCHed transaction. *)
(* A pipeline whose reply is lost may have run, may never run, or may run  *)
(* later, after the client has given up on it (wire).                      *)
(*                                                                         *)
(* One rule with one budget; a sub-window is Width units of time.  The     *)
(* expiry of the two index keys is left out: they outlive every member.    *)
(* Gauges and counters of the telemetry are left out.                      *)
(***************************************************************************)
EXTENDS Integers, Sequences, FiniteSets, FiniteSetsExt, Functions

CONSTANTS
    Gateways,         \* replicas, each with one reconcile worker
    Requests,         \* requests, each made once
    Home,             \* Home[r]: the gateway that serves request r
    Keys,             \* budget keys
    Estimates,        \* estimates a request may reserve
    Actuals,          \* usage a response may report; Unknown if it reports none
    Unknown,          \* "no usage reported": charged at the estimate
    Capacity, Window, Width, Timeout,
    MaxKeys, MaxActive,
    QueueLimit,       \* slots of the reconcile queue (1024 in the code)
    MaxTime           \* bound on the clock

ASSUME ValkeyWindowAssumption ==
    /\ IsFiniteSet(Requests) /\ Home \in [Requests -> Gateways]
    /\ Estimates \subseteq Nat /\ Unknown \in Int \ Nat
    /\ Actuals \subseteq Nat \cup {Unknown}
    /\ Capacity \in Nat /\ Window \in Nat /\ MaxTime \in Nat
    /\ Width \in Nat \ {0} /\ Timeout \in Nat \ {0}
    /\ MaxKeys \in Nat /\ MaxActive \in Nat /\ QueueLimit \in Nat

VARIABLES
    now,        \* the clock of the gateways and of the server
    usage,      \* usage[k][b]: counter of key k's sub-window b, and its expiry
    resv,       \* resv[i]: the reservation key of id i, with its expiry
    active,     \* deadline-scored index of unsettled reservations
    retained,   \* deadline-scored index of keys; 0 for a key not in it
    seq,        \* the id sequence
    req,        \* req[r]: progress of request r
    queue,      \* queue[g]: settlements waiting for the worker of g
    worker,     \* worker[g]: the settlement the worker of g is at
    wire,       \* transactions the client gave up on that may still run
    charge,     \* history: charge[i], what id i has been charged
    outcome     \* history: outcome[i], what the worker of id i reported

server == <<usage, resv, active, retained, charge>>
vars == <<now, server, seq, req, queue, worker, wire, outcome>>

Ids == 1..Cardinality(Requests)
Buckets == 0..(MaxTime \div Width)

\* A reservation or a charge that is not there.
Void == [until |-> 0]
Idle == [pc |-> "idle"]
Over == [pc |-> "over"]
UnderWay(r) == req[r].pc \notin {"idle", "denied", "over"}

\* window.rs: the sub-window of an instant.
Bucket(t) == t \div Width

\* Defect: the sub-window of the instant itself is not read.
CoveringShort(t) == Bucket(IF t > Window THEN t - Window ELSE 0) .. (Bucket(t) - 1)

\* The sub-windows a decision sums; the oldest is counted in full.
Covering(t) == Bucket(IF t > Window THEN t - Window ELSE 0) .. Bucket(t)

\* The lifetime of a counter and of a retained key.
Ttl == Window + Timeout + Width

Counter(k, b) == usage[k][b].n
Live(i) == resv[i] # Void
Pos(n) == IF n > 0 THEN n ELSE 0

\* What the counters read say is used.
Used(counters) ==
    SumFunctionOnSet([b \in DOMAIN counters |-> Pos(counters[b])], DOMAIN counters)

\* Defect: the oldest sub-window is taken to free enough, whatever it holds.
RetryAfterFirst(counters, est, t) ==
    Max({1, (Min(DOMAIN counters) + 1) * Width + Window - t})

\* The delay after which enough of the counters read has left the window.
RetryAfter(counters, est, t) ==
    LET needed == Used(counters) + est - Capacity
        upTo(b) == MapThenSumSet(LAMBDA c : Pos(counters[c]),
                                 {c \in DOMAIN counters : c <= b})
        enough == {b \in DOMAIN counters : upTo(b) >= needed}
        freeing == IF enough = {} THEN Max(DOMAIN counters) ELSE Min(enough)
        leaves == (freeing + 1) * Width + Window
    IN  Max({1, leaves - t})

\* The decision on what was read; "admit" or the reason of the denial.
Decide(reads, est) ==
    IF ~reads.known /\ reads.keys >= MaxKeys THEN "KeyCapacity"
    ELSE IF reads.active >= MaxActive THEN "ReservationCapacity"
    ELSE IF Used(reads.counters) + est > Capacity THEN "WindowCapacity"
    ELSE "admit"

-----------------------------------------------------------------------------
Init ==
    /\ now = 0
    /\ usage = [k \in Keys |-> [b \in Buckets |-> [n |-> 0, until |-> 0]]]
    /\ resv = [i \in Ids |-> Void]
    /\ active = {} /\ retained = [k \in Keys |-> 0] /\ seq = 0
    /\ req = [r \in Requests |-> Idle]
    /\ queue = [g \in Gateways |-> <<>>]
    /\ worker = [g \in Gateways |-> Idle]
    /\ wire = {}
    /\ charge = [i \in Ids |-> Void] /\ outcome = [i \in Ids |-> "none"]

\* INCRBY of the sub-window of instant at, and its TTL extended.
AddUsage(k, at, delta) ==
    usage' = [usage EXCEPT ![k][Bucket(at)] = [n |-> @.n + delta, until |-> now + Ttl]]

\* ZADD GT: a retained key's deadline is never shortened.
RetainKey(k, at) == retained' = [retained EXCEPT ![k] = Max({@, at + Ttl})]

\* The score of a reservation in the active index.
Deadline(at) == at + Timeout

\* The admission transaction: charge, reservation and both indexes at once.
RunAdmit(t) ==
    /\ AddUsage(t.key, t.at, t.est)
    /\ resv' = [resv EXCEPT ![t.id] = [key |-> t.key, est |-> t.est, at |-> t.at,
                                       until |-> now + Timeout]]
    /\ active' = active \cup {[id |-> t.id, deadline |-> Deadline(t.at)]}
    /\ RetainKey(t.key, t.at)
    /\ charge' = [charge EXCEPT ![t.id] = [key |-> t.key, at |-> t.at, est |-> t.est,
                                           amount |-> t.est, raced |-> t.raced]]

\* Defect: the reservation is not watched, EXEC applies the delta it was given.
RunSettleUnwatched(t) ==
    /\ AddUsage(t.key, charge[t.id].at, t.actual - charge[t.id].est)
    /\ RetainKey(t.key, t.at)
    /\ resv' = [resv EXCEPT ![t.id] = Void]
    /\ active' = {a \in active : a.id # t.id}
    /\ charge' = [charge EXCEPT ![t.id].amount = t.actual]

\* The settlement transaction.  It runs only if the watched reservation is
\* still there: settled or expired, EXEC aborts and nothing changes.
RunSettle(t) ==
    IF Live(t.id)
    THEN /\ AddUsage(t.key, resv[t.id].at, t.actual - resv[t.id].est)
         /\ RetainKey(t.key, t.at)
         /\ resv' = [resv EXCEPT ![t.id] = Void]
         /\ active' = {a \in active : a.id # t.id}
         /\ charge' = [charge EXCEPT ![t.id].amount = t.actual]
    ELSE UNCHANGED server

\* An admission makes every other request under way a racing one (history only).
Racing(own) == [s \in Requests |->
    IF s \notin own /\ req[s].pc \in {"read", "draw", "commit"} THEN [req[s] EXCEPT !.raced = TRUE]
    ELSE req[s]]

\* The same for a transaction that may run late.
RacingWire(t) == {[u EXCEPT !.raced = TRUE] : u \in wire \ {t}}

-----------------------------------------------------------------------------
(* A request: begin, read and decide, draw an id, commit, finish.          *)

Begin(r) ==
    /\ req[r].pc = "idle"
    /\ \E k \in Keys, e \in Estimates :
         req' = [req EXCEPT ![r] = [pc |-> "read", key |-> k, est |-> e, at |-> now,
                                    id |-> 0, raced |-> FALSE]]
    /\ UNCHANGED <<now, server, seq, queue, worker, wire, outcome>>

\* ZREMRANGEBYSCORE of both indexes, up to the request's own time.
Kept(t) == {a \in active : a.deadline > t}
KeptKeys(t) == {k \in Keys : retained[k] > t}
Trim(t) ==
    /\ active' = Kept(t)
    /\ retained' = [k \in Keys |-> IF k \in KeptKeys(t) THEN retained[k] ELSE 0]

\* read_window trims and reads in one pipeline, then decides.
ReadWindow(r) ==
    LET q == req[r]
        keys == KeptKeys(q.at)
        reads == [counters |-> [b \in Covering(q.at) |-> Counter(q.key, b)],
                  active |-> Cardinality(Kept(q.at)), keys |-> Cardinality(keys),
                  known |-> q.key \in keys]
        verdict == Decide(reads, q.est)
    IN  /\ q.pc = "read"
        /\ Trim(q.at)
        /\ req' = [req EXCEPT ![r] =
             IF verdict = "admit" THEN [q EXCEPT !.pc = "draw"]
             ELSE IF verdict = "WindowCapacity"
             THEN [pc |-> "denied", est |-> q.est, at |-> q.at, counters |-> reads.counters,
                   hint |-> RetryAfter(reads.counters, q.est, q.at)]
             ELSE Over]
        /\ UNCHANGED <<now, usage, resv, seq, queue, worker, wire, charge, outcome>>

\* admit: INCR of the sequence in a pipeline of its own.
DrawId(r) ==
    /\ req[r].pc = "draw"
    /\ seq' = seq + 1
    /\ req' = [req EXCEPT ![r].pc = "commit", ![r].id = seq + 1]
    /\ UNCHANGED <<now, server, queue, worker, wire, outcome>>

AdmitTx(r) == [kind |-> "admit", id |-> req[r].id, key |-> req[r].key, at |-> req[r].at,
               est |-> req[r].est, raced |-> req[r].raced]

Commit(r) ==
    /\ req[r].pc = "commit"
    /\ RunAdmit(AdmitTx(r))
    /\ req' = [Racing({r}) EXCEPT ![r].pc = "admitted"]
    /\ wire' = RacingWire(AdmitTx(r))
    /\ UNCHANGED <<now, seq, queue, worker, outcome>>

\* A pipeline fails: it never reached the server, only its reply was lost, or
\* (for the commit) it is still in transit.
RequestFails(r) ==
    /\ req[r].pc \in {"read", "draw", "commit"}
    /\ req' = [req EXCEPT ![r] = Over]
    /\ \/ UNCHANGED <<active, retained, seq, wire>>
       \/ req[r].pc = "read" /\ Trim(req[r].at) /\ UNCHANGED <<seq, wire>>
       \/ req[r].pc = "draw" /\ seq' = seq + 1 /\ UNCHANGED <<active, retained, wire>>
       \/ req[r].pc = "commit" /\ wire' = wire \cup {AdmitTx(r)}
          /\ UNCHANGED <<active, retained, seq>>
    /\ UNCHANGED <<now, usage, resv, charge, queue, worker, outcome>>

\* try_send on a full channel drops the settlement.
Full(g) == Len(queue[g]) >= QueueLimit

\* The response is over: try_send of the settlement, dropped on a full queue.
Finish(r) ==
    LET g == Home[r]
    IN  /\ req[r].pc = "admitted"
        /\ \E a \in Actuals :
             queue' = IF Full(g) THEN queue ELSE
                [queue EXCEPT ![g] = Append(@, [id |-> req[r].id, key |-> req[r].key,
                                                actual |-> a, at |-> now])]
        /\ req' = [req EXCEPT ![r] = Over]
        /\ UNCHANGED <<now, server, seq, worker, wire, outcome>>

-----------------------------------------------------------------------------
(* The worker of a gateway.                                                *)

WorkerTake(g) ==
    /\ worker[g].pc = "idle" /\ queue[g] # <<>>
    /\ worker' = [worker EXCEPT ![g] = [pc |-> "read", job |-> Head(queue[g]), tries |-> 0]]
    /\ queue' = [queue EXCEPT ![g] = Tail(@)]
    /\ UNCHANGED <<now, server, seq, req, wire, outcome>>

Report(g, what) ==
    /\ outcome' = [outcome EXCEPT ![worker[g].job.id] = what]
    /\ worker' = [worker EXCEPT ![g] = Idle]

\* WATCH and GET of the reservation: absent, the settlement is a no-op.
WorkerRead(g) ==
    /\ worker[g].pc = "read"
    /\ IF Live(worker[g].job.id)
       THEN worker' = [worker EXCEPT ![g].pc = "exec"] /\ UNCHANGED outcome
       ELSE Report(g, "noop")
    /\ UNCHANGED <<now, server, seq, req, queue, wire>>

SettleTx(g) ==
    LET j == worker[g].job
    IN  [kind |-> "settle", id |-> j.id, key |-> j.key, at |-> j.at, raced |-> FALSE,
         actual |-> IF j.actual = Unknown THEN charge[j.id].est ELSE j.actual]

\* EXEC with its reply: applied, or aborted and read again.
WorkerExec(g) ==
    /\ worker[g].pc = "exec"
    /\ RunSettle(SettleTx(g))
    /\ IF Live(worker[g].job.id) THEN Report(g, "applied")
       ELSE worker' = [worker EXCEPT ![g].pc = "read"] /\ UNCHANGED outcome
    /\ UNCHANGED <<now, seq, req, queue, wire>>

\* Defect: a settlement is retried for as long as it fails.
FailedForever(g) ==
    /\ worker' = [worker EXCEPT ![g].pc = "read"]
    /\ UNCHANGED outcome

\* Two retries, then the settlement is abandoned.
Failed(g) ==
    IF worker[g].tries < 2
    THEN /\ worker' = [worker EXCEPT ![g].pc = "read", ![g].tries = @ + 1]
         /\ UNCHANGED outcome
    ELSE Report(g, "abandoned")

\* An attempt fails; its transaction may still be on its way to the server.
WorkerFails(g) ==
    /\ worker[g].pc \in {"read", "exec"}
    /\ Failed(g)
    /\ \/ wire' = wire
       \/ worker[g].pc = "exec" /\ wire' = wire \cup {SettleTx(g)}
    /\ UNCHANGED <<now, server, seq, req, queue>>

-----------------------------------------------------------------------------
(* The network, the processes and the clock.                               *)

\* A transaction whose client gave up reaches the server after all.
LateRun(t) ==
    /\ t \in wire
    /\ \/ t.kind = "admit" /\ RunAdmit(t) /\ req' = Racing({})
       \/ t.kind = "settle" /\ RunSettle(t) /\ UNCHANGED req
    /\ wire' = IF t.kind = "admit" THEN RacingWire(t) ELSE wire \ {t}
    /\ UNCHANGED <<now, seq, queue, worker, outcome>>

\* A gateway stops: its queue, its worker's job and its requests are gone.
Crash(g) ==
    /\ \/ queue[g] # <<>> \/ worker[g] # Idle
       \/ \E r \in Requests : Home[r] = g /\ UnderWay(r)
    /\ queue' = [queue EXCEPT ![g] = <<>>]
    /\ worker' = [worker EXCEPT ![g] = Idle]
    /\ req' = [r \in Requests |->
                 IF Home[r] = g /\ UnderWay(r) THEN Over ELSE req[r]]
    /\ UNCHANGED <<now, server, seq, wire, outcome>>

\* Time passes; what has reached its expiry is gone from the server.
Tick ==
    /\ now < MaxTime
    /\ now' = now + 1
    /\ usage' = [k \in Keys |-> [b \in Buckets |->
                   IF usage[k][b].until <= now' THEN [n |-> 0, until |-> 0] ELSE usage[k][b]]]
    /\ resv' = [i \in Ids |-> IF resv[i].until <= now' THEN Void ELSE resv[i]]
    /\ UNCHANGED <<active, retained, charge, seq, req, queue, worker, wire, outcome>>

WorkerStep(g) == WorkerTake(g) \/ WorkerRead(g) \/ WorkerExec(g) \/ WorkerFails(g)

Next ==
    \/ \E r \in Requests : \/ Begin(r) \/ ReadWindow(r) \/ DrawId(r) \/ Commit(r)
                           \/ RequestFails(r) \/ Finish(r)
    \/ \E g \in Gateways : WorkerStep(g) \/ Crash(g)
    \/ \E t \in wire : LateRun(t)
    \/ Tick

Spec == Init /\ [][Next]_vars

-----------------------------------------------------------------------------
Charged(i) == charge[i] # Void
InWindow(i) == Charged(i) /\ Bucket(charge[i].at) \in Covering(now)
Of(k) == {i \in Ids : InWindow(i) /\ charge[i].key = k}
SumOver(S, f(_)) == MapThenSumSet(f, S)
Spent(S) == SumFunctionOnSet([i \in S |-> charge[i].amount], S)

\* The variables keep their shapes: ids come from the sequence, a worker's job is of its own gateway.
TypeOK ==
    /\ now \in 0..MaxTime /\ seq \in 0..Cardinality(Requests)
    /\ \A k \in Keys, b \in Buckets : usage[k][b].n \in Int /\ usage[k][b].until \in Nat
    /\ \A a \in active : a.id \in 1..seq
    /\ \A i \in Ids : (Live(i) \/ Charged(i)) => i <= seq
    /\ \A t \in wire : t.id \in 1..seq
    /\ \A g \in Gateways : Len(queue[g]) <= QueueLimit

\* mod.rs: "what is never lost is the usage they write", and a reservation "is
\* settled exactly once".  Every counter the window still covers is the sum of
\* what the admissions of its sub-window are charged: the estimate, or the
\* actual usage once settled, however often the settlement was sent.
CountersExact ==
    \A k \in Keys, b \in Covering(now) :
        Counter(k, b) = Spent({i \in Of(k) : Bucket(charge[i].at) = b})

\* "overshoot bounded by their combined estimates": the usage of a window is
\* above its capacity only by the estimates of admissions that raced with
\* another one, and by usage that came out above its estimate.
Excess(c) == (IF c.raced THEN c.est ELSE 0) + Pos(c.amount - c.est)
OvershootOnlyByRaces ==
    \A k \in Keys :
        Spent(Of(k)) <=
            Capacity + SumFunctionOnSet([i \in Of(k) |-> Excess(charge[i])], Of(k))

\* "The overshoot is bounded by the number of concurrent requests": the caps on
\* open reservations and on keys are passed only by admissions that raced.
Raced == {i \in Ids : Charged(i) /\ charge[i].raced}
Open == {i \in Ids : Live(i) /\ charge[i].at + Timeout > now}
ReservationsPassedOnlyByRaces == Cardinality(Open) <= MaxActive + Cardinality(Raced)
KeysPassedOnlyByRaces ==
    Cardinality({k \in Keys : retained[k] > now}) <= MaxKeys + Cardinality(Raced)

\* A reservation that can still be settled and is not past its deadline counts
\* against the cap, whatever stale clock trimmed the index.
OpenReservationsCounted ==
    \A i \in Ids : Live(i) /\ charge[i].at + Timeout > now => \E a \in active : a.id = i

\* What the gateways charge and hold is what the server counts, and no more than
\* the limits but for races.
WindowSound ==
    /\ CountersExact /\ OpenReservationsCounted
    /\ OvershootOnlyByRaces /\ ReservationsPassedOnlyByRaces

\* A denial's hint is the first delay after which the usage it read would let
\* the estimate in: one unit earlier it would not.
RetryHintExact ==
    \A r \in Requests :
        req[r].pc = "denied" =>
            LET usedAt(t) == SumOver(DOMAIN req[r].counters \cap Covering(t),
                                     LAMBDA b : Pos(req[r].counters[b]))
                t == req[r].at + req[r].hint
            IN  req[r].est <= Capacity => /\ usedAt(t) + req[r].est <= Capacity
                                          /\ usedAt(t - 1) + req[r].est > Capacity

\* What the worker reports is final: after "applied" or "noop" no late or
\* repeated transaction changes what the reservation is charged.
ReportedIsFinal ==
    [][\A i \in Ids : outcome[i] \in {"applied", "noop"} => charge'[i] = charge[i]]_vars

\* A settlement that is queued ends: reported or abandoned after its retries,
\* or lost with its gateway.
SettlementEnds ==
    \A i \in Ids :
        []<>(\A g \in Gateways : /\ \A n \in 1..Len(queue[g]) : queue[g][n].id # i
                                 /\ worker[g] = Idle \/ worker[g].job.id # i)
=============================================================================
