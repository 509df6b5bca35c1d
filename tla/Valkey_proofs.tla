--------------------------- MODULE Valkey_proofs ---------------------------
(***************************************************************************)
(* Proofs about the two quotas that gateways share in Valkey, for any      *)
(* gateways, requests and keys, every capacity, window, rate, timeout and  *)
(* limit.  The bucket (ValkeyBucket) grants no more than its capacity and  *)
(* refill, overdue time aside, settles a reservation once, and expires     *)
(* only when it is full.  The window (ValkeyWindow) counts what was        *)
(* charged, passes its limits only by races, and what was reported settled *)
(* stays so.                                                               *)
(***************************************************************************)
EXTENDS ValkeyBackends, FiniteSums, SequenceTheorems

-----------------------------------------------------------------------------
(* The bucket: the inductive invariant                                     *)

\* What a pending EXEC carries.
ReserveTxs ==
  [kind : {"reserve"}, r : TbRequests, key : TbKeys, at : Nat, est : Nat,
   tokens : Nat, clean : BOOLEAN]
SettleTxs ==
  [kind : {"settle"}, r : TbRequests, key : TbKeys, at : Nat, actual : Nat,
   tokens : Nat, clean : BOOLEAN]
Txs == ReserveTxs \cup SettleTxs

\* How far a request may be.
Ended == [pc : {"idle", "over", "settled"}]
Reading == [pc : {"read"}, key : TbKeys, est : Nat, at : Nat]
Reserving == [pc : {"exec"}, key : TbKeys, tx : ReserveTxs]
Responding == [pc : {"admitted"}, key : TbKeys]
Rereading == [pc : {"settle_read"}, key : TbKeys, at : Nat, actual : Nat, tries : Nat]
Settling ==
  [pc : {"settle_exec"}, key : TbKeys, at : Nat, actual : Nat, tries : Nat, tx : SettleTxs]
Progress == Ended \cup Reading \cup Reserving \cup Responding \cup Rereading \cup Settling

Stored == [tokens : 0..TbCapacity, until : Nat \ {0}, last : Nat]
Reservations == [est : Nat, until : Nat \ {0}]
Charges == [est : Nat, amount : Nat, key : TbKeys]

TbTypes ==
  /\ tbNow \in Nat
  /\ bucket \in [TbKeys -> Stored \cup {Absent}]
  /\ tbResv \in [TbRequests -> Reservations \cup {Absent}]
  /\ tbCharge \in [TbRequests -> Charges \cup {Absent}] /\ tbLag \in [TbKeys -> Nat]
  /\ tbReq \in [TbRequests -> Progress]
  /\ tbWire \in SUBSET Txs

\* The requests with an EXEC of their own, and everything that may yet run.
AtExec == {r \in TbRequests : tbReq[r].pc \in {"exec", "settle_exec"}}
Pending == tbWire \cup {tbReq[r].tx : r \in AtExec}

\* A request is charged from its EXEC on, under the key it names.
OneKnown(r, q) ==
  /\ q.pc \in {"idle", "read", "exec"} => tbCharge[r] = Absent
  /\ q.pc \in {"read", "settle_read", "settle_exec"} => q.at <= tbNow
  /\ q.pc \in {"exec", "settle_exec"} => q.tx.r = r /\ q.tx.key = q.key
  /\ q.pc \in {"admitted", "settle_read", "settle_exec"} =>
       tbCharge[r] # Absent /\ tbCharge[r].key = q.key

ReqKnown == \A r \in TbRequests : OneKnown(r, tbReq[r])

\* Of a request at most one reserve was given up on, and then it was over.
WireKnown ==
  /\ \A t \in tbWire : t.kind = "reserve" => tbReq[t.r].pc = "over"
  /\ \A t, u \in tbWire : t.kind = "reserve" /\ u.kind = "reserve" /\ t.r = u.r => t.key = u.key

\* What a transaction computed from what it read is still right if its WATCH holds.
FreshReserve(t) ==
  /\ tbCharge[t.r] = Absent
  /\ t.est + t.tokens = Refill(bucket[t.key], t.at)
FreshSettle(t) ==
  /\ tbResv[t.r] # Absent
  /\ t.tokens = Settled(Refill(bucket[t.key], t.at), tbResv[t.r].est, t.actual)

TxKnown(t) ==
  /\ t.at <= tbNow
  /\ t.kind = "settle" => tbCharge[t.r] # Absent /\ tbCharge[t.r].key = t.key
  /\ t.clean /\ t.kind = "reserve" => FreshReserve(t)
  /\ t.clean /\ t.kind = "settle" => FreshSettle(t)

PendingKnown == \A t \in Pending : TxKnown(t)

\* A reservation is of a charge at its estimate, and its bucket outlives it.
ResvKnown ==
  \A r \in TbRequests : tbResv[r] # Absent =>
    /\ tbNow < tbResv[r].until /\ tbResv[r].until <= tbNow + TbTimeout
    /\ tbCharge[r] # Absent
    /\ tbCharge[r].est = tbResv[r].est /\ tbCharge[r].amount = tbResv[r].est
    /\ bucket[tbCharge[r].key] # Absent
    /\ tbResv[r].until <= bucket[tbCharge[r].key].until

\* What overdue transactions have credited twice.
Extra(k) == RefillRate * tbLag[k]

\* Balance and grants together are at most what there was to grant by the last
\* refill; a bucket that has gone had been full for the length of a timeout.
Accounts ==
  \A k \in TbKeys :
    /\ bucket[k] # Absent =>
         /\ tbNow < bucket[k].until /\ bucket[k].last <= tbNow
         /\ bucket[k].last + StateTtl <= bucket[k].until
         /\ Granted(k) + bucket[k].tokens <= TbCapacity + RefillRate * bucket[k].last + Extra(k)
    /\ bucket[k] = Absent =>
         Granted(k) = 0 \/ Granted(k) + RefillRate * TbTimeout <= RefillRate * tbNow + Extra(k)

TbInv == TbTypes /\ ReqKnown /\ WireKnown /\ PendingKnown /\ ResvKnown /\ Accounts

-----------------------------------------------------------------------------
(* Records and numbers                                                     *)

\* A key that is not there is not one of those that are.
LEMMA AbsentFacts ==
  /\ \A b \in Stored : b # Absent
  /\ \A v \in Reservations : v # Absent
  /\ \A c \in Charges : c # Absent
<1>1. ASSUME NEW b \in Stored PROVE b # Absent
  <2>1. b.until # 0 /\ Absent.until = 0
    BY DEF Stored, Absent
  <2> QED BY <2>1
<1>2. ASSUME NEW v \in Reservations PROVE v # Absent
  <2>1. v.until # 0 /\ Absent.until = 0
    BY DEF Reservations, Absent
  <2> QED BY <2>1
<1>3. ASSUME NEW c \in Charges PROVE c # Absent
  <2>1. "est" \in DOMAIN c /\ "est" \notin DOMAIN Absent
    BY DEF Charges, Absent
  <2> QED BY <2>1
<1> QED BY <1>1, <1>2, <1>3

\* The constants are numbers.
LEMMA Constants ==
  /\ IsFiniteSet(TbRequests) /\ TbEstimates \subseteq Nat /\ TbActuals \subseteq Nat
  /\ TbCapacity \in Nat /\ RefillRate \in Nat /\ RefillRate > 0 /\ TbTimeout \in Nat
  /\ TbTimeout > 0
  BY BucketStateAssumption

\* An empty bucket left alone for its TTL less the timeout is full.
LEMMA FillTime ==
  /\ StateTtl \in Nat /\ TbTimeout <= StateTtl
  /\ \A n \in Nat : StateTtl - TbTimeout <= n => TbCapacity <= n * RefillRate
<1> DEFINE R == RefillRate
           C == TbCapacity
           q == (C + R - 1) \div R
<1>1. R \in Nat /\ R > 0 /\ C \in Nat /\ C + R - 1 \in Nat /\ TbTimeout \in Nat
  BY Constants
<1>2. \A x \in Nat : \A y \in Nat \ {0} : x \div y \in Nat /\ x < (x \div y) * y + y
  OBVIOUS
<1>3. q \in Nat /\ C + R - 1 < q * R + R
  BY <1>1, <1>2
<1>4. StateTtl = q + TbTimeout
  BY DEF StateTtl
<1> HIDE DEF q, R, C
<1>5. C <= q * R
  <2>1. q * R \in Nat
    BY <1>1, <1>3
  <2> QED BY <1>1, <1>3, <2>1
<1>6. ASSUME NEW n \in Nat, q <= n PROVE C <= n * R
  <2>1. PICK d \in Nat : n = q + d
    <3>1. n - q \in Nat /\ n = q + (n - q)
      BY <1>3, <1>6
    <3> QED BY <3>1
  <2>2. n * R = q * R + d * R /\ d * R \in Nat /\ q * R \in Nat
    BY <1>1, <1>3, <2>1
  <2> QED BY <1>1, <1>5, <2>2
<1> QED BY <1>1, <1>3, <1>4, <1>6 DEF C, R

\* Products grow with their factor.
LEMMA RateTimes ==
  ASSUME NEW a \in Nat, NEW b \in Nat
  PROVE  /\ RefillRate * a \in Nat /\ RefillRate * b \in Nat
         /\ a <= b => /\ RefillRate * a <= RefillRate * b
                      /\ (b - a) * RefillRate = RefillRate * b - RefillRate * a
         /\ RefillRate * (a + b) = RefillRate * a + RefillRate * b
<1>1. RefillRate \in Nat
  BY Constants
<1>2. ASSUME a <= b
      PROVE  RefillRate * a <= RefillRate * b
             /\ (b - a) * RefillRate = RefillRate * b - RefillRate * a
  <2>1. PICK d \in Nat : b = a + d /\ b - a = d
    <3>1. b - a \in Nat /\ b = a + (b - a)
      BY <1>2
    <3> QED BY <3>1
  <2>2. RefillRate * b = RefillRate * a + RefillRate * d /\ RefillRate * d \in Nat
        /\ RefillRate * a \in Nat /\ d * RefillRate = RefillRate * d
    BY <1>1, <2>1
  <2> QED BY <2>1, <2>2
<1> QED BY <1>1, <1>2

\* The credit is a number, and it changes only with the lag.
LEMMA ExtraFacts ==
  ASSUME TbTypes
  PROVE  /\ \A k \in TbKeys : Extra(k) \in Nat /\ tbLag[k] \in Nat
         /\ tbLag' = tbLag => \A k : Extra(k)' = Extra(k)
<1>1. ASSUME NEW k \in TbKeys PROVE Extra(k) \in Nat /\ tbLag[k] \in Nat
  <2>1. tbLag[k] \in Nat
    BY DEF TbTypes
  <2> QED BY <2>1, RateTimes DEF Extra
<1> QED BY <1>1 DEF Extra

\* A refilled balance.
LEMMA RefillFacts ==
  ASSUME NEW b \in Stored, NEW t \in Nat
  PROVE  /\ Refill(b, t) \in 0..TbCapacity
         /\ b.last <= t => Refill(b, t) <= b.tokens + RefillRate * t - RefillRate * b.last
         /\ t <= b.last => Refill(b, t) = b.tokens
         /\ b.last <= t /\ StateTtl - TbTimeout <= t - b.last => Refill(b, t) = TbCapacity
<1>1. /\ b # Absent /\ b.tokens \in Nat /\ b.tokens <= TbCapacity /\ b.last \in Nat
      /\ TbCapacity \in Nat
  BY AbsentFacts, Constants DEF Stored
<1>2. PICK m : m = Most(0, t - b.last) * RefillRate
  OBVIOUS
<1>3. Refill(b, t) = Least(TbCapacity, b.tokens + m)
  BY <1>1, <1>2 DEF Refill
<1>4. CASE b.last <= t
  <2>1. Most(0, t - b.last) = t - b.last
    BY <1>1, <1>4 DEF Most
  <2>2. m = RefillRate * t - RefillRate * b.last /\ m \in Nat
    <3>1. /\ RefillRate * b.last <= RefillRate * t
          /\ (t - b.last) * RefillRate = RefillRate * t - RefillRate * b.last
          /\ RefillRate * b.last \in Nat /\ RefillRate * t \in Nat
      BY <1>1, <1>4, RateTimes
    <3> QED BY <1>2, <2>1, <3>1
  <2>3. StateTtl - TbTimeout <= t - b.last => TbCapacity <= m
    <3>1. t - b.last \in Nat
      BY <1>1, <1>4
    <3> QED BY <1>2, <2>1, <3>1, FillTime
  <2>4. t <= b.last => m = 0
    <3>1. ASSUME t <= b.last PROVE m = 0
      <4>1. t - b.last = 0 /\ RefillRate \in Nat
        BY <1>1, <1>4, <3>1, Constants
      <4> QED BY <1>2, <2>1, <4>1
    <3> QED BY <3>1
  <2>5. RefillRate * t \in Nat /\ RefillRate * b.last \in Nat
    BY <1>1, RateTimes
  <2>6. Refill(b, t) \in 0..TbCapacity /\ Refill(b, t) <= b.tokens + m
    BY <1>1, <1>3, <2>2 DEF Least
  <2>7. TbCapacity <= m => Refill(b, t) = TbCapacity
    BY <1>1, <1>3, <2>2 DEF Least
  <2>8. m = 0 => Refill(b, t) = b.tokens
    BY <1>1, <1>3 DEF Least
  <2> QED BY <1>1, <2>2, <2>3, <2>4, <2>5, <2>6, <2>7, <2>8
<1>5. CASE ~(b.last <= t)
  <2>1. Most(0, t - b.last) = 0
    BY <1>1, <1>5 DEF Most
  <2>2. m = 0
    BY <1>2, <2>1, Constants
  <2>3. Refill(b, t) = b.tokens
    BY <1>1, <1>3, <2>2 DEF Least
  <2> QED BY <1>1, <1>5, <2>3
<1> QED BY <1>4, <1>5

\* A bucket that is not there is full.
LEMMA RefillAbsent ==
  ASSUME NEW t
  PROVE  Refill(Absent, t) = TbCapacity
  BY DEF Refill

-----------------------------------------------------------------------------
(* Grants                                                                  *)

\* Who is charged to k in the history ch, what each costs, and their sum.
Buyers(ch, k) == {r \in TbRequests : ch[r] # Absent /\ ch[r].key = k}
Cost(ch, k) == [r \in Buyers(ch, k) |-> Least(ch[r].est, ch[r].amount)]
Sold(ch, k) == SumFunctionOnSet(Cost(ch, k), Buyers(ch, k))

\* Granted is that sum.
LEMMA GrantedIsSold ==
  /\ \A k : Granted(k) = Sold(tbCharge, k)
  /\ \A k : Granted(k)' = Sold(tbCharge', k)
  BY DEF Granted, Sold, Cost, Buyers, ChargedTo

\* A history.
Histories == [TbRequests -> Charges \cup {Absent}]

\* The buyers are finitely many and what each costs is a number.
LEMMA CostFacts ==
  ASSUME NEW ch \in Histories, NEW k \in TbKeys
  PROVE  /\ IsFiniteSet(Buyers(ch, k)) /\ Sold(ch, k) \in Nat
         /\ \A r \in Buyers(ch, k) :
              /\ r \in TbRequests /\ ch[r] \in Charges
              /\ Cost(ch, k)[r] = Least(ch[r].est, ch[r].amount)
              /\ Cost(ch, k)[r] \in Nat
<1>1. Buyers(ch, k) \subseteq TbRequests
  BY DEF Buyers
<1>2. IsFiniteSet(Buyers(ch, k))
  BY <1>1, Constants, FS_Subset
<1>3. ASSUME NEW r \in Buyers(ch, k)
      PROVE  /\ r \in TbRequests /\ ch[r] \in Charges
             /\ Cost(ch, k)[r] = Least(ch[r].est, ch[r].amount)
             /\ Cost(ch, k)[r] \in Nat
  <2>1. r \in TbRequests /\ ch[r] # Absent
    BY DEF Buyers
  <2>2. ch[r] \in Charges
    BY <2>1 DEF Histories
  <2>3. Cost(ch, k)[r] = Least(ch[r].est, ch[r].amount)
    BY DEF Cost
  <2>4. Least(ch[r].est, ch[r].amount) \in Nat
    BY <2>2 DEF Charges, Least
  <2> QED BY <2>1, <2>2, <2>3, <2>4
<1>4. Sold(ch, k) \in Nat
  BY <1>2, <1>3, SumType DEF Sold
<1> QED BY <1>2, <1>3, <1>4

\* Who is not charged differently is not sold differently.
LEMMA SoldElsewhere ==
  ASSUME NEW ch \in Histories, NEW r \in TbRequests, NEW c \in Charges, NEW k \in TbKeys,
         c.key # k, ch[r] = Absent \/ ch[r].key # k
  PROVE  Sold([ch EXCEPT ![r] = c], k) = Sold(ch, k)
<1>1. PICK e : e = [ch EXCEPT ![r] = c]
  OBVIOUS
<1>2. \A s \in TbRequests : e[s] = IF s = r THEN c ELSE ch[s]
  BY <1>1 DEF Histories
<1>3. Buyers(e, k) = Buyers(ch, k)
  BY <1>2 DEF Buyers
<1>4. \A s \in Buyers(ch, k) : e[s] = ch[s]
  BY <1>2 DEF Buyers
<1>5. Cost(e, k) = Cost(ch, k)
  BY <1>3, <1>4 DEF Cost
<1> QED BY <1>1, <1>3, <1>5 DEF Sold

\* What one buyer pays comes on top of what the others pay.
LEMMA SoldSplit ==
  ASSUME NEW ch \in Histories, NEW r \in TbRequests, NEW c \in Charges,
         ch[r] = Absent \/ ch[r].key = c.key
  PROVE  \E n \in Nat :
           /\ Sold(ch, c.key) = n + IF ch[r] = Absent THEN 0
                                    ELSE Least(ch[r].est, ch[r].amount)
           /\ Sold([ch EXCEPT ![r] = c], c.key) = n + Least(c.est, c.amount)
<1>0. PICK k \in TbKeys : k = c.key
  BY DEF Charges
<1>1. PICK e : e = [ch EXCEPT ![r] = c]
  OBVIOUS
<1>2. e \in Histories /\ \A s \in TbRequests : e[s] = IF s = r THEN c ELSE ch[s]
  BY <1>1 DEF Histories
<1>3. PICK B : B = Buyers(e, k)
  OBVIOUS
<1>4. PICK A : A = Buyers(ch, k)
  OBVIOUS
<1>5. PICK f : f = Cost(e, k)
  OBVIOUS
<1>6. PICK g : g = Cost(ch, k)
  OBVIOUS
<1>7. /\ IsFiniteSet(B) /\ IsFiniteSet(A) /\ Sold(e, k) = SumFunctionOnSet(f, B)
      /\ Sold(ch, k) = SumFunctionOnSet(g, A)
      /\ \A s \in B : f[s] = Least(e[s].est, e[s].amount) /\ f[s] \in Nat
      /\ \A s \in A : g[s] = Least(ch[s].est, ch[s].amount) /\ g[s] \in Nat
  BY <1>2, <1>3, <1>4, <1>5, <1>6, CostFacts DEF Sold
<1>8. r \in B /\ B \ {r} = A \ {r} /\ (ch[r] = Absent => r \notin A) /\ (ch[r] # Absent => r \in A)
  <2>1. c # Absent
    BY AbsentFacts
  <2> QED BY <1>0, <1>2, <1>3, <1>4, <2>1 DEF Buyers
<1>9. PICK D : D = A \ {r}
  OBVIOUS
<1>10. IsFiniteSet(D) /\ \A s \in D : s \in A /\ s \in B /\ s \in TbRequests /\ s # r
  <2>1. D \subseteq A
    BY <1>9
  <2> QED BY <1>4, <1>7, <1>8, <1>9, <2>1, FS_Subset DEF Buyers
<1>11. \A s \in D : g[s] \in Nat /\ f[s] = g[s]
  BY <1>2, <1>7, <1>10
<1>12. SumFunctionOnSet(g, D) = SumFunctionOnSet(f, D) /\ SumFunctionOnSet(g, D) \in Nat
  BY <1>10, <1>11, SumEqual, SumType
<1>13. SumFunctionOnSet(f, B) = f[r] + SumFunctionOnSet(f, D)
  BY <1>7, <1>8, <1>9, SumRemove
<1>14. SumFunctionOnSet(g, A) = (IF ch[r] = Absent THEN 0 ELSE g[r]) + SumFunctionOnSet(g, D)
  <2>1. CASE ch[r] = Absent
    <3>1. D = A
      BY <1>8, <1>9, <2>1
    <3> QED BY <1>12, <2>1, <3>1
  <2>2. CASE ch[r] # Absent
    <3>1. SumFunctionOnSet(g, A) = g[r] + SumFunctionOnSet(g, D)
      BY <1>7, <1>8, <1>9, <2>2, SumRemove
    <3> QED BY <2>2, <3>1
  <2> QED BY <2>1, <2>2
<1>15. f[r] = Least(c.est, c.amount) /\ f[r] \in Nat
       /\ (ch[r] # Absent => g[r] = Least(ch[r].est, ch[r].amount) /\ g[r] \in Nat)
  BY <1>2, <1>7, <1>8
<1>16. PICK n \in Nat : n = SumFunctionOnSet(f, D)
  BY <1>12
<1>17. Sold(e, k) = n + Least(c.est, c.amount)
  BY <1>7, <1>13, <1>15, <1>16
<1>18. Sold(ch, k) = n + IF ch[r] = Absent THEN 0 ELSE Least(ch[r].est, ch[r].amount)
  <2>1. CASE ch[r] = Absent
    BY <1>7, <1>12, <1>14, <1>16, <2>1
  <2>2. CASE ch[r] # Absent
    <3>1. Sold(ch, k) = g[r] + n
      BY <1>7, <1>12, <1>14, <1>16, <2>2
    <3> QED BY <1>15, <2>2, <3>1
  <2> QED BY <2>1, <2>2
<1> QED BY <1>0, <1>1, <1>17, <1>18

-----------------------------------------------------------------------------
(* Steps of one request that leave the server's charges alone              *)

\* What a request carries, by how far it is.
LEMMA ProgressFacts ==
  ASSUME NEW q \in Progress
  PROVE  /\ q.pc = "read" => q \in Reading
         /\ q.pc = "exec" => q \in Reserving
         /\ q.pc = "admitted" => q \in Responding
         /\ q.pc = "settle_read" => q \in Rereading
         /\ q.pc = "settle_exec" => q \in Settling
         /\ q.pc \in {"exec", "settle_exec"} => q.tx \in Txs
  BY DEF Progress, Ended, Reading, Reserving, Responding, Rereading, Settling, Txs

\* What a transaction carries.
LEMMA TxFacts ==
  ASSUME NEW t \in Txs
  PROVE  /\ t.r \in TbRequests /\ t.key \in TbKeys /\ t.at \in Nat /\ t.tokens \in Nat
         /\ t.clean \in BOOLEAN /\ t.kind \in {"reserve", "settle"}
         /\ t.kind = "reserve" => t \in ReserveTxs /\ t.est \in Nat
         /\ t.kind = "settle" => t \in SettleTxs /\ t.actual \in Nat
  BY DEF Txs, ReserveTxs, SettleTxs

\* What is pending is a transaction.
LEMMA PendingType ==
  ASSUME TbTypes
  PROVE  Pending \subseteq Txs
<1>1. ASSUME NEW r \in AtExec PROVE tbReq[r].tx \in Txs
  <2>1. tbReq[r] \in Progress /\ tbReq[r].pc \in {"exec", "settle_exec"}
    BY DEF TbTypes, AtExec
  <2> QED BY <2>1, ProgressFacts
<1> QED BY <1>1 DEF Pending, TbTypes

\* The request that moves, what it moves to, and what it leaves on the wire.
Moves(r, q) ==
  /\ tbReq' = [tbReq EXCEPT ![r] = q]
  /\ tbWire' = tbWire \/ (r \in AtExec /\ tbWire' = tbWire \cup {tbReq[r].tx})
  /\ UNCHANGED <<tbNow, bucket, tbResv, tbCharge, tbLag>>

\* A step of a request that runs nothing keeps the invariant, if what the request
\* moves to is right.
LEMMA MoveInv ==
  ASSUME TbInv, NEW r \in TbRequests, NEW q \in Progress, Moves(r, q), OneKnown(r, q),
         q.pc \in {"exec", "settle_exec"} => TxKnown(q.tx),
         tbReq[r].pc # "over",
         tbReq[r].pc = "exec" /\ tbWire' # tbWire => q.pc = "over"
  PROVE  TbInv'
<1>1. /\ TbTypes /\ ReqKnown /\ WireKnown /\ PendingKnown /\ ResvKnown /\ Accounts
  BY DEF TbInv
<1>2. /\ tbReq' = [tbReq EXCEPT ![r] = q] /\ tbNow' = tbNow /\ bucket' = bucket
      /\ tbResv' = tbResv /\ tbCharge' = tbCharge /\ tbLag' = tbLag
      /\ tbWire' = tbWire \/ (r \in AtExec /\ tbWire' = tbWire \cup {tbReq[r].tx})
  BY DEF Moves
<1>3. /\ tbReq' \in [TbRequests -> Progress] /\ tbReq'[r] = q
      /\ \A s \in TbRequests \ {r} : tbReq'[s] = tbReq[s]
  BY <1>1, <1>2 DEF TbTypes
<1>4. Pending \subseteq Txs /\ tbWire \subseteq Pending /\ (r \in AtExec => tbReq[r].tx \in Pending)
  BY <1>1, PendingType DEF Pending
<1>5. tbWire' \subseteq Pending
  BY <1>2, <1>4
<1>6. TbTypes'
  <2>1. tbWire' \in SUBSET Txs
    BY <1>4, <1>5
  <2> QED BY <1>1, <1>2, <1>3, <2>1 DEF TbTypes
<1>7. \A k : Granted(k)' = Granted(k)
  BY <1>2, GrantedIsSold
<1>8. \A t : TxKnown(t) => TxKnown(t)'
  BY <1>2, <1>7 DEF TxKnown, FreshReserve, FreshSettle, Refill, Settled
<1>9. \A s, p : OneKnown(s, p) => OneKnown(s, p)'
  BY <1>2 DEF OneKnown
<1>10. ReqKnown'
  <2>1. ASSUME NEW s \in TbRequests PROVE OneKnown(s, tbReq'[s])
    BY <1>1, <1>3 DEF ReqKnown
  <2>2. ASSUME NEW s \in TbRequests PROVE OneKnown(s, tbReq[s])'
    <3>1. PICK p : p = tbReq'[s]
      OBVIOUS
    <3>2. OneKnown(s, p)'
      BY <1>9, <2>1, <3>1
    <3> QED BY <3>1, <3>2 DEF OneKnown
  <2> QED BY <2>2 DEF ReqKnown
<1>11. PendingKnown'
  <2>1. ASSUME NEW t \in Pending' PROVE TxKnown(t)
    <3>1. CASE t \in tbWire'
      BY <1>1, <1>5, <3>1 DEF PendingKnown
    <3>2. CASE t \notin tbWire'
      <4>1. PICK s \in TbRequests : tbReq'[s].pc \in {"exec", "settle_exec"} /\ t = tbReq'[s].tx
        BY <3>2 DEF Pending, AtExec
      <4>2. CASE s = r
        BY <1>3, <4>1, <4>2
      <4>3. CASE s # r
        <5>1. s \in AtExec /\ t = tbReq[s].tx
          BY <1>3, <4>1, <4>3 DEF AtExec
        <5> QED BY <1>1, <5>1 DEF PendingKnown, Pending
      <4> QED BY <4>2, <4>3
    <3> QED BY <3>1, <3>2
  <2>2. \A t \in Pending' : TxKnown(t)'
    BY <1>8, <2>1
  <2> QED BY <2>2 DEF PendingKnown
<1>12. WireKnown'
  <2>1. ASSUME NEW t \in tbWire, t.kind = "reserve"
        PROVE  tbReq'[t.r].pc = "over" /\ t.r # r
    <3>1. tbReq[t.r].pc = "over" /\ t.r \in TbRequests
      BY <1>1, <1>4, <2>1, TxFacts DEF WireKnown
    <3> QED BY <1>3, <3>1
  <2>2. CASE tbWire' = tbWire
    BY <1>1, <2>1, <2>2 DEF WireKnown
  <2>3. CASE tbWire' # tbWire
    <3>1. PICK u : u = tbReq[r].tx
      OBVIOUS
    <3>2. r \in AtExec /\ tbWire' = tbWire \cup {u} /\ u.r = r
      BY <1>1, <1>2, <2>3, <3>1 DEF ReqKnown, OneKnown, AtExec
    <3>3. u.kind = "reserve" => tbReq'[r].pc = "over"
      <4>1. tbReq[r] \in Progress /\ tbReq[r].pc \in {"exec", "settle_exec"}
        BY <1>1, <3>2 DEF TbTypes, AtExec
      <4>2. tbReq[r].pc = "settle_exec" => u.kind = "settle"
        BY <3>1, <4>1, ProgressFacts DEF Settling, SettleTxs
      <4> QED BY <1>3, <2>3, <4>1, <4>2
    <3>4. \A t \in tbWire' : t.kind = "reserve" => tbReq'[t.r].pc = "over"
      BY <2>1, <3>2, <3>3
    <3>5. \A t, v \in tbWire' : t.kind = "reserve" /\ v.kind = "reserve" /\ t.r = v.r
            => t.key = v.key
      BY <1>1, <2>1, <3>2 DEF WireKnown
    <3> QED BY <3>4, <3>5 DEF WireKnown
  <2> QED BY <2>2, <2>3
<1>13. ResvKnown' /\ Accounts'
  <2>1. \A k : Extra(k)' = Extra(k)
    BY <1>1, <1>2, ExtraFacts
  <2> QED BY <1>1, <1>2, <1>7, <2>1 DEF ResvKnown, Accounts
<1> QED BY <1>6, <1>10, <1>11, <1>12, <1>13 DEF TbInv

\* A request reads the clock.
LEMMA StepBegin ==
  ASSUME TbInv, NEW r \in TbRequests, TbBegin(r)
  PROVE  TbInv'
<1>1. TbTypes /\ ReqKnown
  BY DEF TbInv
<1>2. PICK k \in TbKeys, e \in TbEstimates :
        tbReq' = [tbReq EXCEPT ![r] = [pc |-> "read", key |-> k, est |-> e, at |-> tbNow]]
  BY DEF TbBegin
<1>3. PICK q : q = [pc |-> "read", key |-> k, est |-> e, at |-> tbNow]
  OBVIOUS
<1>4. q \in Progress /\ q.pc = "read" /\ q.at = tbNow
  BY <1>1, <1>3, Constants DEF TbTypes, Progress, Reading
<1>5. tbReq[r].pc = "idle" /\ tbCharge[r] = Absent
  BY <1>1 DEF TbBegin, ReqKnown, OneKnown
<1>6. Moves(r, q)
  BY <1>2, <1>3 DEF Moves, TbBegin, tbServer
<1>7. OneKnown(r, q)
  BY <1>1, <1>4, <1>5 DEF OneKnown, TbTypes
<1> QED BY <1>4, <1>5, <1>6, <1>7, MoveInv

\* A request reads the bucket and decides.
LEMMA StepReadBucket ==
  ASSUME TbInv, NEW r \in TbRequests, ReadBucket(r)
  PROVE  TbInv'
<1>1. TbTypes /\ ReqKnown
  BY DEF TbInv
<1>2. PICK q : q = tbReq[r]
  OBVIOUS
<1>3. q \in Reading /\ q.pc = "read"
  BY <1>1, <1>2, ProgressFacts DEF ReadBucket, TbTypes
<1>4. /\ q.key \in TbKeys /\ q.est \in Nat /\ q.at \in Nat /\ q.at <= tbNow /\ tbNow \in Nat
      /\ tbCharge[r] = Absent
  BY <1>1, <1>2, <1>3 DEF Reading, ReqKnown, OneKnown, TbTypes
<1>5. PICK n : n = Refill(bucket[q.key], q.at)
  OBVIOUS
<1>6. PICK reads : reads = [active |-> Cardinality({a \in tbActive : a.deadline > q.at}),
                            keys |-> Cardinality({k \in TbKeys : tbRetained[k] > q.at}),
                            known |-> q.key \in {k \in TbKeys : tbRetained[k] > q.at}]
  OBVIOUS
<1>7. PICK t : t = [kind |-> "reserve", r |-> r, key |-> q.key, at |-> q.at, est |-> q.est,
                    tokens |-> n - q.est, clean |-> TRUE]
  OBVIOUS
<1>8. tbReq' = [tbReq EXCEPT ![r] =
                  IF Deny(reads, n, q.est) # "admit" THEN [pc |-> "over"]
                  ELSE [pc |-> "exec", key |-> q.key, tx |-> t]]
  BY <1>2, <1>5, <1>6, <1>7 DEF ReadBucket
<1>9. UNCHANGED <<tbNow, bucket, tbResv, tbWire, tbCharge, tbLag>>
  BY DEF ReadBucket
<1>10. n \in 0..TbCapacity
  <2>1. CASE bucket[q.key] = Absent
    BY <1>5, <2>1, RefillAbsent, Constants
  <2>2. CASE bucket[q.key] # Absent
    <3>1. bucket[q.key] \in Stored
      BY <1>1, <1>4, <2>2 DEF TbTypes
    <3> QED BY <1>4, <1>5, <3>1, RefillFacts
  <2> QED BY <2>1, <2>2
<1>11. CASE Deny(reads, n, q.est) # "admit"
  <2>1. PICK p : p = [pc |-> "over"]
    OBVIOUS
  <2>2. p \in Progress /\ p.pc = "over"
    BY <2>1 DEF Progress, Ended
  <2>3. Moves(r, p)
    BY <1>8, <1>9, <1>11, <2>1 DEF Moves
  <2>4. OneKnown(r, p)
    BY <2>2 DEF OneKnown
  <2> QED BY <1>2, <1>3, <2>2, <2>3, <2>4, MoveInv
<1>12. CASE Deny(reads, n, q.est) = "admit"
  <2>1. PICK p : p = [pc |-> "exec", key |-> q.key, tx |-> t]
    OBVIOUS
  <2>2. q.est <= n
    <3>1. ~(q.est > n)
      BY <1>12 DEF Deny
    <3> QED BY <1>4, <1>10, <3>1, Constants
  <2>3. n - q.est \in Nat
    BY <1>4, <1>10, <2>2, Constants
  <2>4. /\ t \in ReserveTxs /\ t.r = r /\ t.key = q.key /\ t.at = q.at /\ t.est = q.est
        /\ t.tokens = n - q.est /\ t.clean = TRUE /\ t.kind = "reserve"
    BY <1>4, <1>7, <2>3 DEF ReserveTxs
  <2>5. p \in Progress /\ p.pc = "exec" /\ p.key = q.key /\ p.tx = t
    BY <1>4, <2>1, <2>4 DEF Progress, Reserving
  <2>6. Moves(r, p)
    BY <1>8, <1>9, <1>12, <2>1 DEF Moves
  <2>7. OneKnown(r, p)
    BY <1>4, <2>4, <2>5 DEF OneKnown
  <2>8. t.est + t.tokens = Refill(bucket[t.key], t.at)
    BY <1>4, <1>5, <1>10, <2>4, Constants
  <2>9. FreshReserve(t)
    BY <1>4, <2>4, <2>8 DEF FreshReserve
  <2>10. TxKnown(t)
    BY <1>4, <2>4, <2>9 DEF TxKnown
  <2> QED BY <1>2, <1>3, <1>9, <2>5, <2>6, <2>7, <2>10, MoveInv
<1> QED BY <1>11, <1>12

\* The usage is known.
LEMMA StepRespond ==
  ASSUME TbInv, NEW r \in TbRequests, Respond(r)
  PROVE  TbInv'
<1>1. TbTypes /\ ReqKnown
  BY DEF TbInv
<1>2. PICK a \in TbActuals :
        tbReq' = [tbReq EXCEPT ![r] = [pc |-> "settle_read", key |-> tbReq[r].key,
                                       at |-> tbNow, actual |-> a, tries |-> 0]]
  BY DEF Respond
<1>3. PICK q : q = [pc |-> "settle_read", key |-> tbReq[r].key, at |-> tbNow, actual |-> a,
                    tries |-> 0]
  OBVIOUS
<1>4. tbReq[r] \in Responding /\ tbReq[r].pc = "admitted"
  BY <1>1, ProgressFacts DEF Respond, TbTypes
<1>5. q \in Progress /\ q.pc = "settle_read" /\ q.at = tbNow /\ q.key = tbReq[r].key
  BY <1>1, <1>3, <1>4, Constants DEF TbTypes, Progress, Rereading, Responding
<1>6. tbCharge[r] # Absent /\ tbCharge[r].key = tbReq[r].key
  BY <1>1, <1>4 DEF ReqKnown, OneKnown
<1>7. Moves(r, q)
  BY <1>2, <1>3 DEF Moves, Respond, tbServer
<1>8. OneKnown(r, q)
  BY <1>1, <1>5, <1>6 DEF OneKnown, TbTypes
<1> QED BY <1>4, <1>5, <1>7, <1>8, MoveInv

\* What a settlement leaves is a balance.
LEMMA SettledType ==
  ASSUME NEW n \in 0..TbCapacity, NEW e \in Nat, NEW a \in Nat
  PROVE  /\ Settled(n, e, a) \in 0..TbCapacity
         /\ Settled(n, e, a) + Least(e, a) <= n + e
  BY Constants DEF Settled, Least, Most

\* A settlement reads the reservation and the bucket.
LEMMA StepReadReservation ==
  ASSUME TbInv, NEW r \in TbRequests, ReadReservation(r)
  PROVE  TbInv'
<1>1. TbTypes /\ ReqKnown /\ ResvKnown
  BY DEF TbInv
<1>2. PICK q : q = tbReq[r]
  OBVIOUS
<1>3. q \in Rereading /\ q.pc = "settle_read"
  BY <1>1, <1>2, ProgressFacts DEF ReadReservation, TbTypes
<1>4. /\ q.key \in TbKeys /\ q.at \in Nat /\ q.actual \in Nat /\ q.tries \in Nat
      /\ q.at <= tbNow /\ tbCharge[r] # Absent /\ tbCharge[r].key = q.key
  BY <1>1, <1>2, <1>3 DEF Rereading, ReqKnown, OneKnown
<1>5. PICK n : n = Settled(Refill(bucket[q.key], q.at), tbResv[r].est, q.actual)
  OBVIOUS
<1>6. PICK t : t = [kind |-> "settle", r |-> r, key |-> q.key, at |-> q.at,
                    actual |-> q.actual, clean |-> TRUE, tokens |-> n]
  OBVIOUS
<1>7. PICK p : p = IF tbResv[r] = Absent THEN [pc |-> "settled"]
                   ELSE [pc |-> "settle_exec", key |-> q.key, at |-> q.at,
                         actual |-> q.actual, tries |-> q.tries, tx |-> t]
  OBVIOUS
<1>8. Moves(r, p)
  BY <1>2, <1>5, <1>6, <1>7 DEF ReadReservation, Moves, tbServer
<1>9. CASE tbResv[r] = Absent
  <2>1. p \in Progress /\ p.pc = "settled"
    BY <1>7, <1>9 DEF Progress, Ended
  <2>2. OneKnown(r, p)
    BY <2>1 DEF OneKnown
  <2> QED BY <1>2, <1>3, <1>8, <2>1, <2>2, MoveInv
<1>10. CASE tbResv[r] # Absent
  <2>1. tbResv[r] \in Reservations /\ tbResv[r].est \in Nat /\ bucket[q.key] \in Stored
    BY <1>1, <1>4, <1>10 DEF TbTypes, ResvKnown, Reservations
  <2>2. n \in Nat
    <3>1. Refill(bucket[q.key], q.at) \in 0..TbCapacity
      BY <1>4, <2>1, RefillFacts
    <3>2. n \in 0..TbCapacity
      BY <1>4, <1>5, <2>1, <3>1, SettledType
    <3> QED BY <3>2, Constants
  <2>3. /\ t \in SettleTxs /\ t.r = r /\ t.key = q.key /\ t.at = q.at /\ t.actual = q.actual
        /\ t.tokens = n /\ t.clean = TRUE /\ t.kind = "settle"
    BY <1>4, <1>6, <2>2 DEF SettleTxs
  <2>4. p \in Progress /\ p.pc = "settle_exec" /\ p.key = q.key /\ p.at = q.at /\ p.tx = t
    BY <1>4, <1>7, <1>10, <2>3 DEF Progress, Settling
  <2>5. OneKnown(r, p)
    BY <1>4, <2>3, <2>4 DEF OneKnown
  <2>6. FreshSettle(t)
    BY <1>5, <1>10, <2>3 DEF FreshSettle
  <2>7. TxKnown(t)
    BY <1>4, <2>3, <2>6 DEF TxKnown
  <2> QED BY <1>2, <1>3, <1>8, <2>4, <2>5, <2>7, MoveInv
<1> QED BY <1>9, <1>10

\* An EXEC that aborts starts the attempt again.
LEMMA StepAbort ==
  ASSUME TbInv, NEW r \in TbRequests, Exec(r), ~MayRun(tbReq[r].tx)
  PROVE  TbInv'
<1>1. TbTypes /\ ReqKnown
  BY DEF TbInv
<1>2. PICK q : q = tbReq[r]
  OBVIOUS
<1>3. PICK p : p = IF q.pc = "exec"
                   THEN [pc |-> "read", key |-> q.tx.key, est |-> q.tx.est, at |-> q.tx.at]
                   ELSE [pc |-> "settle_read", key |-> q.key, at |-> q.at,
                         actual |-> q.actual, tries |-> q.tries]
  OBVIOUS
<1>4. Moves(r, p) /\ tbWire' = tbWire /\ q.pc \in {"exec", "settle_exec"}
  BY <1>2, <1>3 DEF Exec, Moves, tbServer
<1>5. OneKnown(r, q) /\ q \in Progress
  BY <1>1, <1>2 DEF ReqKnown, TbTypes
<1>6. CASE q.pc = "exec"
  <2>1. q \in Reserving /\ q.tx \in ReserveTxs /\ q.tx \in Pending
    BY <1>2, <1>5, <1>6, ProgressFacts DEF Reserving, Pending, AtExec
  <2>2. q.tx.at <= tbNow
    BY <2>1 DEF TbInv, PendingKnown, TxKnown
  <2>3. p \in Progress /\ p.pc = "read" /\ p.at = q.tx.at
    BY <1>3, <1>6, <2>1 DEF Progress, Reading, ReserveTxs
  <2>4. OneKnown(r, p)
    BY <1>5, <1>6, <2>2, <2>3 DEF OneKnown
  <2> QED BY <1>2, <1>4, <1>6, <2>3, <2>4, MoveInv
<1>7. CASE q.pc = "settle_exec"
  <2>1. q \in Settling
    BY <1>5, <1>7, ProgressFacts
  <2>2. p \in Progress /\ p.pc = "settle_read" /\ p.at = q.at /\ p.key = q.key
    BY <1>3, <1>7, <2>1 DEF Progress, Rereading, Settling
  <2>3. OneKnown(r, p)
    BY <1>5, <1>7, <2>2 DEF OneKnown
  <2> QED BY <1>2, <1>4, <1>7, <2>2, <2>3, MoveInv
<1> QED BY <1>4, <1>6, <1>7

\* An attempt fails, its EXEC perhaps still on the way.
LEMMA StepFails ==
  ASSUME TbInv, NEW r \in TbRequests, TbFails(r)
  PROVE  TbInv'
<1>1. TbTypes /\ ReqKnown
  BY DEF TbInv
<1>2. PICK q : q = tbReq[r]
  OBVIOUS
<1>3. PICK p : p = IF q.pc \in {"read", "exec"} \/ q.tries = 2 THEN [pc |-> "over"]
                   ELSE [pc |-> "settle_read", key |-> q.key, at |-> q.at,
                         actual |-> q.actual, tries |-> q.tries + 1]
  OBVIOUS
<1>4. q.pc \in {"read", "exec", "settle_read", "settle_exec"} /\ q \in Progress
      /\ OneKnown(r, q)
  BY <1>1, <1>2 DEF TbFails, TbTypes, ReqKnown
<1>5. Moves(r, p)
  BY <1>2, <1>3, <1>4 DEF TbFails, Moves, tbServer, AtExec
<1>6. CASE p.pc = "over"
  <2>1. p \in Progress
    <3>1. p = [pc |-> "over"]
      BY <1>3, <1>6
    <3> QED BY <3>1 DEF Progress, Ended
  <2>2. OneKnown(r, p)
    BY <1>6 DEF OneKnown
  <2> QED BY <1>2, <1>4, <1>5, <1>6, <2>1, <2>2, MoveInv
<1>7. CASE p.pc # "over"
  <2>1. /\ q.pc \in {"settle_read", "settle_exec"}
        /\ p = [pc |-> "settle_read", key |-> q.key, at |-> q.at, actual |-> q.actual,
                tries |-> q.tries + 1]
    BY <1>3, <1>4, <1>7
  <2>2. q \in Rereading \cup Settling
    BY <1>4, <2>1, ProgressFacts
  <2>3. p \in Progress /\ p.pc = "settle_read" /\ p.at = q.at /\ p.key = q.key
    BY <2>1, <2>2 DEF Progress, Rereading, Settling
  <2>4. OneKnown(r, p)
    BY <1>4, <2>1, <2>3 DEF OneKnown
  <2> QED BY <1>2, <1>5, <2>1, <2>3, <2>4, MoveInv
<1> QED BY <1>6, <1>7

-----------------------------------------------------------------------------
(* A transaction runs                                                      *)

\* Of a request there is one reserve.
LEMMA OneReserve ==
  ASSUME TbTypes, ReqKnown, WireKnown, NEW t \in Pending, NEW u \in Pending,
         t.kind = "reserve", u.kind = "reserve", t.r = u.r
  PROVE  t.key = u.key
<1>1. ASSUME NEW v \in Pending, v.kind = "reserve"
      PROVE  \/ v \in tbWire /\ tbReq[v.r].pc = "over"
             \/ tbReq[v.r].pc = "exec" /\ v = tbReq[v.r].tx
  <2>1. CASE v \in tbWire
    BY <1>1, <2>1 DEF WireKnown
  <2>2. CASE v \notin tbWire
    <3>1. PICK s \in TbRequests : tbReq[s].pc \in {"exec", "settle_exec"} /\ v = tbReq[s].tx
      BY <2>2 DEF Pending, AtExec
    <3>2. tbReq[s] \in Progress /\ v.r = s
      BY <3>1 DEF TbTypes, ReqKnown, OneKnown
    <3>3. tbReq[s].pc # "settle_exec"
      BY <1>1, <3>1, <3>2, ProgressFacts DEF Settling, SettleTxs
    <3> QED BY <3>1, <3>2, <3>3
  <2> QED BY <2>1, <2>2
<1>2. CASE t \in tbWire /\ u \in tbWire
  BY <1>2 DEF WireKnown
<1>3. CASE t = tbReq[t.r].tx /\ u = tbReq[u.r].tx
  BY <1>3
<1> QED BY <1>1, <1>2, <1>3

\* What a transaction with its WATCH unbroken writes: the bucket, the charge of its
\* request, and less or no reservation; the accounts of its key come out right.
Wrote(t) ==
  /\ bucket' = [bucket EXCEPT ![t.key] = bucket'[t.key]]
  /\ bucket'[t.key] \in Stored
  /\ bucket'[t.key].until = tbNow + StateTtl
  /\ bucket'[t.key].last <= tbNow
  /\ tbCharge' = [tbCharge EXCEPT ![t.r] = tbCharge'[t.r]]
  /\ tbCharge'[t.r] \in Charges /\ tbCharge'[t.r].key = t.key
  /\ Granted(t.key)' + bucket'[t.key].tokens
       <= TbCapacity + RefillRate * bucket'[t.key].last + Extra(t.key)'
  /\ tbLag' = [tbLag EXCEPT ![t.key] = tbLag'[t.key]] /\ tbLag'[t.key] \in Nat
  /\ tbResv' = [tbResv EXCEPT ![t.r] = tbResv'[t.r]]
  /\ \/ tbResv'[t.r] = Absent
     \/ /\ tbResv'[t.r] \in Reservations
        /\ tbResv'[t.r].until = tbNow + TbTimeout
        /\ tbCharge'[t.r].est = tbResv'[t.r].est
        /\ tbCharge'[t.r].amount = tbResv'[t.r].est

\* The bucket that is written.
LEMMA WrittenFacts ==
  ASSUME TbTypes, Accounts, NEW k \in TbKeys, NEW n \in 0..TbCapacity, NEW at \in Nat, at <= tbNow,
         NEW g \in Nat, NEW old \in Nat, old = Granted(k),
         g + n <= old + Refill(bucket[k], at),
         NEW x \in Nat,
         bucket[k] = Absent => old <= RefillRate * at + x, bucket[k] # Absent => x = Extra(k)
  PROVE  /\ WrittenBucket(k, n, at) \in Stored
         /\ WrittenBucket(k, n, at).until = tbNow + StateTtl
         /\ WrittenBucket(k, n, at).last <= tbNow
         /\ g + WrittenBucket(k, n, at).tokens
              <= TbCapacity + RefillRate * WrittenBucket(k, n, at).last + x
<1>1. tbNow \in Nat /\ StateTtl \in Nat /\ TbTimeout <= StateTtl /\ TbTimeout > 0
      /\ TbTimeout \in Nat /\ TbCapacity \in Nat
  BY FillTime, Constants DEF TbTypes
<1>2. PICK l : l = IF bucket[k] = Absent THEN at ELSE Most(bucket[k].last, at)
  OBVIOUS
<1>3. PICK w : w = WrittenBucket(k, n, at)
  OBVIOUS
<1>4. w = [tokens |-> n, until |-> tbNow + StateTtl, last |-> l]
  BY <1>2, <1>3 DEF WrittenBucket
<1>5. w.tokens = n /\ w.until = tbNow + StateTtl /\ w.last = l
  BY <1>4
<1>6. l \in Nat /\ l <= tbNow /\ g + n <= TbCapacity + RefillRate * l + x
  <2>0. RefillRate * at \in Nat
    BY RateTimes
  <2>1. CASE bucket[k] = Absent
    <3>1. Refill(bucket[k], at) = TbCapacity
      BY <2>1, RefillAbsent
    <3> QED BY <1>1, <1>2, <2>0, <2>1, <3>1
  <2>2. CASE bucket[k] # Absent
    <3>1. PICK b : b = bucket[k]
      OBVIOUS
    <3>2. /\ b \in Stored /\ b.last <= tbNow
          /\ old + b.tokens <= TbCapacity + RefillRate * b.last + x
      BY <2>2, <3>1 DEF TbTypes, Accounts
    <3>3. b.last \in Nat /\ b.tokens \in Nat
      BY <1>1, <3>2 DEF Stored
    <3>4. PICK m : m = Refill(b, at)
      OBVIOUS
    <3>5. /\ m \in 0..TbCapacity
          /\ b.last <= at => m <= b.tokens + RefillRate * at - RefillRate * b.last
          /\ at <= b.last => m = b.tokens
      BY <3>2, <3>4, RefillFacts
    <3>6. g + n <= old + m
      BY <3>1, <3>4
    <3>7. RefillRate * b.last \in Nat
      BY <3>3, RateTimes
    <3>8. l = Most(b.last, at)
      BY <1>2, <2>2, <3>1
    <3>9. CASE b.last <= at
      <4>1. l = at
        BY <3>3, <3>8, <3>9 DEF Most
      <4> QED BY <1>1, <2>0, <3>2, <3>3, <3>5, <3>6, <3>7, <3>9, <4>1
    <3>10. CASE ~(b.last <= at)
      <4>1. l = b.last /\ m = b.tokens
        BY <3>3, <3>5, <3>8, <3>10 DEF Most
      <4> QED BY <1>1, <3>2, <3>3, <3>6, <3>7, <4>1
    <3> QED BY <3>9, <3>10
  <2> QED BY <2>1, <2>2
<1>7. w \in Stored
  BY <1>1, <1>4, <1>6 DEF Stored
<1> QED BY <1>3, <1>5, <1>6, <1>7

\* What was granted from a bucket that has gone was refilled before the date that a
\* transaction gives the next one, once the time it is overdue counts again.
LEMMA AbsentGrants ==
  ASSUME TbTypes, Accounts, NEW k \in TbKeys, bucket[k] = Absent, NEW at \in Nat,
         NEW late \in Nat, tbNow <= at + TbTimeout + late
  PROVE  Granted(k) <= RefillRate * at + RefillRate * (tbLag[k] + late)
<1>1. tbNow \in Nat /\ tbLag[k] \in Nat /\ Extra(k) \in Nat /\ TbTimeout \in Nat
      /\ at + TbTimeout \in Nat /\ at + TbTimeout + late \in Nat
  BY ExtraFacts, Constants DEF TbTypes
<1>2. Granted(k) = 0 \/ Granted(k) + RefillRate * TbTimeout <= RefillRate * tbNow + Extra(k)
  BY DEF Accounts
<1>3. Granted(k) \in Nat
  BY GrantedIsSold, CostFacts DEF TbTypes, Histories
<1>4. /\ RefillRate * at \in Nat /\ RefillRate * TbTimeout \in Nat /\ RefillRate * late \in Nat
      /\ RefillRate * (at + TbTimeout) = RefillRate * at + RefillRate * TbTimeout
  BY <1>1, RateTimes
<1>5. RefillRate * (at + TbTimeout + late) = RefillRate * (at + TbTimeout) + RefillRate * late
  BY <1>1, RateTimes
<1>6. RefillRate * tbNow <= RefillRate * (at + TbTimeout + late) /\ RefillRate * tbNow \in Nat
  BY <1>1, RateTimes
<1>7. RefillRate * (tbLag[k] + late) = Extra(k) + RefillRate * late
  BY <1>1, RateTimes DEF Extra
<1> QED BY <1>1, <1>2, <1>3, <1>4, <1>5, <1>6, <1>7

\* A reserve that runs.
LEMMA ReserveWrote ==
  ASSUME TbInv, NEW t \in Pending, t.clean, t.kind = "reserve", ReserveRuns(t)
  PROVE  Wrote(t)
<1>1. TbTypes /\ Accounts /\ tbNow \in Nat /\ tbCharge \in Histories
  BY DEF TbInv, TbTypes, Histories
<1>2. /\ t \in Txs /\ t.r \in TbRequests /\ t.key \in TbKeys /\ t.at \in Nat /\ t.tokens \in Nat
      /\ t.est \in Nat
  BY <1>1, PendingType, TxFacts
<1>3. TxKnown(t)
  BY DEF TbInv, PendingKnown
<1>4. t.at <= tbNow /\ FreshReserve(t)
  BY <1>3 DEF TxKnown
<1>5. PICK c : c = [est |-> t.est, amount |-> t.est, key |-> t.key]
  OBVIOUS
<1>6. c \in Charges /\ c.key = t.key /\ c.est = t.est /\ c.amount = t.est
  BY <1>2, <1>5 DEF Charges
<1>7. PICK v : v = [est |-> t.est, until |-> tbNow + TbTimeout]
  OBVIOUS
<1>8. v \in Reservations /\ v.est = t.est /\ v.until = tbNow + TbTimeout
  BY <1>1, <1>2, <1>7, Constants DEF Reservations
<1>9. PICK w : w = WrittenBucket(t.key, t.tokens, t.at)
  OBVIOUS
<1>10. /\ bucket' = [bucket EXCEPT ![t.key] = w] /\ tbResv' = [tbResv EXCEPT ![t.r] = v]
       /\ tbCharge' = [tbCharge EXCEPT ![t.r] = c]
  BY <1>5, <1>7, <1>9 DEF ReserveRuns
<1>11. bucket'[t.key] = w /\ tbResv'[t.r] = v /\ tbCharge'[t.r] = c
  BY <1>1, <1>2, <1>10 DEF TbTypes
<1>12. PICK n \in Nat : Granted(t.key) = n /\ Granted(t.key)' = n + t.est
  <2>1. tbCharge[t.r] = Absent
    BY <1>4 DEF FreshReserve
  <2>2. Least(c.est, c.amount) = t.est
    BY <1>6 DEF Least
  <2>3. PICK n \in Nat : /\ Sold(tbCharge, c.key) = n + IF tbCharge[t.r] = Absent THEN 0
                                    ELSE Least(tbCharge[t.r].est, tbCharge[t.r].amount)
                         /\ Sold([tbCharge EXCEPT ![t.r] = c], c.key) = n + Least(c.est, c.amount)
    BY <1>1, <1>2, <1>6, <2>1, SoldSplit
  <2>4. Sold(tbCharge, t.key) = n /\ Sold(tbCharge', t.key) = n + t.est
    BY <1>6, <1>10, <2>1, <2>2, <2>3
  <2> QED BY <2>4, GrantedIsSold
<1>13. PICK m : m = Refill(bucket[t.key], t.at)
  OBVIOUS
<1>14. m \in 0..TbCapacity
  <2>1. CASE bucket[t.key] = Absent
    BY <1>13, <2>1, RefillAbsent, Constants
  <2>2. CASE bucket[t.key] # Absent
    <3>1. bucket[t.key] \in Stored
      BY <1>1, <1>2, <2>2 DEF TbTypes
    <3> QED BY <1>2, <1>13, <3>1, RefillFacts
  <2> QED BY <2>1, <2>2
<1>15. t.est + t.tokens = m
  BY <1>4, <1>13 DEF FreshReserve
<1>16. t.tokens \in 0..TbCapacity
  BY <1>2, <1>14, <1>15, Constants
<1>17. PICK g \in Nat : g = n + t.est
  BY <1>2, <1>12
<1>18. g + t.tokens <= n + m
  BY <1>2, <1>12, <1>14, <1>15, <1>17, Constants
<1>19. PICK late \in Nat : late = Overdue(t) /\ tbNow <= t.at + TbTimeout + late
  BY <1>1, <1>2, Constants DEF Overdue, Most
<1>20. PICK lag \in Nat : /\ lag = tbLag[t.key] + IF bucket[t.key] = Absent THEN late ELSE 0
                          /\ tbLag[t.key] \in Nat
  BY <1>1, <1>2, <1>19 DEF TbTypes
<1>21. tbLag' = [tbLag EXCEPT ![t.key] = lag] /\ tbLag'[t.key] = lag
  BY <1>1, <1>2, <1>19, <1>20 DEF ReserveRuns, TbTypes
<1>22. PICK x \in Nat : x = RefillRate * lag /\ Extra(t.key)' = x
  BY <1>20, <1>21, RateTimes DEF Extra
<1>23. ASSUME bucket[t.key] = Absent PROVE n <= RefillRate * t.at + x
  BY <1>1, <1>2, <1>12, <1>19, <1>20, <1>22, <1>23, AbsentGrants
<1>24. bucket[t.key] # Absent => x = Extra(t.key)
  BY <1>20, <1>22 DEF Extra
<1>25. /\ w \in Stored /\ w.until = tbNow + StateTtl /\ w.last <= tbNow
       /\ g + w.tokens <= TbCapacity + RefillRate * w.last + x
  BY <1>1, <1>2, <1>4, <1>9, <1>12, <1>13, <1>15, <1>16, <1>17, <1>18, <1>23, <1>24, WrittenFacts
<1> QED BY <1>6, <1>8, <1>10, <1>11, <1>12, <1>17, <1>20, <1>21, <1>22, <1>25 DEF Wrote

\* A settlement that runs.
LEMMA SettlementWrote ==
  ASSUME TbInv, NEW t \in Pending, t.clean, t.kind = "settle", SettlementRuns(t)
  PROVE  Wrote(t)
<1>1. TbTypes /\ Accounts /\ ResvKnown /\ tbNow \in Nat /\ tbCharge \in Histories
  BY DEF TbInv, TbTypes, Histories
<1>2. /\ t \in Txs /\ t.r \in TbRequests /\ t.key \in TbKeys /\ t.at \in Nat /\ t.tokens \in Nat
      /\ t.actual \in Nat
  BY <1>1, PendingType, TxFacts
<1>3. TxKnown(t)
  BY DEF TbInv, PendingKnown
<1>4. t.at <= tbNow /\ FreshSettle(t) /\ tbCharge[t.r] # Absent /\ tbCharge[t.r].key = t.key
  BY <1>3 DEF TxKnown
<1>5. PICK o : o = tbCharge[t.r]
  OBVIOUS
<1>6. PICK e : e = tbResv[t.r].est
  OBVIOUS
<1>7. o \in Charges /\ o.key = t.key /\ o.est = e /\ o.amount = e /\ e \in Nat
      /\ bucket[t.key] # Absent
  BY <1>1, <1>2, <1>4, <1>5, <1>6 DEF FreshSettle, ResvKnown, Histories, Charges
<1>8. PICK c : c = [o EXCEPT !.amount = t.actual]
  OBVIOUS
<1>9. c \in Charges /\ c.key = t.key /\ c.est = e /\ c.amount = t.actual
  BY <1>2, <1>7, <1>8 DEF Charges
<1>10. PICK w : w = WrittenBucket(t.key, t.tokens, t.at)
  OBVIOUS
<1>11. /\ bucket' = [bucket EXCEPT ![t.key] = w] /\ tbResv' = [tbResv EXCEPT ![t.r] = Absent]
       /\ tbCharge' = [tbCharge EXCEPT ![t.r] = c]
  BY <1>5, <1>8, <1>10 DEF SettlementRuns
<1>12. bucket'[t.key] = w /\ tbResv'[t.r] = Absent /\ tbCharge'[t.r] = c
  BY <1>1, <1>2, <1>11 DEF TbTypes
<1>13. PICK n \in Nat : Granted(t.key) = n + e /\ Granted(t.key)' = n + Least(e, t.actual)
  <2>1. tbCharge[t.r] # Absent /\ tbCharge[t.r].key = c.key
    BY <1>4, <1>9
  <2>2. Least(c.est, c.amount) = Least(e, t.actual) /\ Least(o.est, o.amount) = e
    BY <1>7, <1>9 DEF Least
  <2>3. PICK n \in Nat : /\ Sold(tbCharge, c.key) = n + IF tbCharge[t.r] = Absent THEN 0
                                    ELSE Least(tbCharge[t.r].est, tbCharge[t.r].amount)
                         /\ Sold([tbCharge EXCEPT ![t.r] = c], c.key) = n + Least(c.est, c.amount)
    BY <1>1, <1>2, <1>9, <2>1, SoldSplit
  <2>4. Sold(tbCharge, t.key) = n + e /\ Sold(tbCharge', t.key) = n + Least(e, t.actual)
    BY <1>5, <1>9, <1>11, <2>1, <2>2, <2>3
  <2> QED BY <2>4, GrantedIsSold
<1>14. PICK m : m = Refill(bucket[t.key], t.at)
  OBVIOUS
<1>15. m \in 0..TbCapacity
  <2>1. bucket[t.key] \in Stored
    BY <1>1, <1>2, <1>7 DEF TbTypes
  <2> QED BY <1>2, <1>14, <2>1, RefillFacts
<1>16. t.tokens = Settled(m, e, t.actual)
  BY <1>4, <1>6, <1>14 DEF FreshSettle
<1>17. t.tokens \in 0..TbCapacity /\ t.tokens + Least(e, t.actual) <= m + e
  BY <1>2, <1>7, <1>15, <1>16, SettledType
<1>18. PICK p \in Nat : p = Least(e, t.actual)
  BY <1>2, <1>7 DEF Least
<1>19. PICK g \in Nat : g = n + p
  BY <1>13, <1>18
<1>20. PICK old \in Nat : old = n + e
  BY <1>7, <1>13
<1>21. g + t.tokens <= old + m
  BY <1>2, <1>7, <1>13, <1>15, <1>17, <1>18, <1>19, <1>20, Constants
<1>22. tbLag' = tbLag /\ tbLag' = [tbLag EXCEPT ![t.key] = tbLag'[t.key]]
       /\ tbLag'[t.key] \in Nat
  BY <1>1, <1>2 DEF SettlementRuns, TbTypes
<1>23. PICK x \in Nat : x = Extra(t.key) /\ Extra(t.key)' = x
  BY <1>1, <1>2, <1>22, ExtraFacts
<1>24. /\ w \in Stored /\ w.until = tbNow + StateTtl /\ w.last <= tbNow
       /\ g + w.tokens <= TbCapacity + RefillRate * w.last + x
  BY <1>1, <1>2, <1>4, <1>7, <1>10, <1>13, <1>14, <1>17, <1>20, <1>21, <1>23, WrittenFacts
<1> QED BY <1>9, <1>11, <1>12, <1>13, <1>18, <1>19, <1>22, <1>23, <1>24 DEF Wrote

-----------------------------------------------------------------------------
(* A WATCH is broken                                                       *)

\* A transaction whose WATCH is broken; what those of S among the transactions, and
\* the requests that have them, become.
Dirty(u) == [u EXCEPT !.clean = FALSE]
SpoilTx(u, S) == IF u \in S THEN Dirty(u) ELSE u
SpoilReq(q, S) ==
  IF q.pc \in {"exec", "settle_exec"} THEN [q EXCEPT !.tx = SpoilTx(q.tx, S)] ELSE q

\* Only the WATCH differs.
LEMMA DirtyFacts ==
  ASSUME NEW u \in Txs
  PROVE  /\ Dirty(u) \in Txs /\ ~Dirty(u).clean
         /\ Dirty(u).r = u.r /\ Dirty(u).key = u.key /\ Dirty(u).at = u.at
         /\ Dirty(u).kind = u.kind
         /\ u \in ReserveTxs => Dirty(u) \in ReserveTxs
         /\ u \in SettleTxs => Dirty(u) \in SettleTxs
  BY DEF Dirty, Txs, ReserveTxs, SettleTxs

\* Nor has a request moved.
LEMMA SpoilReqFacts ==
  ASSUME NEW q \in Progress, NEW S
  PROVE  /\ SpoilReq(q, S) \in Progress /\ SpoilReq(q, S).pc = q.pc
         /\ q.pc \notin {"exec", "settle_exec"} => SpoilReq(q, S) = q
         /\ q.pc \in {"exec", "settle_exec"} =>
              /\ SpoilReq(q, S).key = q.key /\ SpoilReq(q, S).tx = SpoilTx(q.tx, S)
              /\ q.tx \notin S => SpoilReq(q, S) = q
         /\ q.pc = "settle_exec" => SpoilReq(q, S).at = q.at
<1>1. CASE q.pc \notin {"exec", "settle_exec"}
  BY <1>1 DEF SpoilReq
<1>2. CASE q.pc = "exec"
  <2>1. q \in Reserving /\ q.tx \in ReserveTxs /\ q.tx \in Txs
    BY <1>2, ProgressFacts DEF Reserving
  <2>2. PICK x : x = SpoilTx(q.tx, S)
    OBVIOUS
  <2>3. x \in ReserveTxs /\ (q.tx \notin S => x = q.tx)
    BY <2>1, <2>2, DirtyFacts DEF SpoilTx
  <2>4. SpoilReq(q, S) = [q EXCEPT !.tx = x]
    BY <1>2, <2>2 DEF SpoilReq
  <2>5. /\ [q EXCEPT !.tx = x] \in Reserving /\ [q EXCEPT !.tx = x].key = q.key
        /\ [q EXCEPT !.tx = x].tx = x /\ [q EXCEPT !.tx = x].pc = q.pc
        /\ x = q.tx => [q EXCEPT !.tx = x] = q
    BY <2>1, <2>3 DEF Reserving
  <2> QED BY <1>2, <2>2, <2>3, <2>4, <2>5 DEF Progress
<1>3. CASE q.pc = "settle_exec"
  <2>1. q \in Settling /\ q.tx \in SettleTxs /\ q.tx \in Txs
    BY <1>3, ProgressFacts DEF Settling
  <2>2. PICK x : x = SpoilTx(q.tx, S)
    OBVIOUS
  <2>3. x \in SettleTxs /\ (q.tx \notin S => x = q.tx)
    BY <2>1, <2>2, DirtyFacts DEF SpoilTx
  <2>4. SpoilReq(q, S) = [q EXCEPT !.tx = x]
    BY <1>3, <2>2 DEF SpoilReq
  <2>5. /\ [q EXCEPT !.tx = x] \in Settling /\ [q EXCEPT !.tx = x].key = q.key
        /\ [q EXCEPT !.tx = x].tx = x /\ [q EXCEPT !.tx = x].pc = q.pc
        /\ [q EXCEPT !.tx = x].at = q.at
        /\ x = q.tx => [q EXCEPT !.tx = x] = q
    BY <2>1, <2>3 DEF Settling
  <2> QED BY <1>3, <2>2, <2>3, <2>4, <2>5 DEF Progress
<1> QED BY <1>1, <1>2, <1>3

\* Every transaction of S is spoilt; a request with an EXEC may be done with it.
Spoils(S) ==
  /\ tbWire' = {SpoilTx(u, S) : u \in tbWire}
  /\ tbReq' \in [TbRequests -> Progress]
  /\ \A s \in TbRequests :
       \/ tbReq'[s] = SpoilReq(tbReq[s], S)
       \/ s \in AtExec /\ tbReq'[s].pc \in {"admitted", "settled"}

\* What is pending after a WATCH was broken was pending before.
LEMMA SpoilPending ==
  ASSUME TbTypes, ReqKnown, NEW S, Spoils(S)
  PROVE  /\ tbWire' \subseteq Txs
         /\ \A v \in Pending' : \E u \in Pending : v = SpoilTx(u, S)
<1>1. Pending \subseteq Txs /\ tbWire \subseteq Pending
  BY PendingType DEF Pending
<1>2. ASSUME NEW u \in Txs PROVE SpoilTx(u, S) \in Txs
  BY DirtyFacts DEF SpoilTx
<1>3. tbWire' \subseteq Txs
  BY <1>1, <1>2 DEF Spoils
<1>4. ASSUME NEW v \in Pending' PROVE \E u \in Pending : v = SpoilTx(u, S)
  <2>1. CASE v \in tbWire'
    BY <1>1, <2>1 DEF Spoils
  <2>2. CASE v \notin tbWire'
    <3>1. PICK s \in TbRequests : tbReq'[s].pc \in {"exec", "settle_exec"} /\ v = tbReq'[s].tx
      BY <2>2 DEF Pending, AtExec
    <3>2. tbReq'[s] = SpoilReq(tbReq[s], S) /\ tbReq[s] \in Progress
      BY <3>1 DEF Spoils, TbTypes
    <3>3. tbReq[s].pc \in {"exec", "settle_exec"}
      BY <3>1, <3>2, SpoilReqFacts
    <3>4. v = SpoilTx(tbReq[s].tx, S)
      BY <3>1, <3>2, <3>3, SpoilReqFacts
    <3>5. tbReq[s].tx \in Pending
      BY <3>3 DEF Pending, AtExec
    <3> QED BY <3>4, <3>5
  <2> QED BY <2>1, <2>2
<1> QED BY <1>3, <1>4

\* Of what was given up on, the invariant holds still.
LEMMA SpoilWire ==
  ASSUME TbTypes, WireKnown, NEW S, Spoils(S)
  PROVE  WireKnown'
<1>1. ASSUME NEW v \in tbWire'
      PROVE  \E u \in tbWire : v.kind = u.kind /\ v.r = u.r /\ v.key = u.key
  <2>1. PICK u \in tbWire : v = SpoilTx(u, S)
    BY DEF Spoils
  <2>2. u \in Txs
    BY DEF TbTypes
  <2>3. v.kind = u.kind /\ v.r = u.r /\ v.key = u.key
    BY <2>1, <2>2, DirtyFacts DEF SpoilTx
  <2> QED BY <2>3
<1>2. ASSUME NEW s \in TbRequests, tbReq[s].pc = "over" PROVE tbReq'[s].pc = "over"
  <2>1. s \notin AtExec /\ tbReq[s] \in Progress
    BY <1>2 DEF AtExec, TbTypes
  <2> QED BY <1>2, <2>1, SpoilReqFacts DEF Spoils
<1>3. \A t \in tbWire : t.r \in TbRequests
  BY TxFacts DEF TbTypes
<1>4. \A t \in tbWire' : t.kind = "reserve" => tbReq'[t.r].pc = "over"
  BY <1>1, <1>2, <1>3 DEF WireKnown
<1>5. \A t, v \in tbWire' : t.kind = "reserve" /\ v.kind = "reserve" /\ t.r = v.r
        => t.key = v.key
  BY <1>1 DEF WireKnown
<1> QED BY <1>4, <1>5 DEF WireKnown

\* What is known of a request is known of it with its WATCH broken.
LEMMA SpoilKnown ==
  ASSUME NEW r, NEW q \in Progress, OneKnown(r, q), NEW S
  PROVE  OneKnown(r, SpoilReq(q, S))
<1>1. CASE q.pc \notin {"exec", "settle_exec"}
  BY <1>1, SpoilReqFacts
<1>2. CASE q.pc \in {"exec", "settle_exec"}
  <2>1. PICK p : p = SpoilReq(q, S)
    OBVIOUS
  <2>2. /\ p.pc = q.pc /\ p.key = q.key /\ p.tx = SpoilTx(q.tx, S)
        /\ q.pc = "settle_exec" => p.at = q.at
    BY <1>2, <2>1, SpoilReqFacts
  <2>3. q.tx \in Txs
    BY <1>2, ProgressFacts
  <2>4. p.tx.r = q.tx.r /\ p.tx.key = q.tx.key
    BY <2>2, <2>3, DirtyFacts DEF SpoilTx
  <2>5. OneKnown(r, p)
    BY <1>2, <2>2, <2>4 DEF OneKnown
  <2> QED BY <2>1, <2>5
<1> QED BY <1>1, <1>2

-----------------------------------------------------------------------------
(* The run of a transaction keeps the invariant                            *)

\* The transactions that watch what t writes, and how the requests come out.
Watchers(t) == {u \in Pending : u.key = t.key}
Done(t) ==
  /\ \A s \in TbRequests :
       \/ tbReq'[s] = SpoilReq(tbReq[s], Watchers(t))
       \/ /\ s = t.r
          /\ \/ tbReq'[s].pc = "settled"
             \/ tbReq'[s].pc = "admitted" /\ tbReq'[s].key = t.key
  /\ t \in tbWire \/ tbReq'[t.r].pc \in {"admitted", "settled"}

\* The keys, charges and reservations a run does not write.
LEMMA WroteElsewhere ==
  ASSUME TbInv, NEW t \in Pending, Wrote(t)
  PROVE  /\ bucket' \in [TbKeys -> Stored \cup {Absent}]
         /\ tbCharge' \in Histories
         /\ tbResv' \in [TbRequests -> Reservations \cup {Absent}]
         /\ \A k \in TbKeys : k # t.key => bucket'[k] = bucket[k]
         /\ \A s \in TbRequests : s # t.r => tbCharge'[s] = tbCharge[s] /\ tbResv'[s] = tbResv[s]
         /\ tbLag' \in [TbKeys -> Nat]
         /\ \A k \in TbKeys : k # t.key => Extra(k)' = Extra(k)
<1>1. TbTypes /\ t.key \in TbKeys /\ t.r \in TbRequests
  BY PendingType, TxFacts DEF TbInv
<1>2. PICK w : w = bucket'[t.key]
  OBVIOUS
<1>3. PICK c : c = tbCharge'[t.r]
  OBVIOUS
<1>4. PICK v : v = tbResv'[t.r]
  OBVIOUS
<1>5. /\ bucket' = [bucket EXCEPT ![t.key] = w] /\ w \in Stored
      /\ tbCharge' = [tbCharge EXCEPT ![t.r] = c] /\ c \in Charges
      /\ tbResv' = [tbResv EXCEPT ![t.r] = v] /\ v \in Reservations \cup {Absent}
  BY <1>2, <1>3, <1>4 DEF Wrote
<1> HIDE DEF Wrote
<1>6. bucket' \in [TbKeys -> Stored \cup {Absent}]
      /\ \A k \in TbKeys : k # t.key => bucket'[k] = bucket[k]
  BY <1>1, <1>5 DEF TbTypes
<1>7. tbCharge' \in Histories /\ \A s \in TbRequests : s # t.r => tbCharge'[s] = tbCharge[s]
  BY <1>1, <1>5 DEF TbTypes, Histories
<1>8. tbResv' \in [TbRequests -> Reservations \cup {Absent}]
      /\ \A s \in TbRequests : s # t.r => tbResv'[s] = tbResv[s]
  BY <1>1, <1>5 DEF TbTypes
<1>9. PICK g : g = tbLag'[t.key]
  OBVIOUS
<1>10. tbLag' = [tbLag EXCEPT ![t.key] = g] /\ g \in Nat
  BY <1>9 DEF Wrote
<1>11. tbLag' \in [TbKeys -> Nat] /\ \A k \in TbKeys : k # t.key => tbLag'[k] = tbLag[k]
  BY <1>1, <1>10 DEF TbTypes
<1>12. \A k \in TbKeys : k # t.key => Extra(k)' = Extra(k)
  BY <1>11 DEF Extra
<1> QED BY <1>6, <1>7, <1>8, <1>11, <1>12

\* What the other keys are granted.
LEMMA WroteGrants ==
  ASSUME TbInv, NEW t \in Pending, t.clean, Wrote(t)
  PROVE  \A k \in TbKeys : k # t.key => Granted(k)' = Granted(k)
<1>1. TbTypes /\ t.key \in TbKeys /\ t.r \in TbRequests /\ tbCharge \in Histories
      /\ t.kind \in {"reserve", "settle"}
  BY PendingType, TxFacts DEF TbInv, TbTypes, Histories
<1>2. PICK c : c = tbCharge'[t.r]
  OBVIOUS
<1>3. tbCharge' = [tbCharge EXCEPT ![t.r] = c] /\ c \in Charges /\ c.key = t.key
  BY <1>2 DEF Wrote
<1>4. TxKnown(t)
  BY DEF TbInv, PendingKnown
<1>5. tbCharge[t.r] = Absent \/ tbCharge[t.r].key = t.key
  BY <1>1, <1>4 DEF TxKnown, FreshReserve
<1>6. ASSUME NEW k \in TbKeys, k # t.key PROVE Sold(tbCharge', k) = Sold(tbCharge, k)
  BY <1>1, <1>3, <1>5, <1>6, SoldElsewhere
<1> QED BY <1>6, GrantedIsSold

\* A run keeps what is known of the requests.
LEMMA RunReq ==
  ASSUME TbInv, NEW t \in Pending, t.clean, Wrote(t), Done(t), tbNow' = tbNow
  PROVE  ReqKnown'
<1>1. TbTypes /\ ReqKnown /\ WireKnown /\ t \in Txs /\ t.r \in TbRequests
      /\ t.kind \in {"reserve", "settle"}
  BY PendingType, TxFacts DEF TbInv
<1>2. TxKnown(t)
  BY DEF TbInv, PendingKnown
<1>3. tbCharge'[t.r] # Absent /\ tbCharge'[t.r].key = t.key
  BY AbsentFacts DEF Wrote
<1>4. \A s \in TbRequests : s # t.r => tbCharge'[s] = tbCharge[s]
  BY WroteElsewhere
<1>5. ASSUME NEW s \in TbRequests, NEW p, p = tbReq'[s]
      PROVE  OneKnown(s, p)'
  <2>1. CASE s # t.r
    <3>1. p = SpoilReq(tbReq[s], Watchers(t)) /\ tbReq[s] \in Progress
      BY <1>1, <1>5, <2>1 DEF Done, TbTypes
    <3>2. OneKnown(s, tbReq[s])
      BY <1>1 DEF ReqKnown
    <3>3. OneKnown(s, p)
      BY <3>1, <3>2, SpoilKnown
    <3> QED BY <1>4, <2>1, <3>3 DEF OneKnown
  <2>2. CASE s = t.r /\ p.pc \in {"admitted", "settled"}
    <3>1. p.pc = "admitted" => p.key = t.key
      <4>1. CASE p = SpoilReq(tbReq[s], Watchers(t))
        <5>1. tbReq[s] \in Progress
          BY <1>1 DEF TbTypes
        <5>2. tbReq[s].pc = p.pc /\ p = tbReq[s]
          BY <2>2, <4>1, <5>1, SpoilReqFacts
        <5>3. ASSUME p.pc = "admitted" PROVE p.key = t.key
          <6>1. tbCharge[t.r] # Absent /\ tbCharge[t.r].key = p.key
            BY <1>1, <2>2, <5>2, <5>3 DEF ReqKnown, OneKnown
          <6> QED BY <1>1, <1>2, <6>1 DEF TxKnown, FreshReserve
        <5> QED BY <5>3
      <4>2. CASE p # SpoilReq(tbReq[s], Watchers(t))
        BY <1>5, <4>2 DEF Done
      <4> QED BY <4>1, <4>2
    <3> QED BY <1>3, <2>2, <3>1 DEF OneKnown
  <2>3. CASE s = t.r /\ p.pc \notin {"admitted", "settled"}
    <3>1. p = SpoilReq(tbReq[s], Watchers(t)) /\ tbReq[s] \in Progress /\ t \in tbWire
      BY <1>1, <1>5, <2>3 DEF Done, TbTypes
    <3>2. OneKnown(s, tbReq[s])
      BY <1>1 DEF ReqKnown
    <3>3. OneKnown(s, p) /\ p.pc = tbReq[s].pc
      BY <3>1, <3>2, SpoilKnown, SpoilReqFacts
    <3>4. CASE t.kind = "reserve"
      <4>1. p.pc = "over"
        BY <1>1, <2>3, <3>1, <3>3, <3>4 DEF WireKnown
      <4> QED BY <4>1 DEF OneKnown
    <3>5. CASE t.kind = "settle"
      <4>1. tbCharge[s] # Absent /\ tbCharge[s].key = tbCharge'[s].key
        BY <1>2, <1>3, <2>3, <3>5 DEF TxKnown
      <4> QED BY <1>3, <2>3, <3>3, <4>1 DEF OneKnown
    <3> QED BY <1>1, <3>4, <3>5
  <2> QED BY <2>1, <2>2, <2>3
<1>6. ASSUME NEW s \in TbRequests PROVE OneKnown(s, tbReq[s])'
  <2>1. PICK p : p = tbReq'[s]
    OBVIOUS
  <2>2. OneKnown(s, p)'
    BY <1>5, <2>1
  <2> QED BY <2>1, <2>2 DEF OneKnown
<1> QED BY <1>6 DEF ReqKnown

\* A run keeps what is known of the transactions that do not watch its key.
LEMMA RunPending ==
  ASSUME TbInv, NEW t \in Pending, t.clean, Wrote(t), Spoils(Watchers(t)), tbNow' = tbNow
  PROVE  PendingKnown'
<1>1. TbTypes /\ ReqKnown /\ WireKnown /\ t \in Txs /\ t.r \in TbRequests
      /\ t.kind \in {"reserve", "settle"} /\ Pending \subseteq Txs
  BY PendingType, TxFacts DEF TbInv
<1>2. \A u \in Pending : TxKnown(u)
  BY DEF TbInv, PendingKnown
<1>3. tbCharge'[t.r] # Absent /\ tbCharge'[t.r].key = t.key
  BY AbsentFacts DEF Wrote
<1>4. /\ \A s \in TbRequests : s # t.r => tbCharge'[s] = tbCharge[s] /\ tbResv'[s] = tbResv[s]
      /\ \A k \in TbKeys : k # t.key => bucket'[k] = bucket[k]
  BY WroteElsewhere
<1>5. ASSUME NEW v \in Pending' PROVE TxKnown(v)'
  <2>1. PICK u \in Pending : v = SpoilTx(u, Watchers(t))
    BY <1>1, SpoilPending
  <2>2. /\ u \in Txs /\ u.r \in TbRequests /\ u.key \in TbKeys /\ TxKnown(u)
        /\ u.kind \in {"reserve", "settle"}
    BY <1>1, <1>2, TxFacts
  <2>3. v.at = u.at /\ v.kind = u.kind /\ v.r = u.r /\ v.key = u.key
    BY <2>1, <2>2, DirtyFacts DEF SpoilTx
  <2>4. v.at <= tbNow'
    BY <2>2, <2>3 DEF TxKnown
  <2>5. u.kind = "settle" => tbCharge'[u.r] # Absent /\ tbCharge'[u.r].key = u.key
    <3>1. ASSUME u.kind = "settle", u.r = t.r PROVE u.key = t.key
      BY <1>1, <1>2, <2>2, <3>1 DEF TxKnown, FreshReserve
    <3> QED BY <1>3, <1>4, <2>2, <3>1 DEF TxKnown
  <2>6. ASSUME v.clean PROVE v = u /\ u.key # t.key
    <3>1. u \notin Watchers(t)
      BY <2>1, <2>2, <2>6, DirtyFacts DEF SpoilTx
    <3> QED BY <2>1, <3>1 DEF SpoilTx, Watchers
  <2>7. ASSUME v.clean, v.kind = "reserve" PROVE FreshReserve(v)'
    <3>1. v = u /\ u.key # t.key /\ FreshReserve(u)
      BY <2>2, <2>6, <2>7 DEF TxKnown
    <3>2. u.r # t.r
      <4>1. t.kind = "reserve" => u.r # t.r
        BY <1>1, <2>3, <2>7, <3>1, OneReserve
      <4>2. t.kind = "settle" => u.r # t.r
        BY <1>2, <3>1 DEF TxKnown, FreshReserve
      <4> QED BY <1>1, <4>1, <4>2
    <3>3. tbCharge'[u.r] = Absent
      BY <1>4, <2>2, <3>1, <3>2 DEF FreshReserve
    <3>4. bucket'[u.key] = bucket[u.key]
      BY <1>4, <2>2, <3>1
    <3>5. u.est + u.tokens = Refill(bucket'[u.key], u.at)
      BY <3>1, <3>4 DEF FreshReserve
    <3>6. FreshReserve(u)'
      BY <3>3, <3>5 DEF FreshReserve, Refill
    <3> QED BY <3>1, <3>6
  <2>8. ASSUME v.clean, v.kind = "settle" PROVE FreshSettle(v)'
    <3>1. v = u /\ u.key # t.key /\ FreshSettle(u) /\ tbCharge[u.r] # Absent
          /\ tbCharge[u.r].key = u.key
      BY <2>2, <2>6, <2>8 DEF TxKnown
    <3>2. u.r # t.r
      BY <1>1, <1>2, <3>1 DEF TxKnown, FreshReserve
    <3>3. tbResv'[u.r] = tbResv[u.r] /\ bucket'[u.key] = bucket[u.key]
      BY <1>4, <2>2, <3>1, <3>2
    <3>4. FreshSettle(u)'
      BY <3>1, <3>3 DEF FreshSettle, Settled, Refill
    <3> QED BY <3>1, <3>4
  <2> QED BY <2>2, <2>3, <2>4, <2>5, <2>7, <2>8 DEF TxKnown
<1> QED BY <1>5 DEF PendingKnown

\* A run leaves reservations that their bucket outlives, and accounts that are right.
LEMMA RunServer ==
  ASSUME TbInv, NEW t \in Pending, t.clean, Wrote(t), tbNow' = tbNow
  PROVE  ResvKnown' /\ Accounts'
<1>1. TbTypes /\ ResvKnown /\ Accounts /\ t.r \in TbRequests /\ t.key \in TbKeys /\ tbNow \in Nat
  BY PendingType, TxFacts DEF TbInv, TbTypes
<1>2. /\ \A s \in TbRequests : s # t.r => tbCharge'[s] = tbCharge[s] /\ tbResv'[s] = tbResv[s]
      /\ \A k \in TbKeys : k # t.key => bucket'[k] = bucket[k] /\ Extra(k)' = Extra(k)
  BY WroteElsewhere
<1>3. \A k \in TbKeys : k # t.key => Granted(k)' = Granted(k)
  BY WroteGrants
<1>4. PICK w : w = bucket'[t.key]
  OBVIOUS
<1>5. /\ w \in Stored /\ w.until = tbNow + StateTtl /\ w.last <= tbNow /\ w # Absent
      /\ Granted(t.key)' + w.tokens <= TbCapacity + RefillRate * w.last + Extra(t.key)'
  BY <1>4, AbsentFacts DEF Wrote
<1>6. w.last \in Nat /\ StateTtl \in Nat /\ TbTimeout <= StateTtl /\ TbTimeout > 0 /\ TbTimeout \in Nat
  BY <1>5, FillTime, Constants DEF Stored
<1>7. Accounts'
  <2>1. ASSUME NEW k \in TbKeys
        PROVE  /\ bucket'[k] # Absent =>
                    /\ tbNow' < bucket'[k].until /\ bucket'[k].last <= tbNow'
                    /\ bucket'[k].last + StateTtl <= bucket'[k].until
                    /\ Granted(k)' + bucket'[k].tokens
                         <= TbCapacity + RefillRate * bucket'[k].last + Extra(k)'
               /\ bucket'[k] = Absent =>
                    \/ Granted(k)' = 0
                    \/ Granted(k)' + RefillRate * TbTimeout <= RefillRate * tbNow' + Extra(k)'
    <3>1. CASE k = t.key
      <4>1. tbNow < w.until /\ w.last + StateTtl <= w.until
        BY <1>1, <1>5, <1>6
      <4> QED BY <1>4, <1>5, <3>1, <4>1
    <3>2. CASE k # t.key
      <4>1. bucket'[k] = bucket[k] /\ Granted(k)' = Granted(k) /\ Extra(k)' = Extra(k)
        BY <1>2, <1>3, <3>2
      <4> QED BY <1>1, <4>1 DEF Accounts
    <3> QED BY <3>1, <3>2
  <2> QED BY <2>1 DEF Accounts, StateTtl
<1>8. ResvKnown'
  <2>1. ASSUME NEW r \in TbRequests, tbResv'[r] # Absent
        PROVE  /\ tbNow' < tbResv'[r].until /\ tbResv'[r].until <= tbNow' + TbTimeout
               /\ tbCharge'[r] # Absent
               /\ tbCharge'[r].est = tbResv'[r].est /\ tbCharge'[r].amount = tbResv'[r].est
               /\ bucket'[tbCharge'[r].key] # Absent
               /\ tbResv'[r].until <= bucket'[tbCharge'[r].key].until
    <3>1. CASE r = t.r
      <4>1. /\ tbResv'[t.r].until = tbNow + TbTimeout
            /\ tbCharge'[t.r].est = tbResv'[t.r].est
            /\ tbCharge'[t.r].amount = tbResv'[t.r].est
            /\ tbCharge'[t.r] # Absent /\ tbCharge'[t.r].key = t.key
        BY <2>1, <3>1, AbsentFacts DEF Wrote
      <4>2. tbNow < tbNow + TbTimeout /\ tbNow + TbTimeout <= w.until
        BY <1>1, <1>5, <1>6
      <4> QED BY <1>1, <1>4, <1>5, <1>6, <3>1, <4>1, <4>2
    <3>2. CASE r # t.r
      <4>1. PICK v : v = tbResv[r]
        OBVIOUS
      <4>2. PICK c : c = tbCharge[r]
        OBVIOUS
      <4>3. tbCharge'[r] = c /\ tbResv'[r] = v
        BY <1>2, <3>2, <4>1, <4>2
      <4>4. /\ tbNow < v.until /\ v.until <= tbNow + TbTimeout /\ c # Absent
            /\ c.est = v.est /\ c.amount = v.est /\ bucket[c.key] # Absent
            /\ v.until <= bucket[c.key].until
        BY <1>1, <2>1, <4>1, <4>2, <4>3 DEF ResvKnown
      <4>5. v \in Reservations /\ c \in Charges /\ v.until \in Nat /\ c.key \in TbKeys
        BY <1>1, <2>1, <4>1, <4>2, <4>3, <4>4 DEF TbTypes, Reservations, Charges
      <4>6. CASE c.key = t.key
        <5>1. v.until <= w.until
          BY <1>1, <1>5, <1>6, <4>4, <4>5
        <5> QED BY <1>4, <1>5, <4>3, <4>4, <4>6, <5>1
      <4>7. CASE c.key # t.key
        <5>1. bucket'[c.key] = bucket[c.key]
          BY <1>2, <4>5, <4>7
        <5> QED BY <4>3, <4>4, <5>1
      <4> QED BY <4>6, <4>7
    <3> QED BY <3>1, <3>2
  <2> QED BY <2>1 DEF ResvKnown
<1> QED BY <1>7, <1>8

\* The run of a transaction keeps the invariant.
LEMMA RunInv ==
  ASSUME TbInv, NEW t \in Pending, t.clean, Run(t), Done(t), Spoils(Watchers(t)), tbNow' = tbNow
  PROVE  TbInv' /\ Wrote(t)
<1>1. TbTypes /\ ReqKnown /\ WireKnown /\ t.kind \in {"reserve", "settle"} /\ tbNow \in Nat
  BY PendingType, TxFacts DEF TbInv, TbTypes
<1>2. Wrote(t)
  BY <1>1, ReserveWrote, SettlementWrote DEF Run
<1>3. TbTypes'
  <2>1. /\ bucket' \in [TbKeys -> Stored \cup {Absent}]
        /\ tbCharge' \in [TbRequests -> Charges \cup {Absent}]
        /\ tbResv' \in [TbRequests -> Reservations \cup {Absent}] /\ tbLag' \in [TbKeys -> Nat]
    BY <1>2, WroteElsewhere DEF Histories
  <2>2. tbReq' \in [TbRequests -> Progress] /\ tbWire' \in SUBSET Txs
    BY <1>1, SpoilPending DEF Spoils
  <2> QED BY <1>1, <2>1, <2>2 DEF TbTypes
<1>4. ReqKnown' /\ PendingKnown' /\ ResvKnown' /\ Accounts'
  BY <1>2, RunReq, RunPending, RunServer
<1>5. WireKnown'
  BY <1>1, SpoilWire
<1> QED BY <1>2, <1>3, <1>4, <1>5 DEF TbInv

\* To write a key is to spoil who watches it.
LEMMA SpoiltIsSpoils ==
  ASSUME TbInv, NEW t \in Pending
  PROVE  /\ SpoiltWire(t.key) = {SpoilTx(u, Watchers(t)) : u \in tbWire}
         /\ SpoiltReq(t.key) \in [TbRequests -> Progress]
         /\ \A s \in TbRequests : SpoiltReq(t.key)[s] = SpoilReq(tbReq[s], Watchers(t))
<1>1. TbTypes /\ ReqKnown
  BY DEF TbInv
<1>2. \A u \in tbWire : u \in Pending
  BY DEF Pending
<1>3. SpoiltWire(t.key) = {SpoilTx(u, Watchers(t)) : u \in tbWire}
  <2>1. ASSUME NEW u \in tbWire
        PROVE  SpoilTx(u, Watchers(t)) = IF u.key = t.key THEN [u EXCEPT !.clean = FALSE] ELSE u
    BY <1>2 DEF SpoilTx, Watchers, Dirty
  <2> QED BY <2>1 DEF SpoiltWire
<1>4. ASSUME NEW s \in TbRequests
      PROVE  SpoiltReq(t.key)[s] = SpoilReq(tbReq[s], Watchers(t))
  <2>1. PICK q : q = tbReq[s]
    OBVIOUS
  <2>2. q \in Progress /\ OneKnown(s, q)
    BY <1>1, <2>1 DEF TbTypes, ReqKnown
  <2>3. SpoiltReq(t.key)[s] = IF q.pc \in {"exec", "settle_exec"} /\ q.key = t.key
                              THEN [q EXCEPT !.tx.clean = FALSE] ELSE q
    BY <2>1 DEF SpoiltReq
  <2>4. CASE q.pc \notin {"exec", "settle_exec"}
    BY <2>1, <2>3, <2>4 DEF SpoilReq
  <2>5. CASE q.pc \in {"exec", "settle_exec"}
    <3>1. q.tx \in Pending /\ q.tx.key = q.key
      BY <2>1, <2>2, <2>5 DEF Pending, AtExec, OneKnown
    <3>2. q.tx \in Watchers(t) <=> q.key = t.key
      BY <3>1 DEF Watchers
    <3>3. CASE q.key # t.key
      BY <2>1, <2>2, <2>3, <2>5, <3>2, <3>3, SpoilReqFacts
    <3>4. CASE q.key = t.key
      <4>1. SpoilReq(q, Watchers(t)) = [q EXCEPT !.tx = [q.tx EXCEPT !.clean = FALSE]]
        BY <2>5, <3>2, <3>4 DEF SpoilReq, SpoilTx, Dirty
      <4> QED BY <2>1, <2>3, <2>5, <3>4, <4>1
    <3> QED BY <3>3, <3>4
  <2> QED BY <2>4, <2>5
<1>5. SpoiltReq(t.key) \in [TbRequests -> Progress]
  <2>1. ASSUME NEW s \in TbRequests PROVE SpoiltReq(t.key)[s] \in Progress
    <3>1. tbReq[s] \in Progress
      BY <1>1 DEF TbTypes
    <3> QED BY <1>4, <3>1, SpoilReqFacts
  <2>2. PICK f : f = SpoiltReq(t.key)
    OBVIOUS
  <2>3. f = [s \in TbRequests |-> f[s]]
    BY <2>2 DEF SpoiltReq
  <2> QED BY <2>1, <2>2, <2>3
<1> QED BY <1>3, <1>4, <1>5

\* An EXEC that runs, its client waiting.
LEMMA StepExec ==
  ASSUME TbInv, NEW r \in TbRequests, Exec(r), MayRun(tbReq[r].tx)
  PROVE  TbInv' /\ tbReq[r].tx \in Pending /\ Run(tbReq[r].tx) /\ Wrote(tbReq[r].tx)
<1>1. TbTypes /\ ReqKnown
  BY DEF TbInv
<1>2. PICK t : t = tbReq[r].tx
  OBVIOUS
<1>3. PICK p : p = IF tbReq[r].pc = "exec" THEN [pc |-> "admitted", key |-> t.key]
                   ELSE [pc |-> "settled"]
  OBVIOUS
<1>4. /\ tbReq[r].pc \in {"exec", "settle_exec"} /\ Run(t) /\ tbNow' = tbNow
      /\ tbReq' = [SpoiltReq(t.key) EXCEPT ![r] = p] /\ tbWire' = SpoiltWire(t.key)
  BY <1>2, <1>3 DEF Exec
<1>5. t \in Pending /\ r \in AtExec /\ t.r = r /\ t.key \in TbKeys /\ t.clean
  <2>1. r \in AtExec /\ t \in Pending
    BY <1>2, <1>4 DEF AtExec, Pending
  <2> QED BY <1>1, <1>2, <1>4, <2>1, PendingType, TxFacts DEF ReqKnown, OneKnown, MayRun
<1>6. p \in Progress /\ (p.pc = "settled" \/ (p.pc = "admitted" /\ p.key = t.key))
  BY <1>3, <1>5 DEF Progress, Ended, Responding
<1>7. PICK f : f = SpoiltReq(t.key)
  OBVIOUS
<1>8. /\ f \in [TbRequests -> Progress]
      /\ \A s \in TbRequests : f[s] = SpoilReq(tbReq[s], Watchers(t))
      /\ tbWire' = {SpoilTx(u, Watchers(t)) : u \in tbWire}
  BY <1>4, <1>5, <1>7, SpoiltIsSpoils
<1>9. /\ tbReq' \in [TbRequests -> Progress] /\ tbReq'[r] = p
      /\ \A s \in TbRequests : s # r => tbReq'[s] = SpoilReq(tbReq[s], Watchers(t))
  <2>1. tbReq' = [f EXCEPT ![r] = p]
    BY <1>4, <1>7
  <2> QED BY <1>6, <1>8, <2>1
<1>10. Spoils(Watchers(t))
  BY <1>5, <1>6, <1>8, <1>9 DEF Spoils
<1>11. Done(t)
  BY <1>5, <1>6, <1>9 DEF Done
<1>12. TbInv' /\ Wrote(t)
  BY <1>4, <1>5, <1>10, <1>11, RunInv
<1> QED BY <1>2, <1>4, <1>5, <1>12

\* A transaction that runs when its client has given up.
LEMMA StepLate ==
  ASSUME TbInv, NEW t \in tbWire, TbLateRun(t)
  PROVE  TbInv' /\ t \in Pending /\ Run(t) /\ t.clean /\ Wrote(t)
<1>1. /\ t \in Pending /\ t.clean /\ Run(t) /\ tbReq' = SpoiltReq(t.key)
      /\ tbWire' = SpoiltWire(t.key) /\ tbNow' = tbNow
  BY DEF TbLateRun, MayRun, Pending
<1>2. PICK f : f = SpoiltReq(t.key)
  OBVIOUS
<1>3. /\ f \in [TbRequests -> Progress]
      /\ \A s \in TbRequests : f[s] = SpoilReq(tbReq[s], Watchers(t))
      /\ tbWire' = {SpoilTx(u, Watchers(t)) : u \in tbWire}
  BY <1>1, <1>2, SpoiltIsSpoils
<1>4. Spoils(Watchers(t)) /\ Done(t)
  BY <1>1, <1>2, <1>3 DEF Spoils, Done
<1> QED BY <1>1, <1>4, RunInv

-----------------------------------------------------------------------------
(* Time passes                                                             *)

\* The keys and the reservations that expire, and who watches them.
Expiring == {k \in TbKeys : bucket[k] # Absent /\ bucket[k].until <= tbNow + 1}
Lapsing == {r \in TbRequests : tbResv[r] # Absent /\ tbResv[r].until <= tbNow + 1}
StaleNow == {u \in Pending : u.key \in Expiring \/ (u.kind = "settle" /\ u.r \in Lapsing)}

\* The server after a tick.
Ticked ==
  /\ tbNow' = tbNow + 1 /\ tbCharge' = tbCharge /\ tbLag' = tbLag
  /\ \A k \in TbKeys : bucket'[k] = IF k \in Expiring THEN Absent ELSE bucket[k]
  /\ \A r \in TbRequests : tbResv'[r] = IF r \in Lapsing THEN Absent ELSE tbResv[r]

\* A tick expires keys and spoils their watchers.
LEMMA TickFacts ==
  ASSUME TbInv, TbTick
  PROVE  /\ Ticked /\ Spoils(StaleNow)
         /\ bucket' \in [TbKeys -> Stored \cup {Absent}]
         /\ tbResv' \in [TbRequests -> Reservations \cup {Absent}]
         /\ \A s \in TbRequests : tbReq'[s] = SpoilReq(tbReq[s], StaleNow)
<1> DEFINE stale(t) == t.key \in Expiring \/ (t.kind = "settle" /\ t.r \in Lapsing)
           spoil(t) == IF stale(t) THEN [t EXCEPT !.clean = FALSE] ELSE t
<1>1. TbTypes
  BY DEF TbInv
<1>2. /\ tbNow' = tbNow + 1 /\ tbCharge' = tbCharge /\ tbLag' = tbLag
      /\ bucket' = [k \in TbKeys |-> IF k \in Expiring THEN Absent ELSE bucket[k]]
      /\ tbResv' = [r \in TbRequests |-> IF r \in Lapsing THEN Absent ELSE tbResv[r]]
      /\ tbReq' = [r \in TbRequests |-> IF tbReq[r].pc \in {"exec", "settle_exec"}
                     THEN [tbReq[r] EXCEPT !.tx = spoil(@)] ELSE tbReq[r]]
      /\ tbWire' = {spoil(t) : t \in tbWire}
  BY DEF TbTick, Expiring, Lapsing
<1>3. ASSUME NEW u \in Pending PROVE spoil(u) = SpoilTx(u, StaleNow)
  BY DEF SpoilTx, StaleNow, Dirty
<1> HIDE DEF stale, spoil
<1>4. Ticked
  BY <1>2 DEF Ticked
<1>5. /\ bucket' \in [TbKeys -> Stored \cup {Absent}]
      /\ tbResv' \in [TbRequests -> Reservations \cup {Absent}]
  BY <1>1, <1>2 DEF TbTypes
<1>6. ASSUME NEW s \in TbRequests
      PROVE  tbReq'[s] = SpoilReq(tbReq[s], StaleNow) /\ tbReq'[s] \in Progress
  <2>1. PICK q : q = tbReq[s]
    OBVIOUS
  <2>2. q \in Progress
    BY <1>1, <2>1 DEF TbTypes
  <2>3. tbReq'[s] = IF q.pc \in {"exec", "settle_exec"} THEN [q EXCEPT !.tx = spoil(q.tx)] ELSE q
    BY <1>2, <2>1
  <2>4. tbReq'[s] = SpoilReq(q, StaleNow)
    <3>1. CASE q.pc \in {"exec", "settle_exec"}
      <4>1. q.tx \in Pending
        BY <2>1, <3>1 DEF Pending, AtExec
      <4>2. spoil(q.tx) = SpoilTx(q.tx, StaleNow)
        BY <1>3, <4>1
      <4> QED BY <2>3, <3>1, <4>2 DEF SpoilReq
    <3>2. CASE q.pc \notin {"exec", "settle_exec"}
      BY <2>3, <3>2 DEF SpoilReq
    <3> QED BY <3>1, <3>2
  <2> QED BY <2>1, <2>2, <2>4, SpoilReqFacts
<1>7. tbReq' \in [TbRequests -> Progress]
  <2>1. tbReq' = [s \in TbRequests |-> tbReq'[s]]
    BY <1>2
  <2> QED BY <1>6, <2>1
<1>8. tbWire' = {SpoilTx(u, StaleNow) : u \in tbWire}
  <2>1. ASSUME NEW u \in tbWire PROVE spoil(u) = SpoilTx(u, StaleNow)
    BY <1>3 DEF Pending
  <2> QED BY <1>2, <2>1
<1> QED BY <1>4, <1>5, <1>6, <1>7, <1>8 DEF Spoils

\* A bucket that expires has been full for the length of a timeout.
LEMMA ExpiresFull ==
  ASSUME TbInv, NEW k \in Expiring
  PROVE  /\ Refill(bucket[k], tbNow + 1) = TbCapacity
         /\ Granted(k) + RefillRate * TbTimeout <= RefillRate * (tbNow + 1) + Extra(k)
<1>1. TbTypes /\ Accounts /\ k \in TbKeys /\ bucket[k] # Absent /\ tbNow \in Nat
      /\ bucket[k].until <= tbNow + 1
  BY DEF TbInv, TbTypes, Expiring
<1>2. PICK b : b = bucket[k]
  OBVIOUS
<1>3. /\ b \in Stored /\ b.last \in Nat /\ b.until \in Nat /\ b.tokens \in Nat
      /\ b.last + StateTtl <= b.until /\ b.until <= tbNow + 1
      /\ Granted(k) + b.tokens <= TbCapacity + RefillRate * b.last + Extra(k)
  BY <1>1, <1>2, Constants DEF TbTypes, Accounts, Stored
<1>4. Granted(k) \in Nat /\ Extra(k) \in Nat
  BY <1>1, GrantedIsSold, CostFacts, ExtraFacts DEF TbTypes, Histories
<1>5. StateTtl \in Nat /\ TbTimeout \in Nat /\ TbTimeout <= StateTtl /\ TbCapacity \in Nat
      /\ RefillRate \in Nat
  BY FillTime, Constants
<1>6. PICK d \in Nat : d = (tbNow + 1) - TbTimeout - b.last
  <2>1. (tbNow + 1) - TbTimeout - b.last \in Nat
    BY <1>1, <1>3, <1>5
  <2> QED BY <2>1
<1>7. TbCapacity <= d * RefillRate
  <2>1. StateTtl - TbTimeout <= d
    BY <1>1, <1>3, <1>5, <1>6
  <2> QED BY <2>1, FillTime
<1>8. PICK e \in Nat : e = b.last + d /\ tbNow + 1 = e + TbTimeout
  BY <1>1, <1>3, <1>5, <1>6
<1>9. /\ RefillRate * e = RefillRate * b.last + RefillRate * d
      /\ RefillRate * (tbNow + 1) = RefillRate * e + RefillRate * TbTimeout
      /\ RefillRate * e \in Nat /\ RefillRate * TbTimeout \in Nat
      /\ RefillRate * b.last \in Nat /\ RefillRate * d \in Nat
  BY <1>3, <1>5, <1>6, <1>8, RateTimes
<1>10. d * RefillRate = RefillRate * d
  BY <1>5, <1>6
<1>11. Granted(k) + RefillRate * TbTimeout <= RefillRate * (tbNow + 1) + Extra(k)
  BY <1>3, <1>4, <1>5, <1>7, <1>9, <1>10
<1>12. Refill(b, tbNow + 1) = TbCapacity
  <2>1. b.last <= tbNow + 1 /\ StateTtl - TbTimeout <= (tbNow + 1) - b.last /\ tbNow + 1 \in Nat
    BY <1>1, <1>3, <1>5
  <2> QED BY <1>3, <2>1, RefillFacts
<1> QED BY <1>2, <1>11, <1>12

\* A tick keeps the invariant.
LEMMA StepTick ==
  ASSUME TbInv, TbTick
  PROVE  TbInv'
<1>1. TbTypes /\ ReqKnown /\ WireKnown /\ PendingKnown /\ ResvKnown /\ Accounts /\ tbNow \in Nat
  BY DEF TbInv, TbTypes
<1>2. /\ Ticked /\ Spoils(StaleNow)
      /\ bucket' \in [TbKeys -> Stored \cup {Absent}]
      /\ tbResv' \in [TbRequests -> Reservations \cup {Absent}]
      /\ \A s \in TbRequests : tbReq'[s] = SpoilReq(tbReq[s], StaleNow)
  BY TickFacts
<1>3. tbNow' = tbNow + 1 /\ tbCharge' = tbCharge /\ tbLag' = tbLag /\ tbNow' \in Nat
  BY <1>1, <1>2 DEF Ticked
<1>4. \A k : Granted(k)' = Granted(k) /\ Extra(k)' = Extra(k)
  BY <1>1, <1>3, GrantedIsSold, ExtraFacts
<1>5. TbTypes'
  <2>1. tbReq' \in [TbRequests -> Progress] /\ tbWire' \in SUBSET Txs
    BY <1>1, <1>2, SpoilPending DEF Spoils
  <2> QED BY <1>1, <1>2, <1>3, <2>1 DEF TbTypes
<1>6. ReqKnown'
  <2>1. ASSUME NEW s \in TbRequests PROVE OneKnown(s, tbReq[s])'
    <3>1. PICK p : p = tbReq'[s]
      OBVIOUS
    <3>2. OneKnown(s, p) /\ p \in Progress
      <4>1. OneKnown(s, tbReq[s]) /\ tbReq[s] \in Progress
        BY <1>1 DEF ReqKnown, TbTypes
      <4> QED BY <1>2, <3>1, <4>1, SpoilKnown, SpoilReqFacts
    <3>3. p.pc \in {"read", "settle_read", "settle_exec"} => p.at \in Nat
      BY <3>2, ProgressFacts DEF Reading, Rereading, Settling
    <3>4. p.pc \in {"read", "settle_read", "settle_exec"} => p.at <= tbNow'
      BY <1>1, <1>3, <3>2, <3>3 DEF OneKnown
    <3>5. OneKnown(s, p)'
      BY <1>3, <3>2, <3>4 DEF OneKnown
    <3> QED BY <3>1, <3>5 DEF OneKnown
  <2> QED BY <2>1 DEF ReqKnown
<1>7. PendingKnown'
  <2>1. ASSUME NEW v \in Pending' PROVE TxKnown(v)'
    <3>1. PICK u \in Pending : v = SpoilTx(u, StaleNow)
      BY <1>1, <1>2, SpoilPending
    <3>2. /\ u \in Txs /\ u.r \in TbRequests /\ u.key \in TbKeys /\ TxKnown(u) /\ u.at \in Nat
          /\ u.kind \in {"reserve", "settle"}
      BY <1>1, PendingType, TxFacts DEF PendingKnown
    <3>3. v.at = u.at /\ v.kind = u.kind /\ v.r = u.r /\ v.key = u.key
      BY <3>1, <3>2, DirtyFacts DEF SpoilTx
    <3>4. v.at <= tbNow'
      <4>1. u.at <= tbNow
        BY <3>2 DEF TxKnown
      <4> QED BY <1>1, <1>3, <3>2, <3>3, <4>1
    <3>5. v.kind = "settle" => tbCharge'[v.r] # Absent /\ tbCharge'[v.r].key = v.key
      BY <1>3, <3>2, <3>3 DEF TxKnown
    <3>6. ASSUME v.clean
          PROVE  v = u /\ u.key \notin Expiring /\ (u.kind = "settle" => u.r \notin Lapsing)
      <4>1. u \notin StaleNow
        BY <3>1, <3>2, <3>6, DirtyFacts DEF SpoilTx
      <4> QED BY <3>1, <4>1 DEF SpoilTx, StaleNow
    <3>7. v.clean => bucket'[u.key] = bucket[u.key]
      BY <1>2, <3>2, <3>6 DEF Ticked
    <3>8. ASSUME v.clean, v.kind = "reserve" PROVE FreshReserve(v)'
      <4>1. v = u /\ FreshReserve(u) /\ bucket'[u.key] = bucket[u.key]
        BY <3>2, <3>6, <3>7, <3>8 DEF TxKnown
      <4>2. FreshReserve(u)'
        BY <1>3, <1>4, <4>1 DEF FreshReserve, Refill
      <4> QED BY <4>1, <4>2
    <3>9. ASSUME v.clean, v.kind = "settle" PROVE FreshSettle(v)'
      <4>1. v = u /\ FreshSettle(u) /\ bucket'[u.key] = bucket[u.key] /\ u.r \notin Lapsing
        BY <3>2, <3>6, <3>7, <3>9 DEF TxKnown
      <4>2. tbResv'[u.r] = tbResv[u.r]
        BY <1>2, <3>2, <4>1 DEF Ticked
      <4>3. FreshSettle(u)'
        BY <4>1, <4>2 DEF FreshSettle, Settled, Refill
      <4> QED BY <4>1, <4>3
    <3> QED BY <3>4, <3>5, <3>8, <3>9 DEF TxKnown
  <2> QED BY <2>1 DEF PendingKnown
<1>8. WireKnown'
  BY <1>1, <1>2, SpoilWire
<1>9. ResvKnown'
  <2>1. ASSUME NEW r \in TbRequests, tbResv'[r] # Absent
        PROVE  /\ tbNow' < tbResv'[r].until /\ tbResv'[r].until <= tbNow' + TbTimeout
               /\ tbCharge'[r] # Absent
               /\ tbCharge'[r].est = tbResv'[r].est /\ tbCharge'[r].amount = tbResv'[r].est
               /\ bucket'[tbCharge'[r].key] # Absent
               /\ tbResv'[r].until <= bucket'[tbCharge'[r].key].until
    <3>1. PICK v : v = tbResv[r]
      OBVIOUS
    <3>2. PICK c : c = tbCharge[r]
      OBVIOUS
    <3>3. r \notin Lapsing /\ tbResv'[r] = v /\ v # Absent
      BY <1>2, <2>1, <3>1 DEF Ticked
    <3>4. /\ tbNow < v.until /\ v.until <= tbNow + TbTimeout /\ c # Absent
          /\ c.est = v.est /\ c.amount = v.est /\ bucket[c.key] # Absent
          /\ v.until <= bucket[c.key].until
      BY <1>1, <3>1, <3>2, <3>3 DEF ResvKnown
    <3>5. v \in Reservations /\ c \in Charges /\ bucket[c.key] \in Stored
      BY <1>1, <3>1, <3>2, <3>3, <3>4 DEF TbTypes, Charges
    <3>6. v.until \in Nat /\ c.key \in TbKeys /\ bucket[c.key].until \in Nat /\ TbTimeout \in Nat
      BY <3>5, Constants DEF Reservations, Charges, Stored
    <3>7. ~(v.until <= tbNow + 1)
      BY <3>1, <3>3 DEF Lapsing
    <3>8. c.key \notin Expiring
      BY <1>1, <3>4, <3>6, <3>7 DEF Expiring
    <3>9. bucket'[c.key] = bucket[c.key]
      BY <1>2, <3>6, <3>8 DEF Ticked
    <3>10. tbNow' < v.until /\ v.until <= tbNow' + TbTimeout
      BY <1>1, <1>3, <3>4, <3>6, <3>7
    <3> QED BY <1>3, <3>2, <3>3, <3>4, <3>9, <3>10
  <2> QED BY <2>1 DEF ResvKnown
<1>10. Accounts'
  <2>1. ASSUME NEW k \in TbKeys
        PROVE  /\ bucket'[k] # Absent =>
                    /\ tbNow' < bucket'[k].until /\ bucket'[k].last <= tbNow'
                    /\ bucket'[k].last + StateTtl <= bucket'[k].until
                    /\ Granted(k)' + bucket'[k].tokens
                         <= TbCapacity + RefillRate * bucket'[k].last + Extra(k)'
               /\ bucket'[k] = Absent =>
                    \/ Granted(k)' = 0
                    \/ Granted(k)' + RefillRate * TbTimeout <= RefillRate * tbNow' + Extra(k)'
    <3>1. CASE k \in Expiring
      <4>1. bucket'[k] = Absent
        BY <1>2, <3>1 DEF Ticked
      <4>2. Granted(k) + RefillRate * TbTimeout <= RefillRate * (tbNow + 1) + Extra(k)
        BY <3>1, ExpiresFull
      <4> QED BY <1>3, <1>4, <4>1, <4>2
    <3>2. CASE k \notin Expiring /\ bucket[k] # Absent
      <4>1. PICK b : b = bucket[k]
        OBVIOUS
      <4>2. bucket'[k] = b
        BY <1>2, <3>2, <4>1 DEF Ticked
      <4>3. b \in Stored /\ b.last \in Nat /\ b.until \in Nat
        BY <1>1, <3>2, <4>1 DEF TbTypes, Stored
      <4>4. ~(b.until <= tbNow + 1)
        BY <3>2, <4>1 DEF Expiring
      <4>5. /\ b.last <= tbNow /\ b.last + StateTtl <= b.until
            /\ Granted(k) + b.tokens <= TbCapacity + RefillRate * b.last + Extra(k)
        BY <1>1, <3>2, <4>1 DEF Accounts
      <4>6. tbNow' < b.until /\ b.last <= tbNow'
        BY <1>1, <1>3, <4>3, <4>4, <4>5
      <4> QED BY <1>4, <3>2, <4>1, <4>2, <4>5, <4>6
    <3>3. CASE bucket[k] = Absent
      <4>1. bucket'[k] = Absent
        BY <1>2, <3>3 DEF Ticked
      <4>2. \/ Granted(k) = 0
            \/ Granted(k) + RefillRate * TbTimeout <= RefillRate * tbNow + Extra(k)
        BY <1>1, <3>3 DEF Accounts
      <4>3. Granted(k) \in Nat /\ Extra(k) \in Nat
        BY <1>1, GrantedIsSold, CostFacts, ExtraFacts DEF TbTypes, Histories
      <4>4. RefillRate * tbNow <= RefillRate * tbNow' /\ RefillRate * tbNow \in Nat
            /\ RefillRate * tbNow' \in Nat /\ RefillRate * TbTimeout \in Nat
        <5>1. tbNow <= tbNow' /\ TbTimeout \in Nat
          BY <1>1, <1>3, Constants
        <5> QED BY <1>1, <1>3, <5>1, RateTimes
      <4> QED BY <1>4, <4>1, <4>2, <4>3, <4>4
    <3> QED BY <3>1, <3>2, <3>3
  <2> QED BY <2>1 DEF Accounts, StateTtl
<1> QED BY <1>5, <1>6, <1>7, <1>8, <1>9, <1>10 DEF TbInv

-----------------------------------------------------------------------------
(* The theorems                                                            *)

\* An empty server.
LEMMA InitInv ==
  ASSUME TbInit
  PROVE  TbInv
<1>1. /\ tbNow = 0 /\ \A k \in TbKeys : bucket[k] = Absent
      /\ \A r \in TbRequests : tbResv[r] = Absent /\ tbCharge[r] = Absent
                               /\ tbReq[r] = [pc |-> "idle"]
      /\ tbWire = {}
  BY DEF TbInit
<1>2. \A r \in TbRequests : tbReq[r] \in Progress /\ tbReq[r].pc = "idle"
  BY <1>1 DEF Progress, Ended
<1>3. TbTypes
  BY <1>2 DEF TbInit, TbTypes
<1>4. ReqKnown /\ WireKnown /\ ResvKnown
  BY <1>1, <1>2 DEF ReqKnown, OneKnown, WireKnown, ResvKnown
<1>5. Pending = {}
  BY <1>1, <1>2 DEF Pending, AtExec
<1>6. ASSUME NEW k \in TbKeys PROVE Granted(k) = 0
  <2>1. ChargedTo(k) = {}
    BY <1>1 DEF ChargedTo
  <2>2. PICK f : f = [r \in {} |-> Least(tbCharge[r].est, tbCharge[r].amount)]
    OBVIOUS
  <2>3. Granted(k) = SumFunctionOnSet(f, {})
    BY <2>1, <2>2 DEF Granted
  <2>4. IsFiniteSet({}) /\ \A x \in {} : f[x] \in Nat
    BY FS_EmptySet
  <2> QED BY <2>3, <2>4, SumType
<1>7. Accounts
  BY <1>1, <1>6 DEF Accounts
<1> QED BY <1>3, <1>4, <1>5, <1>7 DEF TbInv, PendingKnown

\* Every step keeps the invariant.
LEMMA NextInv ==
  ASSUME TbInv, [TbNext]_tbVars
  PROVE  TbInv'
<1>1. CASE UNCHANGED tbVars
  <2>1. /\ tbNow' = tbNow /\ bucket' = bucket /\ tbResv' = tbResv /\ tbCharge' = tbCharge
        /\ tbReq' = tbReq /\ tbWire' = tbWire /\ tbLag' = tbLag
    BY <1>1 DEF tbVars, tbServer
  <2>2. (\A k : Granted(k)' = Granted(k) /\ Extra(k)' = Extra(k)) /\ Pending' = Pending
    BY <2>1, GrantedIsSold, ExtraFacts DEF Pending, AtExec, TbInv
  <2>3. TbTypes' /\ ReqKnown' /\ WireKnown' /\ ResvKnown'
    BY <2>1 DEF TbInv, TbTypes, ReqKnown, OneKnown, WireKnown, ResvKnown
  <2>4. Accounts'
    BY <2>1, <2>2 DEF TbInv, Accounts
  <2>5. \A t : TxKnown(t)' <=> TxKnown(t)
    BY <2>1, <2>2 DEF TxKnown, FreshReserve, FreshSettle, Refill, Settled
  <2>6. PendingKnown'
    BY <2>2, <2>5 DEF TbInv, PendingKnown
  <2> QED BY <2>3, <2>4, <2>6 DEF TbInv
<1>2. CASE \E r \in TbRequests : TbBegin(r) \/ ReadBucket(r) \/ Respond(r) \/ ReadReservation(r)
                                 \/ Exec(r) \/ TbFails(r)
  BY <1>2, StepBegin, StepReadBucket, StepRespond, StepReadReservation, StepAbort, StepExec,
     StepFails
<1>3. CASE \E t \in tbWire : TbLateRun(t)
  BY <1>3, StepLate
<1>4. CASE TbTick
  BY <1>4, StepTick
<1> QED BY <1>1, <1>2, <1>3, <1>4 DEF TbNext

\* The invariant always holds.
LEMMA TbInvAlways == TbSpec => []TbInv
<1>1. TbInit => TbInv
  BY InitInv
<1>2. TbInv /\ [TbNext]_tbVars => TbInv'
  BY NextInv
<1> QED BY <1>1, <1>2, PTL DEF TbSpec

\* The invariant implies the bound.
LEMMA InvGrants ==
  ASSUME TbInv
  PROVE  BucketGrants
<1>1. TbTypes /\ Accounts /\ tbNow \in Nat /\ tbCharge \in Histories
  BY DEF TbInv, TbTypes, Histories
<1>2. ASSUME NEW k \in TbKeys
      PROVE  Granted(k) + Refill(bucket[k], tbNow)
                  <= TbCapacity + RefillRate * (tbNow + tbLag[k])
  <2>1. PICK g \in Nat : g = Granted(k)
    BY <1>1, GrantedIsSold, CostFacts
  <2>2. RefillRate * tbNow \in Nat /\ TbCapacity \in Nat /\ RefillRate * TbTimeout \in Nat
    BY <1>1, Constants, RateTimes
  <2>3. PICK x \in Nat : x = Extra(k) /\ RefillRate * (tbNow + tbLag[k]) = RefillRate * tbNow + x
    <3>1. Extra(k) \in Nat /\ tbLag[k] \in Nat
      BY <1>1, ExtraFacts
    <3> QED BY <1>1, <3>1, RateTimes DEF Extra
  <2>4. CASE bucket[k] = Absent
    <3>1. Refill(bucket[k], tbNow) = TbCapacity
      BY <2>4, RefillAbsent
    <3>2. g = 0 \/ g + RefillRate * TbTimeout <= RefillRate * tbNow + x
      BY <1>1, <2>1, <2>3, <2>4 DEF Accounts
    <3> QED BY <2>1, <2>2, <2>3, <3>1, <3>2
  <2>5. CASE bucket[k] # Absent
    <3>1. PICK b : b = bucket[k]
      OBVIOUS
    <3>2. /\ b \in Stored /\ b.last <= tbNow
          /\ g + b.tokens <= TbCapacity + RefillRate * b.last + x
      BY <1>1, <2>1, <2>3, <2>5, <3>1 DEF TbTypes, Accounts
    <3>3. b.last \in Nat /\ b.tokens \in Nat /\ RefillRate * b.last \in Nat
      BY <2>2, <3>2, RateTimes DEF Stored
    <3>4. PICK m : m = Refill(b, tbNow)
      OBVIOUS
    <3>5. m \in 0..TbCapacity /\ m <= b.tokens + RefillRate * tbNow - RefillRate * b.last
      BY <1>1, <3>2, <3>4, RefillFacts
    <3>6. g + m <= TbCapacity + RefillRate * tbNow + x
      BY <2>1, <2>2, <2>3, <3>2, <3>3, <3>5
    <3>7. TbCapacity + RefillRate * tbNow + x = TbCapacity + (RefillRate * tbNow + x)
      BY <2>2, <2>3
    <3> QED BY <2>1, <2>3, <3>1, <3>4, <3>6, <3>7
  <2> QED BY <2>4, <2>5
<1>3. BalanceInRange
  BY <1>1 DEF BalanceInRange, TbTypes, Stored
<1> QED BY <1>2, <1>3 DEF BucketGrants, GrantsBounded

\* The bucket that gateways share in Valkey grants no more than its capacity and what
\* was refilled, whatever is retried, aborted, stalled, or runs after its client gave
\* up, where time counts twice only as long as transactions that re-created the bucket
\* were overdue, and no balance leaves its range (read_bucket, read_reservation,
\* write_bucket, refill).
THEOREM SharedBucketBounded == TbSpec => []BucketGrants
<1>1. TbInv => BucketGrants
  BY InvGrants
<1> QED BY <1>1, TbInvAlways, PTL

\* What a step does to buckets and charges.
LEMMA StepWrites ==
  ASSUME TbInv, [TbNext]_tbVars
  PROVE  \/ bucket' = bucket /\ tbCharge' = tbCharge
         \/ \E t \in Pending : t.clean /\ Wrote(t)
         \/ TbTick
<1>1. CASE UNCHANGED tbVars
  BY <1>1 DEF tbVars, tbServer
<1>2. ASSUME NEW r \in TbRequests,
             TbBegin(r) \/ ReadBucket(r) \/ Respond(r) \/ ReadReservation(r) \/ TbFails(r)
      PROVE  bucket' = bucket /\ tbCharge' = tbCharge
  BY <1>2 DEF TbBegin, ReadBucket, Respond, ReadReservation, TbFails, tbServer
<1>3. ASSUME NEW r \in TbRequests, Exec(r), ~MayRun(tbReq[r].tx)
      PROVE  bucket' = bucket /\ tbCharge' = tbCharge
  BY <1>3 DEF Exec, tbServer
<1>4. ASSUME NEW r \in TbRequests, Exec(r), MayRun(tbReq[r].tx)
      PROVE  \E t \in Pending : t.clean /\ Wrote(t)
  BY <1>4, StepExec DEF MayRun
<1>5. ASSUME NEW t \in tbWire, TbLateRun(t)
      PROVE  \E u \in Pending : u.clean /\ Wrote(u)
  BY <1>5, StepLate
<1> QED BY <1>1, <1>2, <1>3, <1>4, <1>5 DEF TbNext

\* A bucket is dropped by its TTL only when it is full, so that the new one that the
\* next read makes of a missing key is the old one (write_bucket's EXPIRE, state_ttl).
THEOREM BucketsExpireFull == TbSpec => ExpiryHarmless
<1>1. ASSUME TbInv, [TbNext]_tbVars, NEW k \in TbKeys, bucket[k] # Absent, bucket'[k] = Absent
      PROVE  Refill(bucket[k], tbNow') = TbCapacity
  <2>1. TbTypes
    BY <1>1 DEF TbInv
  <2>2. ASSUME NEW t \in Pending, Wrote(t) PROVE bucket'[k] # Absent
    <3>1. \A j \in TbKeys : j # t.key => bucket'[j] = bucket[j]
      BY <1>1, <2>2, WroteElsewhere
    <3>2. bucket'[t.key] # Absent
      BY <2>2, AbsentFacts DEF Wrote
    <3> QED BY <1>1, <3>1, <3>2
  <2>3. TbTick
    BY <1>1, <2>2, StepWrites
  <2>4. k \in Expiring /\ tbNow' = tbNow + 1
    BY <1>1, <2>3, TickFacts DEF Ticked
  <2> QED BY <1>1, <2>4, ExpiresFull
<1>2. TbInv /\ [TbNext]_tbVars =>
        [\A k \in TbKeys : (bucket[k] # Absent /\ bucket'[k] = Absent)
                           => Refill(bucket[k], tbNow') = TbCapacity]_tbVars
  BY <1>1
<1> QED BY <1>2, TbInvAlways, PTL DEF TbSpec, ExpiryHarmless

\* A reservation is settled once, and one that has expired is not refunded: whatever is
\* retried or runs late, the charge stays (settlement_pipeline under WATCH).
THEOREM ReservationsSettleOnce == TbSpec => SettledOnce
<1>1. ASSUME TbInv, [TbNext]_tbVars, NEW r \in TbRequests, tbCharge[r] # Absent,
             tbResv[r] = Absent
      PROVE  tbCharge'[r] = tbCharge[r]
  <2>1. ASSUME NEW t \in Pending, t.clean, Wrote(t) PROVE tbCharge'[r] = tbCharge[r]
    <3>1. \A s \in TbRequests : s # t.r => tbCharge'[s] = tbCharge[s]
      BY <1>1, <2>1, WroteElsewhere
    <3>2. TxKnown(t) /\ t.kind \in {"reserve", "settle"}
      BY <1>1, <2>1, PendingType, TxFacts DEF TbInv, PendingKnown
    <3>3. r # t.r
      BY <1>1, <2>1, <3>2 DEF TxKnown, FreshReserve, FreshSettle
    <3> QED BY <3>1, <3>3
  <2>2. TbTick => tbCharge' = tbCharge
    BY DEF TbTick
  <2> QED BY <1>1, <2>1, <2>2, StepWrites
<1>2. TbInv /\ [TbNext]_tbVars =>
        [\A r \in TbRequests : (tbCharge[r] # Absent /\ tbResv[r] = Absent)
                               => tbCharge'[r] = tbCharge[r]]_tbVars
  BY <1>1
<1> QED BY <1>2, TbInvAlways, PTL DEF TbSpec, SettledOnce

-----------------------------------------------------------------------------
(* The window: the inductive invariant                                     *)

\* What a request, a settlement, a worker and a transaction carry.
Going == [pc : {"read", "draw", "commit", "admitted"}, key : Keys, est : Nat, at : Nat,
          id : Nat, raced : BOOLEAN]
Jobs == [id : Nat, key : Keys, actual : Nat \cup {Unknown}, at : Nat]
AtWork == [pc : {"read", "exec"}, job : Jobs, tries : Nat]
WinAdmits == [kind : {"admit"}, id : Nat, key : Keys, at : Nat, est : Nat, raced : BOOLEAN]
WinSettles == [kind : {"settle"}, id : Nat, key : Keys, at : Nat, raced : BOOLEAN, actual : Nat]

Held == [key : Keys, est : Nat, at : Nat, until : Nat \ {0}]
Paid == [key : Keys, at : Nat, est : Nat, amount : Nat, raced : BOOLEAN]
Ledgers == [Ids -> Paid \cup {Void}]
Reports == {"none", "applied", "noop", "abandoned"}

\* A request is under way with all its fields, or has none that matter.
ReqType(q) == q \in Going \/ q.pc \in {"idle", "denied", "over"}

ServerTypes ==
  /\ usage \in [Keys -> [Buckets -> [n : Int, until : Nat]]]
  /\ resv \in [Ids -> Held \cup {Void}] /\ charge \in Ledgers
ClientTypes ==
  /\ req = [r \in Requests |-> req[r]] /\ \A r \in Requests : ReqType(req[r])
  /\ wire \in SUBSET (WinAdmits \cup WinSettles)
WorkerTypes ==
  /\ outcome \in [Ids -> Reports] /\ queue \in [Gateways -> Seq(Jobs)]
  /\ worker \in [Gateways -> AtWork \cup {Idle}]

\* An id is drawn by a request at most once, so there are enough of them.
Drawn == {r \in Requests : req[r].pc \notin {"idle", "read", "draw"}}
SeqCounted == seq \in Nat /\ seq <= Cardinality(Drawn)

\* The clock has not passed its bound.
ClockSound == now \in Nat /\ now <= MaxTime

\* An id whose admission may still run, and a settlement of one that has.
NotYet(i) == i \in 1..seq /\ charge[i] = Void
Charging(j) == j.id \in 1..seq /\ charge[j.id] # Void /\ charge[j.id].key = j.key

OneReq(q) ==
  /\ q.pc \in {"read", "draw", "commit", "admitted"} => q.at <= now
  /\ q.pc = "commit" => NotYet(q.id)
  /\ q.pc = "admitted" => Charging(q)
ReqSound ==
  /\ \A r \in Requests : OneReq(req[r])
  /\ \A r \in Requests, s \in Requests :
       req[r].pc = "commit" /\ req[s].pc = "commit" /\ req[r].id = req[s].id => r = s

\* An admission that was given up on is the only one of its id.
OneWire(t) ==
  /\ t.kind = "admit" => NotYet(t.id) /\ t.at <= now
  /\ t.kind = "settle" => Charging(t)
WireSound ==
  /\ \A t \in wire : OneWire(t)
  /\ \A t \in wire, u \in wire :
       t.kind = "admit" /\ u.kind = "admit" /\ t.id = u.id => t = u
  /\ \A t \in wire, r \in Requests : t.kind = "admit" /\ req[r].pc = "commit" => t.id # req[r].id

JobsSound ==
  /\ \A g \in Gateways : \A n \in 1..Len(queue[g]) : Charging(queue[g][n])
  /\ \A g \in Gateways : worker[g] # Idle => Charging(worker[g].job)

\* A reservation that lives is charged at its estimate, and is in the index until
\* its deadline; a settlement that was reported has none.
OneCharge(i) ==
  /\ charge[i] # Void => i <= seq /\ charge[i].at <= now
  /\ outcome[i] \in {"applied", "noop"} => charge[i] # Void /\ resv[i] = Void
  /\ resv[i] # Void =>
       /\ charge[i] # Void /\ resv[i].key = charge[i].key /\ resv[i].at = charge[i].at
       /\ resv[i].est = charge[i].est /\ charge[i].amount = charge[i].est
       /\ charge[i].at + Timeout > now =>
            [id |-> i, deadline |-> charge[i].at + Timeout] \in active
ChargesSound == \A i \in Ids : OneCharge(i)

\* A counter that a decision may yet read is the sum of what was charged to it, and
\* outlives every charge in it.
Oldest == Bucket(IF now > Window THEN now - Window ELSE 0)
Payers(ch, k, b) == {i \in Ids : ch[i] # Void /\ ch[i].key = k /\ Bucket(ch[i].at) = b}
Bill(ch, k, b) == SumFunctionOnSet([i \in Payers(ch, k, b) |-> ch[i].amount], Payers(ch, k, b))
OneCounter(k, b) ==
  /\ usage[k][b].n = Bill(charge, k, b)
  /\ \A i \in Payers(charge, k, b) : charge[i].at + Ttl <= usage[k][b].until
CountersSound == \A k \in Keys, b \in Buckets : Oldest <= b => OneCounter(k, b)

WinInv ==
  /\ ServerTypes /\ ClientTypes /\ WorkerTypes /\ SeqCounted /\ ClockSound
  /\ ReqSound /\ WireSound /\ JobsSound /\ ChargesSound /\ CountersSound

-----------------------------------------------------------------------------
(* The window: numbers, ids, sums                                          *)

\* The constants are numbers.
LEMMA WinConstants ==
  /\ IsFiniteSet(Requests) /\ Cardinality(Requests) \in Nat /\ Estimates \subseteq Nat
  /\ Unknown \in Int /\ Unknown \notin Nat /\ Actuals \subseteq Nat \cup {Unknown}
  /\ Window \in Nat /\ MaxTime \in Nat /\ Width \in Nat /\ Width > 0 /\ Timeout \in Nat
  /\ Timeout > 0 /\ Ttl \in Nat /\ Ttl = Window + Timeout + Width
  /\ \A r \in Requests : Home[r] \in Gateways
<1>1. IsFiniteSet(Requests) /\ Cardinality(Requests) \in Nat
  BY ValkeyWindowAssumption, FS_CardinalityType
<1> QED BY <1>1, ValkeyWindowAssumption DEF Ttl

\* Later instants are in later sub-windows, and a width later in another.
LEMMA BucketFacts ==
  ASSUME NEW a \in Nat, NEW b \in Nat
  PROVE  /\ Bucket(a) \in Nat /\ Bucket(b) \in Nat
         /\ a <= b => Bucket(a) <= Bucket(b)
         /\ a + Width <= b => Bucket(a) < Bucket(b)
<1> DEFINE w == Width
           p == a \div w
           q == b \div w
<1>1. w \in Nat /\ w > 0
  BY WinConstants
<1>2. \A x \in Nat : \A y \in Nat \ {0} :
        x \div y \in Nat /\ x < (x \div y) * y + y /\ (x \div y) * y <= x
  OBVIOUS
<1>3. p \in Nat /\ q \in Nat /\ a < p * w + w /\ p * w <= a /\ b < q * w + w /\ q * w <= b
  BY <1>1, <1>2
<1>4. Bucket(a) = p /\ Bucket(b) = q
  BY DEF Bucket
<1> HIDE DEF w, p, q
<1>5. ASSUME NEW d \in Nat, q + d = p PROVE q * w + d * w = p * w /\ d * w \in Nat
  BY <1>1, <1>3, <1>5
<1>6. ASSUME a <= b PROVE p <= q
  <2>1. SUFFICES ASSUME ~(p <= q) PROVE FALSE
    OBVIOUS
  <2>2. PICK d \in Nat : q + (d + 1) = p
    <3>1. p - q - 1 \in Nat /\ q + ((p - q - 1) + 1) = p
      BY <1>3, <2>1
    <3> QED BY <3>1
  <2>3. p * w = q * w + d * w + w /\ d * w \in Nat /\ q * w \in Nat /\ p * w \in Nat
    BY <1>1, <1>3, <2>2
  <2> QED BY <1>1, <1>3, <1>6, <2>3
<1>7. ASSUME a + w <= b PROVE p < q
  <2>1. SUFFICES ASSUME ~(p < q) PROVE FALSE
    OBVIOUS
  <2>2. PICK d \in Nat : q + d = p
    <3>1. p - q \in Nat /\ q + (p - q) = p
      BY <1>3, <2>1
    <3> QED BY <3>1
  <2>3. p * w = q * w + d * w /\ d * w \in Nat /\ q * w \in Nat /\ p * w \in Nat
    BY <1>1, <1>3, <2>2
  <2> QED BY <1>1, <1>3, <1>7, <2>3
<1> QED BY <1>3, <1>4, <1>6, <1>7 DEF w

\* The sub-window of an instant that has been is one that is kept.
LEMMA BucketKept ==
  ASSUME ClockSound, NEW t \in Nat, t <= now
  PROVE  Bucket(t) \in Buckets
<1>1. t <= MaxTime /\ MaxTime \in Nat
  BY WinConstants DEF ClockSound
<1>2. Bucket(t) \in Nat /\ Bucket(MaxTime) \in Nat /\ Bucket(t) <= Bucket(MaxTime)
  BY <1>1, BucketFacts
<1> QED BY <1>2 DEF Buckets, Bucket

\* Absent keys, and what is there.
LEMMA NoneFacts ==
  /\ \A v \in Held : v # Void
  /\ \A c \in Paid : c # Void
<1>1. ASSUME NEW v \in Held PROVE v # Void
  <2>1. v.until # 0 /\ Void.until = 0
    BY DEF Held, Void
  <2> QED BY <2>1
<1>2. ASSUME NEW c \in Paid PROVE c # Void
  <2>1. "est" \in DOMAIN c /\ "est" \notin DOMAIN Void
    BY DEF Paid, Void
  <2> QED BY <2>1
<1> QED BY <1>1, <1>2

\* Ids drawn are ids.
LEMMA DrawnIds ==
  ASSUME SeqCounted
  PROVE  /\ seq \in Nat /\ seq <= Cardinality(Requests) /\ IsFiniteSet(Drawn)
         /\ Cardinality(Drawn) \in Nat
         /\ \A i \in 1..seq : i \in Ids
<1>1. Drawn \subseteq Requests
  BY DEF Drawn
<1>2. IsFiniteSet(Drawn) /\ Cardinality(Drawn) <= Cardinality(Requests)
      /\ Cardinality(Drawn) \in Nat
  BY <1>1, WinConstants, FS_Subset, FS_CardinalityType
<1>3. seq <= Cardinality(Requests)
  BY <1>2, WinConstants DEF SeqCounted
<1> QED BY <1>2, <1>3, WinConstants DEF SeqCounted, Ids

\* The payers of a counter are finitely many, and their bill is a number.
LEMMA BillFacts ==
  ASSUME NEW ch \in Ledgers, NEW k, NEW b
  PROVE  /\ IsFiniteSet(Payers(ch, k, b)) /\ Bill(ch, k, b) \in Nat
         /\ Payers(ch, k, b) = {} => Bill(ch, k, b) = 0
         /\ \A i \in Payers(ch, k, b) : i \in Ids /\ ch[i] \in Paid /\ ch[i].amount \in Nat
<1>1. PICK A : A = Payers(ch, k, b)
  OBVIOUS
<1>2. PICK f : f = [i \in A |-> ch[i].amount]
  OBVIOUS
<1>3. Bill(ch, k, b) = SumFunctionOnSet(f, A)
  BY <1>1, <1>2 DEF Bill
<1>4. A \subseteq Ids /\ IsFiniteSet(Ids)
  <2>1. A \subseteq Ids
    BY <1>1 DEF Payers
  <2>2. IsFiniteSet(1..Cardinality(Requests))
    BY WinConstants, FS_Interval
  <2> QED BY <2>1, <2>2 DEF Ids
<1>5. IsFiniteSet(A)
  BY <1>4, FS_Subset
<1>6. \A i \in A : i \in Ids /\ ch[i] \in Paid
  BY <1>1 DEF Payers, Ledgers
<1>7. \A i \in A : ch[i].amount \in Nat
  BY <1>6 DEF Paid
<1>8. \A i \in A : f[i] \in Nat
  BY <1>2, <1>7
<1>9. SumFunctionOnSet(f, A) \in Nat
  BY <1>5, <1>8, SumType
<1>10. A = {} => SumFunctionOnSet(f, A) = 0
  BY <1>5, <1>8, SumType
<1> QED BY <1>1, <1>3, <1>5, <1>6, <1>7, <1>9, <1>10

\* A charge elsewhere is not on this bill.
LEMMA BillElsewhere ==
  ASSUME NEW ch \in Ledgers, NEW i \in Ids, NEW c \in Paid, NEW k, NEW b,
         NEW e \in Ledgers, \A s \in Ids : e[s] = IF s = i THEN c ELSE ch[s],
         ~(c.key = k /\ Bucket(c.at) = b),
         ch[i] = Void \/ ~(ch[i].key = k /\ Bucket(ch[i].at) = b)
  PROVE  /\ Payers(e, k, b) = Payers(ch, k, b)
         /\ Bill(e, k, b) = Bill(ch, k, b)
         /\ \A j \in Payers(ch, k, b) : e[j] = ch[j]
<1>3. Payers(e, k, b) = Payers(ch, k, b)
  BY DEF Payers
<1>4. \A j \in Payers(ch, k, b) : e[j] = ch[j]
  BY DEF Payers
<1>5. [j \in Payers(e, k, b) |-> e[j].amount] = [j \in Payers(ch, k, b) |-> ch[j].amount]
  BY <1>3, <1>4
<1> QED BY <1>3, <1>4, <1>5 DEF Bill

\* One charge comes on top of the others on its bill.
LEMMA BillSplit ==
  ASSUME NEW ch \in Ledgers, NEW i \in Ids, NEW c \in Paid, NEW k, NEW b,
         NEW e \in Ledgers, \A s \in Ids : e[s] = IF s = i THEN c ELSE ch[s],
         c.key = k, Bucket(c.at) = b,
         ch[i] = Void \/ (ch[i].key = k /\ Bucket(ch[i].at) = b)
  PROVE  \E n \in Nat :
           /\ Bill(ch, k, b) = n + IF ch[i] = Void THEN 0 ELSE ch[i].amount
           /\ Bill(e, k, b) = n + c.amount
<1>2. e \in Ledgers /\ \A s \in Ids : e[s] = IF s = i THEN c ELSE ch[s]
  OBVIOUS
<1>3. PICK B : B = Payers(e, k, b)
  OBVIOUS
<1>4. PICK A : A = Payers(ch, k, b)
  OBVIOUS
<1>5. PICK f : f = [s \in B |-> e[s].amount]
  OBVIOUS
<1>6. PICK h : h = [s \in A |-> ch[s].amount]
  OBVIOUS
<1>7. /\ IsFiniteSet(B) /\ IsFiniteSet(A) /\ Bill(e, k, b) = SumFunctionOnSet(f, B)
      /\ Bill(ch, k, b) = SumFunctionOnSet(h, A)
      /\ \A s \in B : e[s].amount \in Nat
      /\ \A s \in A : ch[s].amount \in Nat
  BY <1>2, <1>3, <1>4, <1>5, <1>6, BillFacts DEF Bill
<1>8. (\A s \in B : f[s] = e[s].amount /\ f[s] \in Nat)
      /\ (\A s \in A : h[s] = ch[s].amount /\ h[s] \in Nat)
  BY <1>5, <1>6, <1>7
<1>9. i \in B /\ B \ {i} = A \ {i} /\ (ch[i] = Void => i \notin A) /\ (ch[i] # Void => i \in A)
  <2>1. c # Void
    BY NoneFacts
  <2> QED BY <1>2, <1>3, <1>4, <2>1 DEF Payers
<1>10. PICK D : D = A \ {i}
  OBVIOUS
<1>11. IsFiniteSet(D) /\ \A s \in D : s \in A /\ s \in B /\ s \in Ids /\ s # i
  <2>1. D \subseteq A
    BY <1>10
  <2> QED BY <1>4, <1>7, <1>9, <1>10, <2>1, FS_Subset DEF Payers
<1>12. \A s \in D : h[s] \in Nat /\ f[s] = h[s]
  BY <1>2, <1>8, <1>11
<1>13. SumFunctionOnSet(h, D) = SumFunctionOnSet(f, D) /\ SumFunctionOnSet(h, D) \in Nat
  BY <1>11, <1>12, SumEqual, SumType
<1>14. SumFunctionOnSet(f, B) = f[i] + SumFunctionOnSet(f, D)
  BY <1>7, <1>8, <1>9, <1>10, SumRemove
<1>15. PICK n \in Nat : n = SumFunctionOnSet(f, D)
  BY <1>13
<1>16. Bill(e, k, b) = n + c.amount
  <2>1. f[i] = c.amount /\ f[i] \in Nat
    BY <1>2, <1>8, <1>9
  <2> QED BY <1>7, <1>14, <1>15, <2>1
<1>17. Bill(ch, k, b) = n + IF ch[i] = Void THEN 0 ELSE ch[i].amount
  <2>1. CASE ch[i] = Void
    <3>1. D = A
      BY <1>9, <1>10, <2>1
    <3> QED BY <1>7, <1>13, <1>15, <2>1, <3>1
  <2>2. CASE ch[i] # Void
    <3>1. SumFunctionOnSet(h, A) = h[i] + SumFunctionOnSet(h, D)
      BY <1>7, <1>8, <1>9, <1>10, <2>2, SumRemove
    <3>2. h[i] = ch[i].amount /\ h[i] \in Nat
      BY <1>8, <1>9, <2>2
    <3> QED BY <1>7, <1>13, <1>15, <2>2, <3>1, <3>2
  <2> QED BY <2>1, <2>2
<1> QED BY <1>16, <1>17

-----------------------------------------------------------------------------
(* The window: steps that charge nothing                                   *)

\* The server's quota, the clock and what was charged stay; ids may be drawn, expired
\* entries of the index trimmed, and settlements without a reservation reported.
Quiet ==
  /\ UNCHANGED <<now, usage, resv, charge>>
  /\ seq' \in Nat /\ seq <= seq'
  /\ \A a \in active : a.deadline \in Nat /\ a.deadline > now => a \in active'
  /\ \A i \in Ids : outcome'[i] \in {"applied", "noop"} =>
       outcome[i] \in {"applied", "noop"} \/ (charge[i] # Void /\ resv[i] = Void)

\* A counter in the next state.
LEMMA CounterPrime ==
  \A k, b : OneCounter(k, b)' <=>
    /\ usage'[k][b].n = Bill(charge', k, b)
    /\ \A i \in Payers(charge', k, b) : charge'[i].at + Ttl <= usage'[k][b].until
  BY DEF OneCounter, Bill, Payers, Bucket, Ttl, Ids, Void

\* What holds of the server, and of ids, holds after a quiet step.
LEMMA QuietServer ==
  ASSUME WinInv, Quiet
  PROVE  /\ ServerTypes' /\ ClockSound' /\ ChargesSound' /\ CountersSound'
         /\ \A i : NotYet(i) => NotYet(i)'
         /\ \A j : Charging(j) => Charging(j)'
         /\ \A q : OneReq(q) => OneReq(q)'
         /\ \A t : OneWire(t) => OneWire(t)'
<1>1. /\ ServerTypes /\ ClockSound /\ ChargesSound /\ CountersSound /\ seq \in Nat
      /\ now' = now /\ usage' = usage /\ resv' = resv /\ charge' = charge
      /\ seq' \in Nat /\ seq <= seq'
  BY DEF WinInv, Quiet, SeqCounted
<1>2. ServerTypes' /\ ClockSound'
  BY <1>1 DEF ServerTypes, ClockSound, Ledgers
<1>3. \A i : i \in 1..seq => i \in 1..seq'
  BY <1>1
<1>4. \A i : NotYet(i) => NotYet(i)'
  BY <1>1, <1>3 DEF NotYet
<1>5. \A j : Charging(j) => Charging(j)'
  BY <1>1, <1>3 DEF Charging
<1>6. \A q : OneReq(q) => OneReq(q)'
  BY <1>1, <1>4, <1>5 DEF OneReq
<1>7. \A t : OneWire(t) => OneWire(t)'
  BY <1>1, <1>4, <1>5 DEF OneWire
<1>8. CountersSound'
  <2>1. Oldest' = Oldest
    BY <1>1 DEF Oldest, Bucket
  <2>2. \A k, b : OneCounter(k, b) => OneCounter(k, b)'
    BY <1>1, CounterPrime DEF OneCounter
  <2>3. Buckets' = Buckets
    BY DEF Buckets
  <2> QED BY <1>1, <2>1, <2>2, <2>3 DEF CountersSound
<1>9. ChargesSound'
  <2>1. ASSUME NEW i \in Ids PROVE OneCharge(i)'
    <3>1. OneCharge(i)
      BY <1>1 DEF ChargesSound
    <3>2. charge[i] # Void => i <= seq'
      <4>1. ASSUME charge[i] # Void PROVE i <= seq'
        <5>1. i <= seq /\ i \in Nat
          BY <3>1, <4>1, WinConstants DEF OneCharge, Ids
        <5> QED BY <1>1, <5>1
      <4> QED BY <4>1
    <3>3. outcome'[i] \in {"applied", "noop"} => charge[i] # Void /\ resv[i] = Void
      BY <3>1 DEF Quiet, OneCharge
    <3>4. ASSUME resv[i] # Void, charge[i].at + Timeout > now
          PROVE  [id |-> i, deadline |-> charge[i].at + Timeout] \in active'
      <4>1. PICK a : a = [id |-> i, deadline |-> charge[i].at + Timeout]
        OBVIOUS
      <4>2. a \in active /\ a.deadline > now
        BY <3>1, <3>4, <4>1 DEF OneCharge
      <4>3. charge[i] \in Paid
        BY <1>1, <3>1, <3>4 DEF OneCharge, ServerTypes, Ledgers
      <4>4. a.deadline \in Nat
        BY <4>1, <4>3, WinConstants DEF Paid
      <4> QED BY <4>1, <4>2, <4>4 DEF Quiet
    <3> QED BY <1>1, <3>1, <3>2, <3>3, <3>4 DEF OneCharge
  <2>2. Ids' = Ids
    BY DEF Ids
  <2> QED BY <2>1, <2>2 DEF ChargesSound
<1> QED BY <1>2, <1>4, <1>5, <1>6, <1>7, <1>8, <1>9

\* What a request moves to, and how ids are drawn.
ReqMoves(r, q) ==
  /\ req' = [req EXCEPT ![r] = q]
  /\ ReqType(q) /\ q.pc # "admitted"
  /\ q.pc \in {"read", "draw", "commit"} => q.at <= now
  /\ q.pc = "commit" => q.id = seq + 1 /\ seq' = seq + 1
  /\ \/ seq' = seq /\ (r \in Drawn => q.pc \notin {"idle", "read", "draw"})
     \/ seq' = seq + 1 /\ r \notin Drawn /\ q.pc \notin {"idle", "read", "draw"}
  /\ \/ wire' = wire
     \/ req[r].pc = "commit" /\ q.pc = "over" /\ wire' = wire \cup {AdmitTx(r)}

\* More requests have drawn an id, if one was drawn.
LEMMA DrawnGrows ==
  ASSUME SeqCounted, NEW r \in Requests, NEW q, ReqMoves(r, q), req = [s \in Requests |-> req[s]]
  PROVE  SeqCounted'
<1>1. \A s \in Requests : req'[s] = IF s = r THEN q ELSE req[s]
  BY DEF ReqMoves
<1>2. Drawn' \subseteq Requests /\ IsFiniteSet(Drawn') /\ Cardinality(Drawn') \in Nat
  <2>1. Drawn' \subseteq Requests
    BY DEF Drawn
  <2> QED BY <2>1, WinConstants, FS_Subset, FS_CardinalityType
<1>3. Cardinality(Drawn) \in Nat /\ IsFiniteSet(Drawn) /\ seq \in Nat /\ seq <= Cardinality(Drawn)
  BY DrawnIds DEF SeqCounted
<1>4. CASE seq' = seq /\ (r \in Drawn => q.pc \notin {"idle", "read", "draw"})
  <2>1. Drawn \subseteq Drawn'
    BY <1>1, <1>4 DEF Drawn
  <2>2. Cardinality(Drawn) <= Cardinality(Drawn')
    BY <1>2, <2>1, FS_Subset
  <2> QED BY <1>2, <1>3, <1>4, <2>2 DEF SeqCounted
<1>5. CASE seq' = seq + 1 /\ r \notin Drawn /\ q.pc \notin {"idle", "read", "draw"}
  <2>1. Drawn' = Drawn \cup {r}
    BY <1>1, <1>5 DEF Drawn
  <2>2. Cardinality(Drawn') = Cardinality(Drawn) + 1
    BY <1>3, <1>5, <2>1, FS_AddElement
  <2> QED BY <1>2, <1>3, <1>5, <2>2 DEF SeqCounted
<1> QED BY <1>4, <1>5 DEF ReqMoves

\* A request that moves keeps what is known of requests and of the wire.
LEMMA ReqMoveSound ==
  ASSUME WinInv, Quiet, NEW r \in Requests, NEW q, ReqMoves(r, q)
  PROVE  ClientTypes' /\ SeqCounted' /\ ReqSound' /\ WireSound'
<1>1. ClientTypes /\ SeqCounted /\ ReqSound /\ WireSound /\ ChargesSound /\ ServerTypes
  BY DEF WinInv
<1>2. /\ req' = [req EXCEPT ![r] = q] /\ req = [s \in Requests |-> req[s]]
      /\ \A s \in Requests : req'[s] = IF s = r THEN q ELSE req[s]
  BY <1>1 DEF ReqMoves, ClientTypes
<1>3. SeqCounted'
  BY <1>1, <1>2, DrawnGrows
<1>4. seq \in Nat /\ seq' \in Nat /\ seq <= seq' /\ now' = now /\ charge' = charge
  BY <1>1 DEF SeqCounted, Quiet
<1>5. PICK t : t = AdmitTx(r)
  OBVIOUS
<1>6. ASSUME req[r].pc = "commit"
      PROVE  t \in WinAdmits /\ t.kind = "admit" /\ t.id = req[r].id /\ OneWire(t)
  <2>1. req[r] \in Going /\ OneReq(req[r])
    BY <1>1, <1>6 DEF ClientTypes, ReqType, ReqSound
  <2>2. /\ t.kind = "admit" /\ t.id = req[r].id /\ t.at = req[r].at /\ t \in WinAdmits
    BY <1>5, <2>1 DEF AdmitTx, WinAdmits, Going
  <2> QED BY <1>6, <2>1, <2>2 DEF OneWire, OneReq
<1>7. ClientTypes'
  <2>1. req' = [s \in Requests |-> req'[s]]
    BY <1>2
  <2>2. \A s \in Requests : ReqType(req'[s])
    BY <1>1, <1>2 DEF ReqMoves, ClientTypes
  <2>3. wire' \in SUBSET (WinAdmits \cup WinSettles)
    BY <1>1, <1>5, <1>6 DEF ReqMoves, ClientTypes
  <2>4. \A s \in Requests : ReqType(req[s])'
    BY <2>2 DEF ReqType, Going
  <2> QED BY <2>1, <2>3, <2>4 DEF ClientTypes, WinAdmits, WinSettles
<1>8. ASSUME q.pc = "commit"
      PROVE  /\ q.id = seq + 1 /\ q.id = seq' /\ charge[q.id] = Void
             /\ wire' = wire
             /\ \A s \in Requests : s # r /\ req[s].pc = "commit" => req[s].id <= seq
             /\ \A u \in wire : u.kind = "admit" => u.id <= seq
  <2>1. q.id = seq + 1 /\ q.id = seq' /\ wire' = wire
    BY <1>8 DEF ReqMoves
  <2>2. seq' \in Ids
    <3>1. seq' \in 1..seq'
      BY <1>4, <2>1
    <3>2. seq' <= Cardinality(Requests)
      <4>1. Drawn' \subseteq Requests
        BY DEF Drawn
      <4>2. Cardinality(Drawn') <= Cardinality(Requests) /\ Cardinality(Drawn') \in Nat
        BY <4>1, WinConstants, FS_Subset, FS_CardinalityType
      <4> QED BY <1>3, <1>4, <4>2, WinConstants DEF SeqCounted
    <3> QED BY <1>4, <2>1, <3>2, WinConstants DEF Ids
  <2>3. charge[q.id] = Void
    <3>1. OneCharge(seq')
      BY <1>1, <2>2 DEF ChargesSound
    <3>2. ~(seq' <= seq)
      BY <1>4, <2>1
    <3> QED BY <2>1, <3>1, <3>2 DEF OneCharge
  <2>4. \A s \in Requests : s # r /\ req[s].pc = "commit" => req[s].id <= seq
    BY <1>1, <1>4 DEF ReqSound, OneReq, NotYet
  <2>5. \A u \in wire : u.kind = "admit" => u.id <= seq
    BY <1>1, <1>4 DEF WireSound, OneWire, NotYet
  <2> QED BY <2>1, <2>3, <2>4, <2>5
<1>9. OneReq(q)'
  <2>1. q.pc = "commit" => NotYet(q.id)'
    <3>1. ASSUME q.pc = "commit" PROVE NotYet(q.id)'
      <4>1. charge'[q.id] = Void /\ q.id \in 1..seq'
        BY <1>4, <1>8, <3>1
      <4> QED BY <4>1 DEF NotYet
    <3> QED BY <3>1
  <2>2. q.pc # "admitted" /\ (q.pc \in {"read", "draw", "commit"} => q.at <= now')
    BY <1>4 DEF ReqMoves
  <2> QED BY <2>1, <2>2 DEF OneReq
<1>10. ASSUME NEW s \in Requests PROVE OneReq(req[s])'
  <2>1. PICK p : p = req'[s]
    OBVIOUS
  <2>2. OneReq(p)'
    <3>1. CASE s = r
      BY <1>2, <1>9, <2>1, <3>1
    <3>2. CASE s # r
      <4>1. p = req[s] /\ OneReq(p)
        BY <1>1, <1>2, <2>1, <3>2 DEF ReqSound
      <4> QED BY <4>1, QuietServer
    <3> QED BY <3>1, <3>2
  <2> QED BY <2>1, <2>2 DEF OneReq, NotYet, Charging
<1>11. ReqSound'
  <2>1. ASSUME NEW u \in Requests, NEW s \in Requests, req'[u].pc = "commit",
               req'[s].pc = "commit", req'[u].id = req'[s].id
        PROVE  u = s
    <3>1. CASE u = r /\ s # r
      <4>1. q.pc = "commit" /\ req[s].pc = "commit" /\ req[s].id = seq + 1
        BY <1>2, <1>8, <2>1, <3>1
      <4> QED BY <1>4, <1>8, <3>1, <4>1
    <3>2. CASE u # r /\ s = r
      <4>1. q.pc = "commit" /\ req[u].pc = "commit" /\ req[u].id = seq + 1
        BY <1>2, <1>8, <2>1, <3>2
      <4> QED BY <1>4, <1>8, <3>2, <4>1
    <3>3. CASE u # r /\ s # r
      BY <1>1, <1>2, <2>1, <3>3 DEF ReqSound
    <3> QED BY <3>1, <3>2, <3>3
  <2> QED BY <1>10, <2>1 DEF ReqSound
<1>12. WireSound'
  <2>1. \A u \in wire : OneWire(u)'
    BY <1>1, QuietServer DEF WireSound
  <2>2. ASSUME NEW u \in wire, NEW s \in Requests, u.kind = "admit", req'[s].pc = "commit"
        PROVE  u.id # req'[s].id
    <3>1. CASE s = r
      <4>1. req'[s].id = seq + 1 /\ u.id <= seq
        BY <1>2, <1>8, <2>2, <3>1
      <4> QED BY <1>4, <4>1
    <3>2. CASE s # r
      BY <1>1, <1>2, <2>2, <3>2 DEF WireSound
    <3> QED BY <3>1, <3>2
  <2>3. CASE wire' = wire
    BY <1>1, <2>1, <2>2, <2>3 DEF WireSound
  <2>4. CASE req[r].pc = "commit" /\ q.pc = "over" /\ wire' = wire \cup {t}
    <3>1. t.kind = "admit" /\ t.id = req[r].id /\ OneWire(t)
      BY <1>6, <2>4
    <3>2. OneWire(t)'
      BY <3>1, QuietServer
    <3>3. \A u \in wire' : OneWire(u)'
      BY <2>1, <2>4, <3>2
    <3>4. \A u \in wire : u.kind = "admit" => u.id # t.id
      BY <1>1, <2>4, <3>1 DEF WireSound
    <3>5. \A u \in wire', v \in wire' : u.kind = "admit" /\ v.kind = "admit" /\ u.id = v.id => u = v
      BY <1>1, <2>4, <3>4 DEF WireSound
    <3>6. \A s \in Requests : req'[s].pc = "commit" => t.id # req'[s].id
      <4>1. ASSUME NEW s \in Requests, req'[s].pc = "commit" PROVE t.id # req'[s].id
        <5>1. s # r /\ req'[s] = req[s]
          BY <1>2, <2>4, <4>1
        <5> QED BY <1>1, <2>4, <3>1, <4>1, <5>1 DEF ReqSound
      <4> QED BY <4>1
    <3> QED BY <2>2, <2>4, <3>3, <3>5, <3>6 DEF WireSound
  <2> QED BY <1>5, <2>3, <2>4 DEF ReqMoves
<1> QED BY <1>3, <1>7, <1>11, <1>12

\* Workers that have not moved.
LEMMA QuietJobs ==
  ASSUME WinInv, Quiet, UNCHANGED <<queue, worker, outcome>>
  PROVE  WorkerTypes' /\ JobsSound'
<1>1. WorkerTypes /\ JobsSound
  BY DEF WinInv
<1>2. WorkerTypes'
  BY <1>1 DEF WorkerTypes
<1>3. \A j : Charging(j) => Charging(j)'
  BY QuietServer
<1>4. ASSUME NEW g \in Gateways, NEW n \in 1..Len(queue'[g]) PROVE Charging(queue[g][n])'
  <2>1. PICK j : j = queue'[g][n]
    OBVIOUS
  <2>2. Charging(j)
    BY <1>1, <1>4, <2>1 DEF JobsSound
  <2>3. Charging(j)'
    BY <1>3, <2>2
  <2> QED BY <2>1, <2>3 DEF Charging
<1>5. ASSUME NEW g \in Gateways, worker'[g] # Idle PROVE Charging(worker[g].job)'
  <2>1. PICK j : j = worker'[g].job
    OBVIOUS
  <2>2. Charging(j)
    BY <1>1, <1>5, <2>1 DEF JobsSound
  <2>3. Charging(j)'
    BY <1>3, <2>2
  <2> QED BY <2>1, <2>3 DEF Charging
<1>6. JobsSound'
  BY <1>4, <1>5 DEF JobsSound
<1> QED BY <1>2, <1>6

\* A step of a request that charges nothing keeps the invariant.
LEMMA ReqMoveInv ==
  ASSUME WinInv, Quiet, NEW r \in Requests, NEW q, ReqMoves(r, q),
         UNCHANGED <<queue, worker, outcome>>
  PROVE  WinInv'
  BY QuietServer, ReqMoveSound, QuietJobs DEF WinInv

\* A request reads the clock.
LEMMA WinBegin ==
  ASSUME WinInv, NEW r \in Requests, Begin(r)
  PROVE  WinInv'
<1>1. ClientTypes /\ SeqCounted /\ ClockSound
  BY DEF WinInv
<1>2. PICK k \in Keys, e \in Estimates :
        req' = [req EXCEPT ![r] = [pc |-> "read", key |-> k, est |-> e, at |-> now,
                                   id |-> 0, raced |-> FALSE]]
  BY DEF Begin
<1>3. PICK q : q = [pc |-> "read", key |-> k, est |-> e, at |-> now, id |-> 0, raced |-> FALSE]
  OBVIOUS
<1>4. q \in Going /\ q.pc = "read" /\ q.at = now
  BY <1>1, <1>3, WinConstants DEF Going, ClockSound
<1>5. /\ req[r].pc = "idle" /\ now' = now /\ usage' = usage /\ resv' = resv /\ charge' = charge
      /\ active' = active /\ seq' = seq /\ wire' = wire
      /\ queue' = queue /\ worker' = worker /\ outcome' = outcome
  BY DEF Begin, server
<1>6. Quiet
  BY <1>1, <1>5 DEF Quiet, SeqCounted
<1>7. r \notin Drawn
  BY <1>5 DEF Drawn
<1>8. ReqMoves(r, q)
  BY <1>1, <1>2, <1>3, <1>4, <1>5, <1>7 DEF ReqMoves, ReqType, ClockSound
<1> QED BY <1>5, <1>6, <1>8, ReqMoveInv

\* Trimming the index up to a time that has been loses no entry that still counts.
LEMMA TrimQuiet ==
  ASSUME WinInv, NEW t \in Nat, t <= now, Trim(t), UNCHANGED <<now, usage, resv, charge, outcome>>,
         seq' \in Nat, seq <= seq'
  PROVE  Quiet
<1>1. now \in Nat
  BY DEF WinInv, ClockSound
<1>2. \A a \in active : a.deadline \in Nat /\ a.deadline > now => a \in active'
  BY <1>1 DEF Trim, Kept
<1> QED BY <1>2 DEF Quiet

\* A request reads the window and decides.
LEMMA WinRead ==
  ASSUME WinInv, NEW r \in Requests, ReadWindow(r)
  PROVE  WinInv'
<1>1. ClientTypes /\ SeqCounted /\ ReqSound
  BY DEF WinInv
<1>2. PICK p : p = req[r]
  OBVIOUS
<1>3. p \in Going /\ p.pc = "read" /\ p.at <= now /\ p.at \in Nat
  BY <1>1, <1>2 DEF ReadWindow, ClientTypes, ReqType, ReqSound, OneReq, Going
<1>4. PICK c, h, v : req' = [req EXCEPT ![r] =
             IF v = "admit" THEN [p EXCEPT !.pc = "draw"]
             ELSE IF v = "WindowCapacity"
             THEN [pc |-> "denied", est |-> p.est, at |-> p.at, counters |-> c, hint |-> h]
             ELSE Over]
  BY <1>2 DEF ReadWindow
<1>5. PICK q : q = IF v = "admit" THEN [p EXCEPT !.pc = "draw"]
             ELSE IF v = "WindowCapacity"
             THEN [pc |-> "denied", est |-> p.est, at |-> p.at, counters |-> c, hint |-> h]
             ELSE Over
  OBVIOUS
<1>6. /\ now' = now /\ usage' = usage /\ resv' = resv /\ charge' = charge
      /\ seq' = seq /\ wire' = wire /\ queue' = queue /\ worker' = worker
      /\ outcome' = outcome /\ Trim(p.at)
  BY <1>2 DEF ReadWindow
<1>7. Quiet
  BY <1>1, <1>3, <1>6, TrimQuiet DEF SeqCounted
<1>8. ReqType(q) /\ q.pc \in {"draw", "denied", "over"} /\ (q.pc = "draw" => q.at <= now)
  <2>1. CASE v = "admit"
    <3>1. q \in Going /\ q.pc = "draw" /\ q.at = p.at
      BY <1>3, <1>5, <2>1 DEF Going
    <3> QED BY <1>3, <3>1 DEF ReqType
  <2>2. CASE v # "admit"
    <3>1. q.pc \in {"denied", "over"}
      BY <1>5, <2>2 DEF Over
    <3> QED BY <3>1 DEF ReqType
  <2> QED BY <2>1, <2>2
<1>9. r \notin Drawn
  BY <1>2, <1>3 DEF Drawn
<1>10. ReqMoves(r, q)
  BY <1>4, <1>5, <1>6, <1>8, <1>9 DEF ReqMoves
<1> QED BY <1>6, <1>7, <1>10, ReqMoveInv

\* A request draws its id.
LEMMA WinDraw ==
  ASSUME WinInv, NEW r \in Requests, DrawId(r)
  PROVE  WinInv'
<1>1. ClientTypes /\ SeqCounted /\ ReqSound /\ seq \in Nat
  BY DEF WinInv, SeqCounted
<1>2. PICK p : p = req[r]
  OBVIOUS
<1>3. p \in Going /\ p.pc = "draw" /\ p.at <= now
  BY <1>1, <1>2 DEF DrawId, ClientTypes, ReqType, ReqSound, OneReq
<1>4. PICK q : q = [p EXCEPT !.pc = "commit", !.id = seq + 1]
  OBVIOUS
<1>5. q \in Going /\ q.pc = "commit" /\ q.id = seq + 1 /\ q.at = p.at
  <2>1. PICK o : o = [p EXCEPT !.pc = "commit"]
    OBVIOUS
  <2>2. o \in Going /\ o.pc = "commit" /\ o.at = p.at
    BY <1>3, <2>1 DEF Going
  <2>3. q = [o EXCEPT !.id = seq + 1] /\ seq + 1 \in Nat
    BY <1>1, <1>4, <2>1
  <2> QED BY <2>2, <2>3 DEF Going
<1>6. /\ req' = [req EXCEPT ![r] = q] /\ now' = now /\ usage' = usage /\ resv' = resv
      /\ charge' = charge /\ active' = active /\ seq' = seq + 1 /\ wire' = wire
      /\ queue' = queue /\ worker' = worker /\ outcome' = outcome
  <2>1. req' = [req EXCEPT ![r].pc = "commit", ![r].id = seq + 1]
    BY DEF DrawId
  <2>2. req = [s \in Requests |-> req[s]]
    BY <1>1 DEF ClientTypes
  <2>3. req' = [req EXCEPT ![r] = q]
    BY <1>2, <1>4, <2>1, <2>2
  <2> QED BY <2>3 DEF DrawId, server
<1>7. Quiet
  BY <1>1, <1>6 DEF Quiet
<1>8. r \notin Drawn
  BY <1>2, <1>3 DEF Drawn
<1>9. ReqMoves(r, q)
  BY <1>3, <1>5, <1>6, <1>8 DEF ReqMoves, ReqType
<1> QED BY <1>6, <1>7, <1>9, ReqMoveInv

\* A pipeline of a request fails.
LEMMA WinFails ==
  ASSUME WinInv, NEW r \in Requests, RequestFails(r)
  PROVE  WinInv'
<1>1. ClientTypes /\ SeqCounted /\ ReqSound /\ seq \in Nat
  BY DEF WinInv, SeqCounted
<1>2. /\ req[r] \in Going /\ req[r].pc \in {"read", "draw", "commit"} /\ req[r].at <= now
      /\ req[r].at \in Nat
  BY <1>1 DEF RequestFails, ClientTypes, ReqType, ReqSound, OneReq, Going
<1>3. Over.pc = "over" /\ ReqType(Over)
  BY DEF Over, ReqType
<1>4. /\ req' = [req EXCEPT ![r] = Over] /\ now' = now /\ usage' = usage /\ resv' = resv
      /\ charge' = charge /\ queue' = queue /\ worker' = worker /\ outcome' = outcome
  BY DEF RequestFails
<1>5. r \in Drawn <=> req[r].pc = "commit"
  BY <1>2 DEF Drawn
<1>6. CASE active' = active /\ seq' = seq /\ wire' = wire
  <2>1. Quiet
    BY <1>1, <1>4, <1>6 DEF Quiet
  <2>2. ReqMoves(r, Over)
    BY <1>3, <1>4, <1>6 DEF ReqMoves
  <2> QED BY <1>4, <2>1, <2>2, ReqMoveInv
<1>7. CASE req[r].pc = "read" /\ Trim(req[r].at) /\ seq' = seq /\ wire' = wire
  <2>1. Quiet
    BY <1>1, <1>2, <1>4, <1>7, TrimQuiet
  <2>2. ReqMoves(r, Over)
    BY <1>3, <1>4, <1>7 DEF ReqMoves
  <2> QED BY <1>4, <2>1, <2>2, ReqMoveInv
<1>8. CASE req[r].pc = "draw" /\ seq' = seq + 1 /\ active' = active /\ wire' = wire
  <2>1. Quiet
    BY <1>1, <1>4, <1>8 DEF Quiet
  <2>2. ReqMoves(r, Over)
    BY <1>3, <1>4, <1>5, <1>8 DEF ReqMoves
  <2> QED BY <1>4, <2>1, <2>2, ReqMoveInv
<1>9. CASE req[r].pc = "commit" /\ wire' = wire \cup {AdmitTx(r)} /\ active' = active /\ seq' = seq
  <2>1. Quiet
    BY <1>1, <1>4, <1>9 DEF Quiet
  <2>2. ReqMoves(r, Over)
    BY <1>3, <1>4, <1>9 DEF ReqMoves
  <2> QED BY <1>4, <2>1, <2>2, ReqMoveInv
<1> QED BY <1>6, <1>7, <1>8, <1>9 DEF RequestFails

\* A response ends: its settlement is queued or dropped.
LEMMA WinFinish ==
  ASSUME WinInv, NEW r \in Requests, Finish(r)
  PROVE  WinInv'
<1>1. ClientTypes /\ SeqCounted /\ ReqSound /\ WorkerTypes /\ JobsSound /\ ClockSound /\ seq \in Nat
  BY DEF WinInv, SeqCounted
<1>2. PICK g \in Gateways : g = Home[r]
  BY WinConstants
<1>3. req[r] \in Going /\ req[r].pc = "admitted" /\ Charging(req[r])
  BY <1>1 DEF Finish, ClientTypes, ReqType, ReqSound, OneReq
<1>4. PICK a \in Actuals :
        queue' = IF Full(g) THEN queue ELSE
           [queue EXCEPT ![g] = Append(@, [id |-> req[r].id, key |-> req[r].key,
                                           actual |-> a, at |-> now])]
  BY <1>2 DEF Finish
<1>5. PICK j : j = [id |-> req[r].id, key |-> req[r].key, actual |-> a, at |-> now]
  OBVIOUS
<1>6. /\ req' = [req EXCEPT ![r] = Over] /\ now' = now /\ usage' = usage /\ resv' = resv
      /\ charge' = charge /\ active' = active /\ seq' = seq /\ wire' = wire
      /\ worker' = worker /\ outcome' = outcome
  BY DEF Finish, server
<1>7. Quiet
  BY <1>1, <1>6 DEF Quiet
<1>8. ReqMoves(r, Over)
  <2>1. Over.pc = "over" /\ ReqType(Over)
    BY DEF Over, ReqType
  <2> QED BY <1>6, <2>1 DEF ReqMoves
<1>9. j \in Jobs /\ Charging(j)
  <2>1. j \in Jobs /\ j.id = req[r].id /\ j.key = req[r].key
    BY <1>1, <1>3, <1>5, WinConstants DEF Jobs, Going, ClockSound
  <2> QED BY <1>3, <2>1 DEF Charging
<1>10. ASSUME NEW h \in Gateways
       PROVE  /\ queue'[h] \in Seq(Jobs)
              /\ \A n \in 1..Len(queue'[h]) : Charging(queue'[h][n])
  <2>1. PICK s : s = queue[h]
    OBVIOUS
  <2>2. s \in Seq(Jobs) /\ \A n \in 1..Len(s) : Charging(s[n])
    BY <1>1, <2>1 DEF WorkerTypes, JobsSound
  <2>3. CASE queue'[h] = s
    BY <2>2, <2>3
  <2>4. CASE queue'[h] = Append(s, j)
    <3>1. /\ Append(s, j) \in Seq(Jobs) /\ Len(Append(s, j)) = Len(s) + 1 /\ Len(s) \in Nat
          /\ \A n \in 1..(Len(s) + 1) : Append(s, j)[n] = IF n = Len(s) + 1 THEN j ELSE s[n]
      BY <1>9, <2>2
    <3>2. \A n \in 1..(Len(s) + 1) : n # Len(s) + 1 => n \in 1..Len(s)
      BY <3>1
    <3> QED BY <1>9, <2>2, <2>4, <3>1, <3>2
  <2>5. queue'[h] = s \/ queue'[h] = Append(s, j)
    BY <1>1, <1>2, <1>4, <1>5, <2>1 DEF WorkerTypes
  <2> QED BY <2>3, <2>4, <2>5
<1>11. WorkerTypes'
  <2>1. queue' = [h \in Gateways |-> queue'[h]]
    BY <1>1, <1>4 DEF WorkerTypes
  <2>2. queue' \in [Gateways -> Seq(Jobs)]
    BY <1>10, <2>1
  <2> QED BY <1>1, <1>6, <2>2 DEF WorkerTypes
<1>12. \A i : Charging(i) => Charging(i)'
  BY <1>7, QuietServer
<1>13. JobsSound'
  <2>1. ASSUME NEW h \in Gateways, NEW n \in 1..Len(queue'[h]) PROVE Charging(queue[h][n])'
    <3>1. PICK i : i = queue'[h][n]
      OBVIOUS
    <3>2. Charging(i)'
      BY <1>10, <1>12, <2>1, <3>1
    <3> QED BY <3>1, <3>2 DEF Charging
  <2>2. ASSUME NEW h \in Gateways, worker'[h] # Idle PROVE Charging(worker[h].job)'
    <3>1. PICK i : i = worker'[h].job
      OBVIOUS
    <3>2. Charging(i)'
      BY <1>1, <1>6, <1>12, <2>2, <3>1 DEF JobsSound
    <3> QED BY <3>1, <3>2 DEF Charging
  <2> QED BY <2>1, <2>2 DEF JobsSound
<1> QED BY <1>7, <1>8, <1>11, <1>13, QuietServer, ReqMoveSound DEF WinInv

\* What workers and their queues may hold next.
JobsNext ==
  /\ queue' \in [Gateways -> Seq(Jobs)] /\ worker' \in [Gateways -> AtWork \cup {Idle}]
  /\ \A h \in Gateways : \A n \in 1..Len(queue'[h]) : Charging(queue'[h][n])
  /\ \A h \in Gateways : worker'[h] # Idle => Charging(worker'[h].job)

\* A step of a worker that charges nothing keeps the invariant.
LEMMA WorkerInv ==
  ASSUME WinInv, Quiet, JobsNext, UNCHANGED <<req, seq>>, outcome' \in [Ids -> Reports],
         wire' = wire \/ \E t \in WinSettles : OneWire(t) /\ wire' = wire \cup {t}
  PROVE  WinInv'
<1>1. ClientTypes /\ SeqCounted /\ ReqSound /\ WireSound
  BY DEF WinInv
<1>2. /\ \A j : Charging(j) => Charging(j)'
      /\ \A q : OneReq(q) => OneReq(q)'
      /\ \A t : OneWire(t) => OneWire(t)'
  BY QuietServer
<1>3. WorkerTypes'
  BY DEF WorkerTypes, JobsNext
<1>4. JobsSound'
  <2>1. ASSUME NEW h \in Gateways, NEW n \in 1..Len(queue'[h]) PROVE Charging(queue[h][n])'
    <3>1. PICK i : i = queue'[h][n]
      OBVIOUS
    <3>2. Charging(i)'
      BY <1>2, <2>1, <3>1 DEF JobsNext
    <3> QED BY <3>1, <3>2 DEF Charging
  <2>2. ASSUME NEW h \in Gateways, worker'[h] # Idle PROVE Charging(worker[h].job)'
    <3>1. PICK i : i = worker'[h].job
      OBVIOUS
    <3>2. Charging(i)'
      BY <1>2, <2>2, <3>1 DEF JobsNext
    <3> QED BY <3>1, <3>2 DEF Charging
  <2> QED BY <2>1, <2>2 DEF JobsSound
<1>5. SeqCounted'
  BY <1>1 DEF SeqCounted, Drawn
<1>6. ReqSound'
  <2>1. ASSUME NEW s \in Requests PROVE OneReq(req[s])'
    <3>1. PICK p : p = req[s]
      OBVIOUS
    <3>2. OneReq(p)'
      BY <1>1, <1>2, <3>1 DEF ReqSound
    <3> QED BY <3>1, <3>2 DEF OneReq, NotYet, Charging
  <2> QED BY <1>1, <2>1 DEF ReqSound
<1>7. \A t \in wire : OneWire(t)'
  BY <1>1, <1>2 DEF WireSound
<1>8. CASE wire' = wire
  <2>1. ClientTypes'
    BY <1>1, <1>8 DEF ClientTypes, ReqType, Going, WinAdmits, WinSettles
  <2>2. WireSound'
    BY <1>1, <1>7, <1>8 DEF WireSound
  <2> QED BY <1>3, <1>4, <1>5, <1>6, <2>1, <2>2, QuietServer DEF WinInv
<1>9. ASSUME NEW t \in WinSettles, OneWire(t), wire' = wire \cup {t} PROVE WinInv'
  <2>1. wire' \in SUBSET (WinAdmits \cup WinSettles) /\ t.kind = "settle"
    BY <1>1, <1>9 DEF ClientTypes, WinSettles
  <2>2. ClientTypes'
    BY <1>1, <2>1 DEF ClientTypes, ReqType, Going, WinAdmits, WinSettles
  <2>3. \A u \in wire' : OneWire(u)'
    BY <1>2, <1>7, <1>9
  <2>4. \A u \in wire' : u.kind = "admit" => u \in wire
    BY <1>9, <2>1
  <2>5. WireSound'
    BY <1>1, <2>3, <2>4 DEF WireSound
  <2> QED BY <1>3, <1>4, <1>5, <1>6, <2>2, <2>5, QuietServer DEF WinInv
<1> QED BY <1>8, <1>9

\* The worker of one gateway moves.
LEMMA OneWorker ==
  ASSUME WinInv, NEW g \in Gateways, NEW w \in AtWork \cup {Idle},
         w # Idle => Charging(w.job), worker' = [worker EXCEPT ![g] = w], queue' = queue
  PROVE  JobsNext
<1>1. WorkerTypes /\ JobsSound
  BY DEF WinInv
<1>2. worker' \in [Gateways -> AtWork \cup {Idle}]
      /\ \A h \in Gateways : worker'[h] = IF h = g THEN w ELSE worker[h]
  BY <1>1 DEF WorkerTypes
<1>3. \A h \in Gateways : worker'[h] # Idle => Charging(worker'[h].job)
  BY <1>1, <1>2 DEF JobsSound
<1> QED BY <1>1, <1>2, <1>3 DEF JobsNext, WorkerTypes, JobsSound

\* A worker that is at a settlement.
LEMMA AtWorkFacts ==
  ASSUME WinInv, NEW g \in Gateways, worker[g].pc \in {"read", "exec"}
  PROVE  /\ worker[g] \in AtWork /\ worker[g].job \in Jobs /\ worker[g].tries \in Nat
         /\ Charging(worker[g].job) /\ worker[g].job.id \in Ids
         /\ charge[worker[g].job.id] \in Paid
<1>1. WorkerTypes /\ JobsSound /\ SeqCounted /\ ServerTypes
  BY DEF WinInv
<1>2. worker[g] # Idle
  BY DEF Idle
<1>3. worker[g] \in AtWork /\ Charging(worker[g].job)
  BY <1>1, <1>2 DEF WorkerTypes, JobsSound
<1>4. worker[g].job.id \in Ids
  BY <1>1, <1>3, DrawnIds DEF Charging
<1> QED BY <1>1, <1>3, <1>4 DEF AtWork, Charging, ServerTypes, Ledgers

\* A worker takes a settlement from its queue.
LEMMA WinTake ==
  ASSUME WinInv, NEW g \in Gateways, WorkerTake(g)
  PROVE  WinInv'
<1>1. WorkerTypes /\ JobsSound /\ SeqCounted
  BY DEF WinInv
<1>2. PICK s : s = queue[g]
  OBVIOUS
<1>3. s \in Seq(Jobs) /\ s # <<>> /\ \A n \in 1..Len(s) : Charging(s[n])
  BY <1>1, <1>2 DEF WorkerTake, WorkerTypes, JobsSound
<1>4. PICK w : w = [pc |-> "read", job |-> Head(s), tries |-> 0]
  OBVIOUS
<1>5. /\ Head(s) \in Jobs /\ Head(s) = s[1] /\ 1 \in 1..Len(s) /\ Tail(s) \in Seq(Jobs)
      /\ Len(Tail(s)) = Len(s) - 1 /\ Len(s) \in Nat
      /\ \A n \in 1..Len(Tail(s)) : Tail(s)[n] = s[n + 1] /\ n + 1 \in 1..Len(s)
  BY <1>3
<1>6. w \in AtWork /\ Charging(w.job)
  BY <1>3, <1>4, <1>5 DEF AtWork
<1>7. /\ worker' = [worker EXCEPT ![g] = w] /\ queue' = [queue EXCEPT ![g] = Tail(s)]
      /\ now' = now /\ usage' = usage /\ resv' = resv /\ charge' = charge /\ active' = active
      /\ seq' = seq /\ wire' = wire /\ req' = req /\ outcome' = outcome
  BY <1>2, <1>4 DEF WorkerTake, server
<1>8. Quiet
  BY <1>1, <1>7 DEF Quiet, SeqCounted
<1>9. /\ queue' \in [Gateways -> Seq(Jobs)] /\ worker' \in [Gateways -> AtWork \cup {Idle}]
      /\ \A h \in Gateways : worker'[h] = IF h = g THEN w ELSE worker[h]
      /\ \A h \in Gateways : queue'[h] = IF h = g THEN Tail(s) ELSE queue[h]
  BY <1>1, <1>5, <1>6, <1>7 DEF WorkerTypes
<1>10. \A n \in 1..Len(Tail(s)) : Charging(Tail(s)[n])
  BY <1>3, <1>5
<1>11. \A h \in Gateways : \A n \in 1..Len(queue'[h]) : Charging(queue'[h][n])
  BY <1>1, <1>9, <1>10 DEF JobsSound
<1>12. \A h \in Gateways : worker'[h] # Idle => Charging(worker'[h].job)
  BY <1>1, <1>6, <1>9 DEF JobsSound
<1>13. JobsNext
  BY <1>9, <1>11, <1>12 DEF JobsNext
<1> QED BY <1>1, <1>7, <1>8, <1>13, WorkerInv DEF WorkerTypes

\* A report of a settlement that has no reservation, or is given up.
LEMMA ReportFacts ==
  ASSUME WinInv, NEW g \in Gateways, worker[g].pc \in {"read", "exec"}, NEW what \in Reports,
         Report(g, what)
  PROVE  /\ outcome' \in [Ids -> Reports]
         /\ \A i \in Ids : outcome'[i] = IF i = worker[g].job.id THEN what ELSE outcome[i]
         /\ worker' = [worker EXCEPT ![g] = Idle]
<1>1. outcome \in [Ids -> Reports]
  BY DEF WinInv, WorkerTypes
<1>2. outcome' = [outcome EXCEPT ![worker[g].job.id] = what]
      /\ worker' = [worker EXCEPT ![g] = Idle]
  BY DEF Report
<1> QED BY <1>1, <1>2

\* A worker reads the reservation.
LEMMA WinWorkerRead ==
  ASSUME WinInv, NEW g \in Gateways, WorkerRead(g)
  PROVE  WinInv'
<1>1. WorkerTypes /\ JobsSound /\ SeqCounted
  BY DEF WinInv
<1>2. PICK p : p = worker[g]
  OBVIOUS
<1>3. p \in AtWork /\ p.pc = "read" /\ Charging(p.job) /\ p.job.id \in Ids
  BY <1>2, AtWorkFacts DEF WorkerRead
<1>4. /\ now' = now /\ usage' = usage /\ resv' = resv /\ charge' = charge /\ active' = active
      /\ seq' = seq /\ wire' = wire /\ req' = req /\ queue' = queue
  BY DEF WorkerRead, server
<1>5. CASE Live(p.job.id)
  <2>1. worker' = [worker EXCEPT ![g].pc = "exec"] /\ outcome' = outcome
    BY <1>2, <1>5 DEF WorkerRead
  <2>2. PICK w : w = [p EXCEPT !.pc = "exec"]
    OBVIOUS
  <2>3. w \in AtWork /\ w.job = p.job /\ worker' = [worker EXCEPT ![g] = w]
    BY <1>2, <1>3, <2>1, <2>2 DEF AtWork
  <2>4. JobsNext
    BY <1>3, <1>4, <2>3, OneWorker
  <2>5. Quiet
    BY <1>1, <1>4, <2>1 DEF Quiet, SeqCounted
  <2> QED BY <1>1, <1>4, <2>1, <2>4, <2>5, WorkerInv DEF WorkerTypes
<1>6. CASE ~Live(p.job.id)
  <2>1. Report(g, "noop")
    BY <1>2, <1>6 DEF WorkerRead
  <2>2. /\ outcome' \in [Ids -> Reports] /\ worker' = [worker EXCEPT ![g] = Idle]
        /\ \A i \in Ids : outcome'[i] = IF i = p.job.id THEN "noop" ELSE outcome[i]
    BY <1>2, <1>3, <2>1, ReportFacts DEF Reports
  <2>3. JobsNext
    BY <1>4, <2>2, OneWorker
  <2>4. charge[p.job.id] # Void /\ resv[p.job.id] = Void
    BY <1>3, <1>6 DEF Charging, Live
  <2>5. Quiet
    BY <1>1, <1>4, <2>2, <2>4 DEF Quiet, SeqCounted
  <2> QED BY <1>4, <2>2, <2>3, <2>5, WorkerInv
<1> QED BY <1>5, <1>6

\* An EXEC of a worker that aborts.
LEMMA WinWorkerAbort ==
  ASSUME WinInv, NEW g \in Gateways, WorkerExec(g), ~Live(worker[g].job.id)
  PROVE  WinInv'
<1>1. WorkerTypes /\ JobsSound /\ SeqCounted
  BY DEF WinInv
<1>2. PICK p : p = worker[g]
  OBVIOUS
<1>3. p \in AtWork /\ p.pc = "exec" /\ Charging(p.job)
  BY <1>2, AtWorkFacts DEF WorkerExec
<1>4. SettleTx(g).id = worker[g].job.id
  BY DEF SettleTx
<1>5. /\ now' = now /\ usage' = usage /\ resv' = resv /\ charge' = charge /\ active' = active
      /\ seq' = seq /\ wire' = wire /\ req' = req /\ queue' = queue /\ outcome' = outcome
      /\ worker' = [worker EXCEPT ![g].pc = "read"]
  BY <1>4 DEF WorkerExec, RunSettle, server
<1>6. PICK w : w = [p EXCEPT !.pc = "read"]
  OBVIOUS
<1>7. w \in AtWork /\ w.job = p.job /\ worker' = [worker EXCEPT ![g] = w]
  BY <1>2, <1>3, <1>5, <1>6 DEF AtWork
<1>8. JobsNext
  BY <1>3, <1>5, <1>7, OneWorker
<1>9. Quiet
  BY <1>1, <1>5 DEF Quiet, SeqCounted
<1> QED BY <1>1, <1>5, <1>8, <1>9, WorkerInv DEF WorkerTypes

\* The transaction of a worker is of a charge.
LEMMA SettleTxFacts ==
  ASSUME WinInv, NEW g \in Gateways, worker[g].pc \in {"read", "exec"}
  PROVE  /\ SettleTx(g) \in WinSettles /\ OneWire(SettleTx(g))
         /\ SettleTx(g).id = worker[g].job.id /\ SettleTx(g).kind = "settle"
<1>1. PICK j : j = worker[g].job
  OBVIOUS
<1>2. j \in Jobs /\ Charging(j) /\ charge[j.id] \in Paid
  BY <1>1, AtWorkFacts
<1>3. PICK a : a = IF j.actual = Unknown THEN charge[j.id].est ELSE j.actual
  OBVIOUS
<1>4. a \in Nat
  BY <1>2, <1>3 DEF Jobs, Paid
<1>5. PICK t : t = SettleTx(g)
  OBVIOUS
<1>6. t = [kind |-> "settle", id |-> j.id, key |-> j.key, at |-> j.at, raced |-> FALSE,
           actual |-> a]
  BY <1>1, <1>3, <1>5 DEF SettleTx
<1>7. t \in WinSettles /\ t.id = j.id /\ t.key = j.key /\ t.kind = "settle"
  BY <1>2, <1>4, <1>6 DEF WinSettles, Jobs
<1>8. OneWire(t)
  BY <1>2, <1>7 DEF OneWire, Charging
<1> QED BY <1>1, <1>5, <1>7, <1>8

\* An attempt of a worker fails, its EXEC perhaps on the way.
LEMMA WinWorkerFails ==
  ASSUME WinInv, NEW g \in Gateways, WorkerFails(g)
  PROVE  WinInv'
<1>1. WorkerTypes /\ JobsSound /\ SeqCounted /\ ChargesSound
  BY DEF WinInv
<1>2. PICK p : p = worker[g]
  OBVIOUS
<1>3. p \in AtWork /\ p.pc \in {"read", "exec"} /\ Charging(p.job) /\ p.tries \in Nat
  BY <1>2, AtWorkFacts DEF WorkerFails
<1>4. /\ now' = now /\ usage' = usage /\ resv' = resv /\ charge' = charge /\ active' = active
      /\ seq' = seq /\ req' = req /\ queue' = queue /\ Failed(g)
      /\ wire' = wire \/ wire' = wire \cup {SettleTx(g)}
  BY DEF WorkerFails, server
<1>5. wire' = wire \/ \E t \in WinSettles : OneWire(t) /\ wire' = wire \cup {t}
  BY <1>2, <1>3, <1>4, SettleTxFacts
<1>6. CASE p.tries < 2
  <2>1. worker' = [worker EXCEPT ![g].pc = "read", ![g].tries = @ + 1] /\ outcome' = outcome
    BY <1>2, <1>4, <1>6 DEF Failed
  <2>2. PICK o : o = [p EXCEPT !.pc = "read"]
    OBVIOUS
  <2>3. o \in AtWork /\ o.job = p.job /\ o.tries = p.tries
    BY <1>3, <2>2 DEF AtWork
  <2>4. PICK w : w = [o EXCEPT !.tries = p.tries + 1]
    OBVIOUS
  <2>5. w \in AtWork /\ w.job = p.job
    BY <1>3, <2>3, <2>4 DEF AtWork
  <2>6. worker' = [worker EXCEPT ![g] = w]
    BY <1>1, <1>2, <2>1, <2>2, <2>3, <2>4 DEF WorkerTypes
  <2>7. JobsNext
    BY <1>3, <1>4, <2>5, <2>6, OneWorker
  <2>8. Quiet
    BY <1>1, <1>4, <2>1 DEF Quiet, SeqCounted
  <2> QED BY <1>1, <1>4, <1>5, <2>1, <2>7, <2>8, WorkerInv DEF WorkerTypes
<1>7. CASE ~(p.tries < 2)
  <2>1. Report(g, "abandoned")
    BY <1>2, <1>4, <1>7 DEF Failed
  <2>2. /\ outcome' \in [Ids -> Reports] /\ worker' = [worker EXCEPT ![g] = Idle]
        /\ \A i \in Ids : outcome'[i] = IF i = p.job.id THEN "abandoned" ELSE outcome[i]
    BY <1>2, <1>3, <2>1, ReportFacts DEF Reports
  <2>3. JobsNext
    BY <1>4, <2>2, OneWorker
  <2>4. Quiet
    BY <1>1, <1>4, <2>2 DEF Quiet, SeqCounted
  <2> QED BY <1>4, <1>5, <2>2, <2>3, <2>4, WorkerInv
<1> QED BY <1>6, <1>7

\* A gateway stops.
LEMMA WinCrash ==
  ASSUME WinInv, NEW g \in Gateways, Crash(g)
  PROVE  WinInv'
<1>1. /\ WorkerTypes /\ JobsSound /\ SeqCounted /\ ClientTypes /\ ReqSound /\ WireSound
  BY DEF WinInv
<1>2. /\ now' = now /\ usage' = usage /\ resv' = resv /\ charge' = charge /\ active' = active
      /\ seq' = seq /\ wire' = wire /\ outcome' = outcome
      /\ queue' = [queue EXCEPT ![g] = <<>>] /\ worker' = [worker EXCEPT ![g] = Idle]
  BY DEF Crash, server
<1>3. /\ req' = [s \in Requests |-> req'[s]]
      /\ \A s \in Requests : req'[s] = req[s] \/ req'[s] = Over
  BY DEF Crash
<1>4. Over.pc = "over"
  BY DEF Over
<1>5. Quiet
  BY <1>1, <1>2 DEF Quiet, SeqCounted
<1>6. WorkerTypes'
  <2>1. <<>> \in Seq(Jobs)
    OBVIOUS
  <2> QED BY <1>1, <1>2, <2>1 DEF WorkerTypes
<1>7. /\ \A j : Charging(j) => Charging(j)'
      /\ \A q : OneReq(q) => OneReq(q)'
      /\ \A t : OneWire(t) => OneWire(t)'
  BY <1>5, QuietServer
<1>8. JobsSound'
  <2>1. /\ \A h \in Gateways : queue'[h] = queue[h] \/ queue'[h] = <<>>
        /\ \A h \in Gateways : worker'[h] = worker[h] \/ worker'[h] = Idle
    BY <1>1, <1>2 DEF WorkerTypes
  <2>2. ASSUME NEW h \in Gateways, NEW n \in 1..Len(queue'[h]) PROVE Charging(queue[h][n])'
    <3>1. queue'[h] # <<>>
      <4>1. Len(<<>>) = 0
        OBVIOUS
      <4> QED BY <2>2, <4>1
    <3>2. PICK i : i = queue'[h][n]
      OBVIOUS
    <3>3. Charging(i)'
      BY <1>1, <1>7, <2>1, <2>2, <3>1, <3>2 DEF JobsSound
    <3> QED BY <3>2, <3>3 DEF Charging
  <2>3. ASSUME NEW h \in Gateways, worker'[h] # Idle PROVE Charging(worker[h].job)'
    <3>1. PICK i : i = worker'[h].job
      OBVIOUS
    <3>2. Charging(i)'
      BY <1>1, <1>7, <2>1, <2>3, <3>1 DEF JobsSound
    <3> QED BY <3>1, <3>2 DEF Charging
  <2> QED BY <2>2, <2>3 DEF JobsSound
<1>9. ClientTypes'
  <2>1. \A s \in Requests : ReqType(req'[s])
    BY <1>1, <1>3, <1>4 DEF ClientTypes, ReqType
  <2>2. \A s \in Requests : ReqType(req[s])'
    BY <2>1 DEF ReqType, Going
  <2> QED BY <1>1, <1>2, <1>3, <2>2 DEF ClientTypes, WinAdmits, WinSettles
<1>10. SeqCounted'
  <2>1. Drawn \subseteq Drawn' /\ Drawn' \subseteq Requests
    BY <1>3, <1>4 DEF Drawn
  <2>2. IsFiniteSet(Drawn') /\ Cardinality(Drawn') \in Nat
        /\ Cardinality(Drawn) <= Cardinality(Drawn')
    BY <2>1, WinConstants, FS_Subset, FS_CardinalityType
  <2>3. Cardinality(Drawn) \in Nat /\ seq \in Nat /\ seq <= Cardinality(Drawn)
    BY <1>1, DrawnIds DEF SeqCounted
  <2> QED BY <1>2, <2>2, <2>3 DEF SeqCounted
<1>11. ReqSound'
  <2>1. ASSUME NEW s \in Requests PROVE OneReq(req[s])'
    <3>1. PICK p : p = req'[s]
      OBVIOUS
    <3>2. OneReq(p)'
      <4>1. CASE p = req[s]
        BY <1>1, <1>7, <4>1 DEF ReqSound
      <4>2. CASE p = Over
        BY <1>4, <4>2 DEF OneReq
      <4> QED BY <1>3, <3>1, <4>1, <4>2
    <3> QED BY <3>1, <3>2 DEF OneReq, NotYet, Charging
  <2>2. \A s \in Requests : req'[s].pc = "commit" => req'[s] = req[s]
    BY <1>3, <1>4
  <2> QED BY <1>1, <2>1, <2>2 DEF ReqSound
<1>12. WireSound'
  <2>1. \A t \in wire : OneWire(t)'
    BY <1>1, <1>7 DEF WireSound
  <2>2. \A s \in Requests : req'[s].pc = "commit" => req'[s] = req[s]
    BY <1>3, <1>4
  <2> QED BY <1>1, <1>2, <2>1, <2>2 DEF WireSound
<1> QED BY <1>5, <1>6, <1>8, <1>9, <1>10, <1>11, <1>12, QuietServer DEF WinInv

-----------------------------------------------------------------------------
(* The window: steps that charge                                           *)

\* Id i is charged c, and its counter moves by the difference d.
ChargeStep(i, c, d) ==
  /\ now' = now /\ charge' = [charge EXCEPT ![i] = c]
  /\ usage' = [usage EXCEPT ![c.key][Bucket(c.at)] = [n |-> @.n + d, until |-> now + Ttl]]

\* A counter follows what is charged to it.
LEMMA CountersCharged ==
  ASSUME WinInv, NEW i \in Ids, NEW c \in Paid, NEW d \in Int, ChargeStep(i, c, d), c.at <= now,
         charge[i] = Void => d = c.amount,
         charge[i] # Void => /\ charge[i].key = c.key /\ charge[i].at = c.at
                             /\ d = c.amount - charge[i].amount
  PROVE  /\ CountersSound' /\ usage' \in [Keys -> [Buckets -> [n : Int, until : Nat]]]
         /\ charge' \in Ledgers
         /\ \A j \in Ids : charge'[j] = IF j = i THEN c ELSE charge[j]
<1>1. /\ ServerTypes /\ ClockSound /\ CountersSound /\ ChargesSound
      /\ now' = now /\ now \in Nat
  BY DEF WinInv, ChargeStep, ClockSound
<1>2. charge \in Ledgers /\ usage \in [Keys -> [Buckets -> [n : Int, until : Nat]]]
  BY <1>1 DEF ServerTypes
<1>3. PICK e : e = [charge EXCEPT ![i] = c]
  OBVIOUS
<1>4. charge' = e /\ e \in Ledgers /\ \A j \in Ids : e[j] = IF j = i THEN c ELSE charge[j]
  BY <1>2, <1>3 DEF ChargeStep, Ledgers
<1>5. PICK k0 \in Keys, b0 \in Buckets : k0 = c.key /\ b0 = Bucket(c.at)
  <2>1. c.key \in Keys /\ c.at \in Nat
    BY DEF Paid
  <2> QED BY <1>1, <2>1, BucketKept
<1>6. PICK x : x = usage[k0][b0]
  OBVIOUS
<1>7. x \in [n : Int, until : Nat]
  BY <1>2, <1>6
<1>8. PICK y : y = [n |-> x.n + d, until |-> now + Ttl]
  OBVIOUS
<1>9. y \in [n : Int, until : Nat] /\ y.n = x.n + d /\ y.until = now + Ttl
  BY <1>1, <1>7, <1>8, WinConstants
<1>10. usage' = [usage EXCEPT ![k0][b0] = y]
  BY <1>5, <1>6, <1>8 DEF ChargeStep
<1>11. usage' \in [Keys -> [Buckets -> [n : Int, until : Nat]]]
  BY <1>2, <1>9, <1>10
<1>12. \A k \in Keys, b \in Buckets :
         usage'[k][b] = IF k = k0 /\ b = b0 THEN y ELSE usage[k][b]
  BY <1>2, <1>10
<1>13. Oldest' = Oldest
  BY <1>1 DEF Oldest, Bucket
<1>14. ASSUME NEW k \in Keys, NEW b \in Buckets, Oldest <= b PROVE OneCounter(k, b)'
  <2>1. OneCounter(k, b)
    BY <1>1, <1>14 DEF CountersSound
  <2>2. CASE k = k0 /\ b = b0
    <3>1. usage'[k][b] = y /\ usage[k][b] = x
      BY <1>6, <1>12, <2>2
    <3>2. PICK m \in Nat :
            /\ Bill(charge, k, b) = m + IF charge[i] = Void THEN 0 ELSE charge[i].amount
            /\ Bill(e, k, b) = m + c.amount
      <4>1. c.key = k /\ Bucket(c.at) = b
            /\ (charge[i] = Void \/ (charge[i].key = k /\ Bucket(charge[i].at) = b))
        BY <1>5, <2>2
      <4> QED BY <1>2, <1>4, <4>1, BillSplit
    <3>3. c.amount \in Nat /\ x.n = Bill(charge, k, b) /\ x.n \in Int
      BY <1>7, <2>1, <3>1 DEF Paid, OneCounter
    <3>4. y.n = Bill(e, k, b)
      <4>1. CASE charge[i] = Void
        BY <1>9, <3>2, <3>3, <4>1
      <4>2. CASE charge[i] # Void
        <5>1. charge[i].amount \in Nat
          BY <1>2, <4>2 DEF Ledgers, Paid
        <5> QED BY <1>9, <3>2, <3>3, <4>2, <5>1
      <4> QED BY <4>1, <4>2
    <3>5. ASSUME NEW j \in Payers(e, k, b) PROVE e[j].at + Ttl <= y.until
      <4>1. j \in Ids /\ e[j] \in Paid
        BY <1>4, BillFacts
      <4>2. e[j].at <= now /\ e[j].at \in Nat
        <5>1. CASE j = i
          BY <1>4, <4>1, <5>1 DEF Paid
        <5>2. CASE j # i
          <6>1. e[j] = charge[j] /\ charge[j] # Void /\ OneCharge(j)
            BY <1>1, <1>4, <4>1, <5>2, NoneFacts DEF ChargesSound
          <6> QED BY <4>1, <6>1 DEF OneCharge, Paid
        <5> QED BY <5>1, <5>2
      <4> QED BY <1>1, <1>9, <4>2, WinConstants
    <3> QED BY <1>4, <3>1, <3>4, <3>5, CounterPrime
  <2>3. CASE ~(k = k0 /\ b = b0)
    <3>1. usage'[k][b] = usage[k][b]
      BY <1>12, <2>3
    <3>2. ~(c.key = k /\ Bucket(c.at) = b)
          /\ (charge[i] = Void \/ ~(charge[i].key = k /\ Bucket(charge[i].at) = b))
      BY <1>5, <2>3
    <3>3. /\ Payers(e, k, b) = Payers(charge, k, b) /\ Bill(e, k, b) = Bill(charge, k, b)
          /\ \A j \in Payers(charge, k, b) : e[j] = charge[j]
      <4>1. charge \in Ledgers /\ e \in Ledgers
            /\ \A s \in Ids : e[s] = IF s = i THEN c ELSE charge[s]
        BY <1>2, <1>4
      <4> QED BY ONLY <4>1, <3>2, i \in Ids, c \in Paid, BillElsewhere
    <3>4. /\ usage'[k][b].n = Bill(e, k, b)
          /\ \A j \in Payers(e, k, b) : e[j].at + Ttl <= usage'[k][b].until
      BY <2>1, <3>1, <3>3 DEF OneCounter
    <3> QED BY <1>4, <3>4, CounterPrime
  <2> QED BY <2>2, <2>3
<1>15. CountersSound'
  <2>1. Buckets' = Buckets
    BY DEF Buckets
  <2> QED BY <1>13, <1>14, <2>1 DEF CountersSound
<1> QED BY <1>4, <1>11, <1>15

\* Workers, where what was charged stays charged.
LEMMA JobsFollow ==
  ASSUME JobsNext, outcome' \in [Ids -> Reports], \A j : Charging(j) => Charging(j)'
  PROVE  WorkerTypes' /\ JobsSound'
<1>1. WorkerTypes'
  BY DEF WorkerTypes, JobsNext
<1>2. ASSUME NEW h \in Gateways, NEW n \in 1..Len(queue'[h]) PROVE Charging(queue[h][n])'
  <2>1. PICK i : i = queue'[h][n]
    OBVIOUS
  <2>2. Charging(i)'
    BY <1>2, <2>1 DEF JobsNext
  <2> QED BY <2>1, <2>2 DEF Charging
<1>3. ASSUME NEW h \in Gateways, worker'[h] # Idle PROVE Charging(worker[h].job)'
  <2>1. PICK i : i = worker'[h].job
    OBVIOUS
  <2>2. Charging(i)'
    BY <1>3, <2>1 DEF JobsNext
  <2> QED BY <2>1, <2>2 DEF Charging
<1>4. JobsSound'
  BY <1>2, <1>3 DEF JobsSound
<1> QED BY <1>1, <1>4

\* Workers that have not moved.
LEMMA JobsStay ==
  ASSUME WinInv, UNCHANGED <<queue, worker>>
  PROVE  JobsNext
  BY DEF WinInv, JobsNext, WorkerTypes, JobsSound

\* What an admission that runs does to the server, and to the other ids.
LEMMA AdmitServer ==
  ASSUME WinInv, NEW t \in WinAdmits, OneWire(t), RunAdmit(t), UNCHANGED <<now, seq, outcome>>
  PROVE  /\ ServerTypes' /\ ClockSound' /\ ChargesSound' /\ CountersSound'
         /\ \A i : i # t.id /\ NotYet(i) => NotYet(i)'
         /\ \A j : Charging(j) => Charging(j)'
         /\ t.id \in Ids /\ charge'[t.id] # Void /\ charge'[t.id].key = t.key
         /\ \A i \in Ids : i # t.id => charge'[i] = charge[i]
<1>1. /\ ServerTypes /\ ClockSound /\ ChargesSound /\ SeqCounted /\ charge \in Ledgers
      /\ now' = now /\ seq' = seq /\ outcome' = outcome /\ now \in Nat /\ seq \in Nat
  BY DEF WinInv, ServerTypes, ClockSound, SeqCounted
<1>2. PICK i : i = t.id
  OBVIOUS
<1>3. /\ i \in 1..seq /\ i \in Ids /\ charge[i] = Void /\ t.at <= now /\ t.at \in Nat
      /\ t.key \in Keys /\ t.est \in Nat /\ t.raced \in BOOLEAN
  <2>1. t.kind = "admit"
    BY DEF WinAdmits
  <2>2. NotYet(t.id) /\ t.at <= now
    BY <2>1 DEF OneWire
  <2> QED BY <1>1, <1>2, <2>2, DrawnIds DEF NotYet, WinAdmits
<1>4. PICK c : c = [key |-> t.key, at |-> t.at, est |-> t.est, amount |-> t.est,
                    raced |-> t.raced]
  OBVIOUS
<1>5. /\ c \in Paid /\ c.key = t.key /\ c.at = t.at /\ c.est = t.est /\ c.amount = t.est
      /\ c # Void
  <2>1. c \in Paid
    BY <1>3, <1>4 DEF Paid
  <2> QED BY <1>4, <2>1, NoneFacts
<1>6. ChargeStep(i, c, t.est)
  BY <1>1, <1>2, <1>4, <1>5 DEF ChargeStep, RunAdmit, AddUsage
<1>7. t.est \in Int
  BY <1>3
<1>8. /\ CountersSound' /\ usage' \in [Keys -> [Buckets -> [n : Int, until : Nat]]]
      /\ charge' \in Ledgers
      /\ \A j \in Ids : charge'[j] = IF j = i THEN c ELSE charge[j]
  BY <1>3, <1>5, <1>6, <1>7, CountersCharged
<1>9. PICK v : v = [key |-> t.key, est |-> t.est, at |-> t.at, until |-> now + Timeout]
  OBVIOUS
<1>10. v \in Held /\ v.key = t.key /\ v.est = t.est /\ v.at = t.at
  <2>1. now + Timeout \in Nat \ {0}
    BY <1>1, WinConstants
  <2> QED BY <1>3, <1>9, <2>1 DEF Held
<1>11. resv' = [resv EXCEPT ![i] = v]
       /\ active' = active \cup {[id |-> i, deadline |-> t.at + Timeout]}
  BY <1>2, <1>9 DEF RunAdmit, Deadline
<1>12. resv \in [Ids -> Held \cup {Void}]
  BY <1>1 DEF ServerTypes
<1>13. resv' \in [Ids -> Held \cup {Void}] /\ \A j \in Ids : resv'[j] = IF j = i THEN v ELSE resv[j]
  BY <1>3, <1>10, <1>11, <1>12
<1>14. ServerTypes'
  BY <1>8, <1>13 DEF ServerTypes, Ledgers
<1>15. ClockSound'
  BY <1>1 DEF ClockSound
<1>16. ASSUME NEW j \in Ids PROVE OneCharge(j)'
  <2>1. OneCharge(j)
    BY <1>1 DEF ChargesSound
  <2>2. CASE j = i
    <3>1. charge'[j] = c /\ resv'[j] = v
      BY <1>8, <1>13, <2>2
    <3>2. outcome'[j] \notin {"applied", "noop"}
      BY <1>1, <1>3, <2>1, <2>2 DEF OneCharge
    <3>3. j <= seq'
      BY <1>1, <1>3, <2>2
    <3>4. [id |-> j, deadline |-> c.at + Timeout] \in active'
      BY <1>5, <1>11, <2>2
    <3> QED BY <1>1, <1>3, <1>5, <1>10, <3>1, <3>2, <3>3, <3>4 DEF OneCharge
  <2>3. CASE j # i
    <3>1. charge'[j] = charge[j] /\ resv'[j] = resv[j]
      BY <1>8, <1>13, <2>3
    <3>2. active \subseteq active'
      BY <1>11
    <3> QED BY <1>1, <2>1, <3>1, <3>2 DEF OneCharge
  <2> QED BY <2>2, <2>3
<1>17. ChargesSound'
  <2>1. Ids' = Ids
    BY DEF Ids
  <2> QED BY <1>16, <2>1 DEF ChargesSound
<1>18. \A j \in 1..seq : j \in Ids
  BY <1>1, DrawnIds
<1>19. \A j : j # i /\ NotYet(j) => NotYet(j)'
  BY <1>1, <1>8, <1>18 DEF NotYet
<1>20. \A j : Charging(j) => Charging(j)'
  <2>1. ASSUME NEW j, Charging(j) PROVE Charging(j)'
    <3>1. j.id \in 1..seq /\ j.id \in Ids /\ charge[j.id] # Void /\ charge[j.id].key = j.key
      BY <1>18, <2>1 DEF Charging
    <3>2. j.id # i
      BY <1>3, <3>1
    <3>3. charge'[j.id] = charge[j.id]
      BY <1>8, <3>1, <3>2
    <3> QED BY <1>1, <3>1, <3>3 DEF Charging
  <2> QED BY <2>1
<1> QED BY <1>2, <1>3, <1>5, <1>8, <1>14, <1>15, <1>17, <1>19, <1>20

\* A racing mark changes nothing else.
LEMMA MarkFacts ==
  /\ \A u \in WinAdmits \cup WinSettles :
       LET m == [u EXCEPT !.raced = TRUE]
       IN  /\ m \in WinAdmits \cup WinSettles /\ m.kind = u.kind /\ m.id = u.id
           /\ m.at = u.at /\ m.key = u.key
  /\ \A q \in Going :
       LET m == [q EXCEPT !.raced = TRUE]
       IN  /\ m \in Going /\ m.pc = q.pc /\ m.id = q.id /\ m.at = q.at /\ m.key = q.key
<1>1. ASSUME NEW u \in WinAdmits \cup WinSettles
      PROVE  LET m == [u EXCEPT !.raced = TRUE]
             IN  /\ m \in WinAdmits \cup WinSettles /\ m.kind = u.kind /\ m.id = u.id
                 /\ m.at = u.at /\ m.key = u.key
  <2>1. CASE u \in WinAdmits
    BY <2>1 DEF WinAdmits
  <2>2. CASE u \in WinSettles
    BY <2>2 DEF WinSettles
  <2> QED BY <1>1, <2>1, <2>2
<1>2. ASSUME NEW q \in Going
      PROVE  LET m == [q EXCEPT !.raced = TRUE]
             IN  /\ m \in Going /\ m.pc = q.pc /\ m.id = q.id /\ m.at = q.at /\ m.key = q.key
  BY DEF Going
<1> QED BY <1>1, <1>2

\* What an admission that runs does to requests: one is admitted, others are marked.
Advances(p, q, t) ==
  \/ q = p
  \/ /\ p \in Going /\ q \in Going /\ q.id = p.id /\ q.at = p.at /\ q.key = p.key
     /\ q.pc = p.pc
  \/ /\ p \in Going /\ q \in Going /\ q.id = p.id /\ q.at = p.at /\ q.key = p.key
     /\ p.pc = "commit" /\ q.pc = "admitted" /\ p.id = t.id /\ p.key = t.key

\* An admission that runs, the only one of its id, keeps the invariant.
LEMMA AdmitInv ==
  ASSUME WinInv, NEW t \in WinAdmits, OneWire(t), RunAdmit(t),
         UNCHANGED <<now, seq, outcome, queue, worker>>,
         wire' = RacingWire(t),
         \A u \in wire \ {t} : u.kind = "admit" => u.id # t.id,
         req' = [s \in Requests |-> req'[s]],
         \A s \in Requests : Advances(req[s], req'[s], t),
         \A s \in Requests : req'[s].pc = "commit" => req[s].id # t.id
  PROVE  WinInv'
<1>1. /\ ClientTypes /\ SeqCounted /\ ReqSound /\ WireSound /\ WorkerTypes
      /\ now' = now /\ seq' = seq /\ outcome' = outcome
  BY DEF WinInv
<1>2. /\ ServerTypes' /\ ClockSound' /\ ChargesSound' /\ CountersSound'
      /\ \A i : i # t.id /\ NotYet(i) => NotYet(i)'
      /\ \A j : Charging(j) => Charging(j)'
      /\ charge'[t.id] # Void /\ charge'[t.id].key = t.key
  BY AdmitServer
<1>3. WorkerTypes' /\ JobsSound'
  <2>1. JobsNext
    BY JobsStay
  <2>2. outcome' \in [Ids -> Reports]
    BY <1>1 DEF WorkerTypes
  <2> QED BY <1>2, <2>1, <2>2, JobsFollow
<1>4. t.id \in 1..seq
  BY DEF OneWire, NotYet, WinAdmits
<1>5. \A s \in Requests : /\ req'[s].pc = req[s].pc \/ (req[s].pc = "commit" /\ req'[s].pc = "admitted")
                          /\ req'[s].pc = "commit" => req[s].pc = "commit" /\ req'[s].id = req[s].id
  BY DEF Advances
<1>6. SeqCounted'
  <2>1. Drawn' = Drawn
    BY <1>5 DEF Drawn
  <2> QED BY <1>1, <2>1 DEF SeqCounted
<1>7. ASSUME NEW s \in Requests PROVE ReqType(req'[s]) /\ OneReq(req[s])'
  <2>1. PICK p : p = req[s]
    OBVIOUS
  <2>2. PICK q : q = req'[s]
    OBVIOUS
  <2>3. ReqType(p) /\ OneReq(p) /\ Advances(p, q, t) /\ (q.pc = "commit" => p.id # t.id)
    BY <1>1, <2>1, <2>2 DEF ClientTypes, ReqSound
  <2>4. ReqType(q)
    BY <2>3 DEF Advances, ReqType
  <2>5. q.pc \in {"read", "draw", "commit", "admitted"} => q.at <= now'
    BY <1>1, <2>3 DEF Advances, OneReq, Going
  <2>6. q.pc = "commit" => NotYet(q.id)'
    <3>1. ASSUME q.pc = "commit" PROVE NotYet(q.id)'
      <4>1. p.pc = "commit" /\ q.id = p.id /\ p.id # t.id
        BY <2>3, <3>1 DEF Advances
      <4>2. NotYet(p.id)
        BY <2>3, <4>1 DEF OneReq
      <4> QED BY <1>2, <4>1, <4>2
    <3> QED BY <3>1
  <2>7. q.pc = "admitted" => Charging(q)'
    <3>1. ASSUME q.pc = "admitted" PROVE Charging(q)'
      <4>1. CASE p.pc = "admitted"
        <5>1. Charging(p) /\ q.id = p.id /\ q.key = p.key
          BY <2>3, <3>1, <4>1 DEF OneReq, Advances
        <5>2. Charging(q)
          BY <5>1 DEF Charging
        <5> QED BY <1>2, <5>2
      <4>2. CASE p.pc # "admitted"
        <5>1. q.id = t.id /\ q.key = t.key
          BY <2>3, <3>1, <4>2 DEF Advances
        <5> QED BY <1>1, <1>2, <1>4, <5>1 DEF Charging
      <4> QED BY <4>1, <4>2
    <3> QED BY <3>1
  <2>8. OneReq(q)'
    BY <2>5, <2>6, <2>7 DEF OneReq
  <2> QED BY <2>2, <2>4, <2>8 DEF OneReq, NotYet, Charging
<1>8. ReqSound'
  BY <1>1, <1>5, <1>7 DEF ReqSound
<1>9. wire \subseteq WinAdmits \cup WinSettles
  BY <1>1 DEF ClientTypes
<1>10. ASSUME NEW m \in wire'
       PROVE  \E u \in wire : /\ m = [u EXCEPT !.raced = TRUE] /\ u # t
                              /\ m \in WinAdmits \cup WinSettles /\ m.kind = u.kind
                              /\ m.id = u.id /\ m.at = u.at /\ m.key = u.key
  <2>1. PICK u \in wire : m = [u EXCEPT !.raced = TRUE] /\ u # t
    BY DEF RacingWire
  <2> QED BY <1>9, <2>1, MarkFacts
<1>11. ClientTypes'
  <2>1. \A s \in Requests : ReqType(req[s])'
    BY <1>7 DEF ReqType, Going
  <2>2. wire' \in SUBSET (WinAdmits \cup WinSettles)
    BY <1>10
  <2> QED BY <2>1, <2>2 DEF ClientTypes, WinAdmits, WinSettles
<1>12. \A m \in wire' : OneWire(m)'
  <2>1. ASSUME NEW m \in wire' PROVE OneWire(m)'
    <3>1. PICK u \in wire : /\ u # t /\ m.kind = u.kind /\ m.id = u.id /\ m.at = u.at
                            /\ m.key = u.key
      BY <1>10
    <3>2. OneWire(u)
      BY <1>1 DEF WireSound
    <3>3. ASSUME m.kind = "admit" PROVE NotYet(m.id)' /\ m.at <= now'
      <4>1. u.id # t.id /\ NotYet(u.id) /\ u.at <= now
        BY <3>1, <3>2, <3>3 DEF OneWire
      <4> QED BY <1>1, <1>2, <3>1, <4>1
    <3>4. ASSUME m.kind = "settle" PROVE Charging(m)'
      <4>1. Charging(u)
        BY <3>1, <3>2, <3>4 DEF OneWire
      <4>2. Charging(m)
        BY <3>1, <4>1 DEF Charging
      <4> QED BY <1>2, <4>2
    <3> QED BY <3>3, <3>4 DEF OneWire
  <2> QED BY <2>1
<1>13. ASSUME NEW m \in wire', NEW o \in wire', m.kind = "admit", o.kind = "admit", m.id = o.id
       PROVE  m = o
  <2>1. PICK u \in wire : m = [u EXCEPT !.raced = TRUE] /\ m.kind = u.kind /\ m.id = u.id
    BY <1>10
  <2>2. PICK v \in wire : o = [v EXCEPT !.raced = TRUE] /\ o.kind = v.kind /\ o.id = v.id
    BY <1>10
  <2>3. u = v
    BY <1>1, <1>13, <2>1, <2>2 DEF WireSound
  <2> QED BY <2>1, <2>2, <2>3
<1>14. ASSUME NEW m \in wire', NEW s \in Requests, m.kind = "admit", req'[s].pc = "commit"
       PROVE  m.id # req'[s].id
  <2>1. PICK u \in wire : m.kind = u.kind /\ m.id = u.id
    BY <1>10
  <2> QED BY <1>1, <1>5, <1>14, <2>1 DEF WireSound
<1>15. WireSound'
  BY <1>12, <1>13, <1>14 DEF WireSound
<1> QED BY <1>2, <1>3, <1>6, <1>8, <1>11, <1>15 DEF WinInv

\* A racing request is the same request.
LEMMA RacingFacts ==
  ASSUME WinInv, NEW x, NEW s \in Requests, NEW t
  PROVE  Advances(req[s], Racing(x)[s], t) /\ Racing(x)[s].pc = req[s].pc
         /\ Racing(x)[s].id = req[s].id
<1>1. ClientTypes
  BY DEF WinInv
<1>2. PICK q : q = Racing(x)[s]
  OBVIOUS
<1>3. q = IF s \notin x /\ req[s].pc \in {"read", "draw", "commit"} THEN [req[s] EXCEPT !.raced = TRUE]
          ELSE req[s]
  BY <1>2 DEF Racing
<1>4. CASE s \notin x /\ req[s].pc \in {"read", "draw", "commit"}
  <2>1. req[s] \in Going
    BY <1>1, <1>4 DEF ClientTypes, ReqType
  <2>2. /\ q \in Going /\ q.pc = req[s].pc /\ q.id = req[s].id /\ q.at = req[s].at
        /\ q.key = req[s].key
    BY <1>3, <1>4, <2>1, MarkFacts
  <2> QED BY <1>2, <2>1, <2>2 DEF Advances
<1>5. CASE ~(s \notin x /\ req[s].pc \in {"read", "draw", "commit"})
  <2>1. q = req[s]
    BY <1>3, <1>5
  <2> QED BY <1>2, <2>1 DEF Advances
<1> QED BY <1>4, <1>5

\* A request commits its charge.
LEMMA WinCommit ==
  ASSUME WinInv, NEW r \in Requests, Commit(r)
  PROVE  WinInv'
<1>1. ClientTypes /\ ReqSound /\ WireSound
  BY DEF WinInv
<1>2. PICK p : p = req[r]
  OBVIOUS
<1>3. p \in Going /\ p.pc = "commit" /\ OneReq(p)
  BY <1>1, <1>2 DEF Commit, ClientTypes, ReqType, ReqSound
<1>4. PICK t : t = AdmitTx(r)
  OBVIOUS
<1>5. /\ t \in WinAdmits /\ t.kind = "admit" /\ t.id = p.id /\ t.at = p.at /\ t.key = p.key
  BY <1>2, <1>3, <1>4 DEF AdmitTx, WinAdmits, Going
<1>6. OneWire(t)
  BY <1>3, <1>5 DEF OneWire, OneReq
<1>7. /\ RunAdmit(t) /\ wire' = RacingWire(t)
      /\ req' = [Racing({r}) EXCEPT ![r].pc = "admitted"]
      /\ UNCHANGED <<now, seq, outcome, queue, worker>>
  BY <1>4 DEF Commit
<1>8. \A u \in wire \ {t} : u.kind = "admit" => u.id # t.id
  BY <1>1, <1>2, <1>3, <1>5 DEF WireSound
<1>9. Racing({r}) = [s \in Requests |-> Racing({r})[s]] /\ Racing({r})[r] = p
  BY <1>2 DEF Racing
<1>10. PICK q : q = [p EXCEPT !.pc = "admitted"]
  OBVIOUS
<1>11. /\ q \in Going /\ q.pc = "admitted" /\ q.id = p.id /\ q.at = p.at /\ q.key = p.key
  BY <1>3, <1>10 DEF Going
<1>12. /\ req' = [s \in Requests |-> req'[s]] /\ req'[r] = q
       /\ \A s \in Requests : s # r => req'[s] = Racing({r})[s]
  <2>1. PICK f : f = Racing({r})
    OBVIOUS
  <2>2. f = [s \in Requests |-> f[s]] /\ f[r] = p /\ req' = [f EXCEPT ![r].pc = "admitted"]
    BY <1>7, <1>9, <2>1
  <2>3. \A s \in Requests : req'[s] = IF s = r THEN q ELSE f[s]
    BY <1>10, <2>2
  <2>4. req' = [s \in Requests |-> req'[s]]
    BY <2>2
  <2> QED BY <2>1, <2>3, <2>4
<1>13. \A s \in Requests : Advances(req[s], req'[s], t)
  <2>1. ASSUME NEW s \in Requests PROVE Advances(req[s], req'[s], t)
    <3>1. CASE s = r
      BY <1>2, <1>3, <1>5, <1>11, <1>12, <3>1 DEF Advances
    <3>2. CASE s # r
      BY <1>12, <3>2, RacingFacts
    <3> QED BY <3>1, <3>2
  <2> QED BY <2>1
<1>14. \A s \in Requests : req'[s].pc = "commit" => req[s].id # t.id
  <2>1. ASSUME NEW s \in Requests, req'[s].pc = "commit" PROVE req[s].id # t.id
    <3>1. s # r
      BY <1>11, <1>12, <2>1
    <3>2. req[s].pc = "commit"
      BY <1>12, <2>1, <3>1, RacingFacts
    <3> QED BY <1>1, <1>2, <1>3, <1>5, <3>1, <3>2 DEF ReqSound
  <2> QED BY <2>1
<1> QED BY <1>5, <1>6, <1>7, <1>8, <1>12, <1>13, <1>14, AdmitInv

\* An admission that was given up on runs after all.
LEMMA WinLateAdmit ==
  ASSUME WinInv, NEW t \in wire, LateRun(t), t.kind = "admit"
  PROVE  WinInv'
<1>1. ClientTypes /\ ReqSound /\ WireSound
  BY DEF WinInv
<1>2. t \in WinAdmits /\ OneWire(t)
  BY <1>1 DEF ClientTypes, WireSound, WinSettles
<1>3. /\ RunAdmit(t) /\ wire' = RacingWire(t) /\ req' = Racing({})
      /\ UNCHANGED <<now, seq, outcome, queue, worker>>
  BY DEF LateRun
<1>4. \A u \in wire \ {t} : u.kind = "admit" => u.id # t.id
  BY <1>1 DEF WireSound
<1>5. req' = [s \in Requests |-> req'[s]]
  BY <1>3 DEF Racing
<1>6. \A s \in Requests : Advances(req[s], req'[s], t)
  BY <1>3, RacingFacts
<1>7. \A s \in Requests : req'[s].pc = "commit" => req[s].id # t.id
  <2>1. \A s \in Requests : req'[s].pc = req[s].pc
    BY <1>3, RacingFacts
  <2> QED BY <1>1, <2>1 DEF WireSound
<1> QED BY <1>2, <1>3, <1>4, <1>5, <1>6, <1>7, AdmitInv

\* What a settlement that finds its reservation does to the server.
LEMMA SettleServer ==
  ASSUME WinInv, NEW t \in WinSettles, Charging(t), Live(t.id), RunSettle(t),
         UNCHANGED <<now, seq>>,
         \A i \in Ids : i # t.id => outcome'[i] = outcome[i]
  PROVE  /\ ServerTypes' /\ ClockSound' /\ ChargesSound' /\ CountersSound'
         /\ \A i : NotYet(i) => NotYet(i)'
         /\ \A j : Charging(j) => Charging(j)'
         /\ \A q : OneReq(q) => OneReq(q)'
         /\ \A u : OneWire(u) => OneWire(u)'
         /\ t.id \in Ids /\ \A i \in Ids : i # t.id => charge'[i] = charge[i]
<1>1. /\ ServerTypes /\ ClockSound /\ ChargesSound /\ SeqCounted /\ charge \in Ledgers
      /\ now' = now /\ seq' = seq /\ now \in Nat /\ seq \in Nat
  BY DEF WinInv, ServerTypes, ClockSound, SeqCounted
<1>2. PICK i : i = t.id
  OBVIOUS
<1>3. i \in 1..seq /\ i \in Ids /\ charge[i] # Void /\ charge[i].key = t.key /\ resv[i] # Void
  BY <1>1, <1>2, DrawnIds DEF Charging, Live
<1>4. PICK p : p = charge[i]
  OBVIOUS
<1>5. p \in Paid /\ OneCharge(i)
  BY <1>1, <1>3, <1>4 DEF Ledgers, ChargesSound
<1>6. /\ resv[i].at = p.at /\ resv[i].est = p.est /\ p.amount = p.est /\ p.at <= now
      /\ p.key = t.key
  BY <1>3, <1>4, <1>5 DEF OneCharge
<1>7. PICK c : c = [p EXCEPT !.amount = t.actual]
  OBVIOUS
<1>8. t.actual \in Nat /\ p.est \in Nat /\ p.amount \in Nat
  BY <1>5 DEF WinSettles, Paid
<1>9. /\ c \in Paid /\ c.key = p.key /\ c.at = p.at /\ c.est = p.est /\ c.amount = t.actual
      /\ c # Void
  <2>1. c \in Paid /\ c.key = p.key /\ c.at = p.at /\ c.est = p.est /\ c.amount = t.actual
    BY <1>5, <1>7, <1>8 DEF Paid
  <2> QED BY <2>1, NoneFacts
<1>10. PICK d : d = t.actual - p.est
  OBVIOUS
<1>11. d \in Int /\ d = c.amount - p.amount
  BY <1>6, <1>8, <1>9, <1>10
<1>12. /\ AddUsage(t.key, resv[i].at, t.actual - resv[i].est)
       /\ resv' = [resv EXCEPT ![i] = Void] /\ active' = {a \in active : a.id # i}
       /\ charge' = [charge EXCEPT ![i].amount = t.actual]
  BY <1>2 DEF RunSettle
<1>13. charge' = [charge EXCEPT ![i] = c]
  BY <1>1, <1>4, <1>7, <1>12 DEF Ledgers
<1>14. usage' = [usage EXCEPT ![c.key][Bucket(c.at)] = [n |-> @.n + d, until |-> now + Ttl]]
  BY <1>6, <1>9, <1>10, <1>12 DEF AddUsage
<1>15. ChargeStep(i, c, d)
  BY <1>1, <1>13, <1>14 DEF ChargeStep
<1>16. /\ CountersSound' /\ usage' \in [Keys -> [Buckets -> [n : Int, until : Nat]]]
       /\ charge' \in Ledgers
       /\ \A j \in Ids : charge'[j] = IF j = i THEN c ELSE charge[j]
  <2>1. c.at <= now
    BY <1>6, <1>9
  <2>2. /\ charge[i] = Void => d = c.amount
        /\ charge[i] # Void => /\ charge[i].key = c.key /\ charge[i].at = c.at
                               /\ d = c.amount - charge[i].amount
    BY <1>3, <1>4, <1>9, <1>11
  <2> QED BY <1>3, <1>9, <1>11, <1>15, <2>1, <2>2, CountersCharged
<1>17. resv' \in [Ids -> Held \cup {Void}]
       /\ \A j \in Ids : resv'[j] = IF j = i THEN Void ELSE resv[j]
  BY <1>1, <1>12 DEF ServerTypes
<1>18. ServerTypes'
  BY <1>16, <1>17 DEF ServerTypes, Ledgers
<1>19. ClockSound'
  BY <1>1 DEF ClockSound
<1>20. ASSUME NEW j \in Ids PROVE OneCharge(j)'
  <2>1. OneCharge(j)
    BY <1>1 DEF ChargesSound
  <2>2. CASE j = i
    <3>1. charge'[j] = c /\ resv'[j] = Void
      BY <1>16, <1>17, <2>2
    <3>2. j <= seq' /\ c.at <= now'
      BY <1>1, <1>3, <1>6, <1>9, <2>2
    <3> QED BY <1>9, <3>1, <3>2 DEF OneCharge
  <2>3. CASE j # i
    <3>1. charge'[j] = charge[j] /\ resv'[j] = resv[j] /\ outcome'[j] = outcome[j]
      BY <1>2, <1>16, <1>17, <2>3
    <3>2. \A n : [id |-> j, deadline |-> n] \in active => [id |-> j, deadline |-> n] \in active'
      BY <1>12, <2>3
    <3> QED BY <1>1, <2>1, <3>1, <3>2 DEF OneCharge
  <2> QED BY <2>2, <2>3
<1>21. ChargesSound'
  <2>1. Ids' = Ids
    BY DEF Ids
  <2> QED BY <1>20, <2>1 DEF ChargesSound
<1>22. \A j \in 1..seq : j \in Ids
  BY <1>1, DrawnIds
<1>23. \A j : NotYet(j) => NotYet(j)'
  BY <1>1, <1>3, <1>16, <1>22 DEF NotYet
<1>24. \A j : Charging(j) => Charging(j)'
  <2>1. ASSUME NEW j, Charging(j) PROVE Charging(j)'
    <3>1. j.id \in 1..seq /\ j.id \in Ids /\ charge[j.id] # Void /\ charge[j.id].key = j.key
      BY <1>22, <2>1 DEF Charging
    <3>2. charge'[j.id] # Void /\ charge'[j.id].key = j.key
      BY <1>4, <1>9, <1>16, <3>1
    <3> QED BY <1>1, <3>1, <3>2 DEF Charging
  <2> QED BY <2>1
<1>25. \A q : OneReq(q) => OneReq(q)'
  BY <1>1, <1>23, <1>24 DEF OneReq
<1>26. \A u : OneWire(u) => OneWire(u)'
  BY <1>1, <1>23, <1>24 DEF OneWire
<1> QED BY <1>2, <1>3, <1>16, <1>18, <1>19, <1>21, <1>23, <1>24, <1>25, <1>26

\* Clients, where ids and the clock are kept, and transactions leave the wire at most.
LEMMA ClientsFollow ==
  ASSUME WinInv, UNCHANGED <<req, seq>>, wire' \subseteq wire,
         \A q : OneReq(q) => OneReq(q)',
         \A u : OneWire(u) => OneWire(u)'
  PROVE  ClientTypes' /\ SeqCounted' /\ ReqSound' /\ WireSound'
<1>1. ClientTypes /\ SeqCounted /\ ReqSound /\ WireSound
  BY DEF WinInv
<1>2. SeqCounted'
  BY <1>1 DEF SeqCounted, Drawn
<1>3. ReqSound'
  <2>1. ASSUME NEW s \in Requests PROVE OneReq(req[s])'
    <3>1. PICK p : p = req[s]
      OBVIOUS
    <3>2. OneReq(p)'
      BY <1>1, <3>1 DEF ReqSound
    <3> QED BY <3>1, <3>2 DEF OneReq, NotYet, Charging
  <2> QED BY <1>1, <2>1 DEF ReqSound
<1>4. \A t \in wire' : OneWire(t)'
  BY <1>1 DEF WireSound
<1>5. WireSound'
  BY <1>1, <1>4 DEF WireSound
<1>6. ClientTypes'
  BY <1>1 DEF ClientTypes, ReqType, Going, WinAdmits, WinSettles
<1> QED BY <1>2, <1>3, <1>5, <1>6

\* An EXEC of a worker that applies.
LEMMA WinWorkerApply ==
  ASSUME WinInv, NEW g \in Gateways, WorkerExec(g), Live(worker[g].job.id)
  PROVE  WinInv'
<1>1. PICK t : t = SettleTx(g)
  OBVIOUS
<1>2. worker[g].pc \in {"read", "exec"}
  BY DEF WorkerExec
<1>3. t \in WinSettles /\ OneWire(t) /\ t.id = worker[g].job.id /\ t.kind = "settle"
  BY <1>1, <1>2, SettleTxFacts
<1>4. /\ Charging(t) /\ Live(t.id) /\ RunSettle(t) /\ Report(g, "applied")
      /\ UNCHANGED <<now, seq, req, queue, wire>>
  BY <1>1, <1>3 DEF WorkerExec, OneWire
<1>5. /\ outcome' \in [Ids -> Reports] /\ worker' = [worker EXCEPT ![g] = Idle]
      /\ \A i \in Ids : i # t.id => outcome'[i] = outcome[i]
  BY <1>2, <1>3, <1>4, ReportFacts DEF Reports
<1>6. JobsNext
  BY <1>4, <1>5, OneWorker
<1>7. /\ ServerTypes' /\ ClockSound' /\ ChargesSound' /\ CountersSound'
      /\ \A j : Charging(j) => Charging(j)'
      /\ \A q : OneReq(q) => OneReq(q)'
      /\ \A u : OneWire(u) => OneWire(u)'
  BY <1>3, <1>4, <1>5, SettleServer
<1>8. WorkerTypes' /\ JobsSound'
  BY <1>5, <1>6, <1>7, JobsFollow
<1>9. ClientTypes' /\ SeqCounted' /\ ReqSound' /\ WireSound'
  BY <1>4, <1>7, ClientsFollow
<1> QED BY <1>7, <1>8, <1>9 DEF WinInv

\* A settlement that was given up on runs after all.
LEMMA WinLateSettle ==
  ASSUME WinInv, NEW t \in wire, LateRun(t), t.kind = "settle"
  PROVE  WinInv'
<1>1. ClientTypes /\ WireSound /\ WorkerTypes /\ SeqCounted
  BY DEF WinInv
<1>2. t \in WinSettles /\ OneWire(t) /\ Charging(t)
  BY <1>1 DEF ClientTypes, WireSound, WinAdmits, OneWire
<1>3. /\ RunSettle(t) /\ wire' = wire \ {t}
      /\ UNCHANGED <<now, seq, req, outcome, queue, worker>>
  BY DEF LateRun
<1>4. JobsNext /\ outcome' \in [Ids -> Reports] /\ wire' \subseteq wire
  BY <1>1, <1>3, JobsStay DEF WorkerTypes
<1>5. /\ ServerTypes' /\ ClockSound' /\ ChargesSound' /\ CountersSound'
      /\ \A j : Charging(j) => Charging(j)'
      /\ \A q : OneReq(q) => OneReq(q)'
      /\ \A u : OneWire(u) => OneWire(u)'
  <2>1. CASE Live(t.id)
    BY <1>2, <1>3, <2>1, SettleServer
  <2>2. CASE ~Live(t.id)
    <3>1. Quiet
      BY <1>1, <1>3, <2>2 DEF Quiet, RunSettle, server, SeqCounted
    <3> QED BY <3>1, QuietServer
  <2> QED BY <2>1, <2>2
<1>6. WorkerTypes' /\ JobsSound'
  BY <1>4, <1>5, JobsFollow
<1>7. ClientTypes' /\ SeqCounted' /\ ReqSound' /\ WireSound'
  BY <1>3, <1>4, <1>5, ClientsFollow
<1> QED BY <1>5, <1>6, <1>7 DEF WinInv

-----------------------------------------------------------------------------
(* The window: the clock                                                   *)

\* The start of the window moves forward with the clock.
LEMMA OldestMoves ==
  ASSUME now \in Nat, now' = now + 1
  PROVE  /\ Oldest \in Nat /\ Oldest' \in Nat /\ Oldest <= Oldest'
         /\ \A a \in Nat : a + Ttl <= now + 1 => Bucket(a) < Oldest'
<1>1. PICK x \in Nat : x = IF now > Window THEN now - Window ELSE 0
  BY WinConstants
<1>2. PICK y \in Nat : y = IF now' > Window THEN now' - Window ELSE 0
  <2>1. PICK m \in Nat : m = now'
    OBVIOUS
  <2>2. (IF m > Window THEN m - Window ELSE 0) \in Nat
    BY WinConstants
  <2> QED BY <2>1, <2>2
<1>3. Oldest = Bucket(x) /\ Oldest' = Bucket(y)
  BY <1>1, <1>2 DEF Oldest, Bucket
<1>4. x <= y
  BY <1>1, <1>2, WinConstants
<1>5. ASSUME NEW a \in Nat, a + Ttl <= now + 1 PROVE Bucket(a) < Bucket(y)
  <2>1. a + Width <= y
    BY <1>2, <1>5, WinConstants
  <2> QED BY <2>1, BucketFacts
<1> QED BY <1>3, <1>4, <1>5, BucketFacts

\* A counter expires only after the window has left it, or with nothing charged to it.
LEMMA TickCounters ==
  ASSUME WinInv, Tick
  PROVE  CountersSound' /\ usage' \in [Keys -> [Buckets -> [n : Int, until : Nat]]]
<1>1. /\ ServerTypes /\ CountersSound /\ charge \in Ledgers /\ charge' = charge
      /\ now \in Nat /\ now' = now + 1
  BY DEF WinInv, Tick, ServerTypes, ClockSound
<1>2. usage \in [Keys -> [Buckets -> [n : Int, until : Nat]]]
  BY <1>1 DEF ServerTypes
<1>3. /\ usage' \in [Keys -> [Buckets -> [n : Int, until : Nat]]]
      /\ \A k \in Keys, b \in Buckets :
           usage'[k][b] = IF usage[k][b].until <= now' THEN [n |-> 0, until |-> 0]
                          ELSE usage[k][b]
  <2>1. [n |-> 0, until |-> 0] \in [n : Int, until : Nat]
    OBVIOUS
  <2> QED BY <1>2, <2>1 DEF Tick
<1>4. ASSUME NEW k \in Keys, NEW b \in Buckets, Oldest' <= b PROVE OneCounter(k, b)'
  <2>1. b \in Nat
    BY WinConstants DEF Buckets
  <2>2. OneCounter(k, b)
    <3>1. Oldest <= b
      BY <1>1, <1>4, <2>1, OldestMoves
    <3> QED BY <1>1, <3>1 DEF CountersSound
  <2>3. CASE usage[k][b].until <= now'
    <3>1. Payers(charge, k, b) = {}
      <4>1. SUFFICES ASSUME NEW i \in Payers(charge, k, b) PROVE FALSE
        OBVIOUS
      <4>2. charge[i] \in Paid /\ Bucket(charge[i].at) = b
        BY <1>1, BillFacts DEF Payers
      <4>3. PICK a \in Nat : a = charge[i].at
        BY <4>2 DEF Paid
      <4>4. usage[k][b].until \in Nat
        BY <1>2
      <4>5. a + Ttl <= usage[k][b].until
        BY <2>2, <4>3 DEF OneCounter
      <4>6. a + Ttl <= now + 1
        BY <1>1, <2>3, <4>4, <4>5, WinConstants
      <4>7. Bucket(a) < Oldest' /\ Oldest' \in Nat
        BY <1>1, <4>6, OldestMoves
      <4> QED BY <1>4, <2>1, <4>2, <4>3, <4>7
    <3>2. Bill(charge, k, b) = 0
      BY <1>1, <3>1, BillFacts
    <3>3. usage'[k][b].n = 0
      BY <1>3, <2>3
    <3> QED BY <1>1, <3>1, <3>2, <3>3, CounterPrime
  <2>4. CASE ~(usage[k][b].until <= now')
    <3>1. usage'[k][b] = usage[k][b]
      BY <1>3, <2>4
    <3> QED BY <1>1, <2>2, <3>1, CounterPrime DEF OneCounter
  <2> QED BY <2>3, <2>4
<1>5. CountersSound'
  <2>1. Buckets' = Buckets
    BY DEF Buckets
  <2> QED BY <1>4, <2>1 DEF CountersSound
<1> QED BY <1>3, <1>5

\* Time passes.
LEMMA WinTick ==
  ASSUME WinInv, Tick
  PROVE  WinInv'
<1>1. /\ ServerTypes /\ ClockSound /\ ChargesSound /\ WorkerTypes /\ charge \in Ledgers
      /\ now \in Nat /\ now' = now + 1 /\ now < MaxTime
      /\ UNCHANGED <<active, retained, charge, seq, req, queue, worker, wire, outcome>>
  BY DEF WinInv, Tick, ServerTypes, ClockSound
<1>2. ClockSound'
  BY <1>1, WinConstants DEF ClockSound
<1>3. /\ resv' \in [Ids -> Held \cup {Void}]
      /\ \A i \in Ids : resv'[i] = resv[i] \/ resv'[i] = Void
  <2>1. resv \in [Ids -> Held \cup {Void}]
    BY <1>1 DEF ServerTypes
  <2>2. resv' = [i \in Ids |-> IF resv[i].until <= now' THEN Void ELSE resv[i]]
    BY DEF Tick
  <2> QED BY <2>1, <2>2
<1>4. ServerTypes'
  BY <1>1, <1>3, TickCounters DEF ServerTypes, Ledgers
<1>5. ASSUME NEW i \in Ids PROVE OneCharge(i)'
  <2>1. OneCharge(i) /\ (charge[i] # Void => charge[i].at \in Nat)
    BY <1>1 DEF ChargesSound, Ledgers, Paid
  <2>2. charge[i] # Void => i <= seq /\ charge[i].at <= now'
    BY <1>1, <2>1 DEF OneCharge
  <2>3. ASSUME resv'[i] # Void
        PROVE  /\ charge[i] # Void /\ resv'[i].key = charge[i].key /\ resv'[i].at = charge[i].at
               /\ resv'[i].est = charge[i].est /\ charge[i].amount = charge[i].est
               /\ charge[i].at + Timeout > now' =>
                    [id |-> i, deadline |-> charge[i].at + Timeout] \in active
    <3>1. resv'[i] = resv[i]
      BY <1>3, <2>3
    <3>2. charge[i].at \in Nat
      BY <2>1, <2>3, <3>1 DEF OneCharge
    <3>3. charge[i].at + Timeout > now' => charge[i].at + Timeout > now
      BY <1>1, <3>2, WinConstants
    <3> QED BY <2>1, <2>3, <3>1, <3>3 DEF OneCharge
  <2>4. outcome[i] \in {"applied", "noop"} => charge[i] # Void /\ resv'[i] = Void
    BY <1>3, <2>1 DEF OneCharge
  <2> QED BY <1>1, <2>2, <2>3, <2>4 DEF OneCharge
<1>6. ChargesSound'
  <2>1. Ids' = Ids
    BY DEF Ids
  <2> QED BY <1>5, <2>1 DEF ChargesSound
<1>7. (\A i : NotYet(i) => NotYet(i)') /\ (\A j : Charging(j) => Charging(j)')
  BY <1>1 DEF NotYet, Charging
<1>8. ClientTypes' /\ SeqCounted' /\ ReqSound' /\ WireSound'
  <2>1. ClientTypes /\ SeqCounted /\ ReqSound /\ WireSound
    BY DEF WinInv
  <2>2. ClientTypes'
    BY <1>1, <2>1 DEF ClientTypes, ReqType, Going, WinAdmits, WinSettles
  <2>3. SeqCounted'
    BY <1>1, <2>1 DEF SeqCounted, Drawn
  <2>4. ASSUME NEW s \in Requests PROVE OneReq(req[s])'
    <3>1. PICK p : p = req[s]
      OBVIOUS
    <3>2. OneReq(p) /\ ReqType(p)
      BY <2>1, <3>1 DEF ReqSound, ClientTypes
    <3>3. p.pc \in {"read", "draw", "commit", "admitted"} => p.at <= now'
      BY <1>1, <3>2 DEF OneReq, ReqType, Going
    <3>4. OneReq(p)'
      BY <1>7, <3>2, <3>3 DEF OneReq
    <3> QED BY <1>1, <3>1, <3>4 DEF OneReq, NotYet, Charging
  <2>5. ReqSound'
    BY <1>1, <2>1, <2>4 DEF ReqSound
  <2>6. \A t \in wire : OneWire(t)'
    <3>1. ASSUME NEW t \in wire PROVE OneWire(t)'
      <4>1. OneWire(t) /\ t.at \in Nat
        BY <2>1 DEF WireSound, ClientTypes, WinAdmits, WinSettles
      <4>2. t.at <= now => t.at <= now'
        BY <1>1, <4>1
      <4> QED BY <1>7, <4>1, <4>2 DEF OneWire
    <3> QED BY <3>1
  <2>7. WireSound'
    BY <1>1, <2>1, <2>6 DEF WireSound
  <2> QED BY <2>2, <2>3, <2>5, <2>7
<1>9. WorkerTypes' /\ JobsSound'
  <2>1. JobsNext /\ outcome' \in [Ids -> Reports]
    BY <1>1, JobsStay DEF WorkerTypes
  <2> QED BY <1>7, <2>1, JobsFollow
<1> QED BY <1>2, <1>4, <1>6, <1>8, <1>9, TickCounters DEF WinInv

-----------------------------------------------------------------------------
(* The window: theorems                                                    *)

\* The invariant holds of a server that has counted nothing.
LEMMA WinInitially ==
  ASSUME Init
  PROVE  WinInv
<1>1. /\ now = 0 /\ resv = [i \in Ids |-> Void] /\ active = {} /\ seq = 0
      /\ usage = [k \in Keys |-> [b \in Buckets |-> [n |-> 0, until |-> 0]]]
      /\ req = [r \in Requests |-> Idle] /\ queue = [g \in Gateways |-> <<>>]
      /\ worker = [g \in Gateways |-> Idle] /\ wire = {}
      /\ charge = [i \in Ids |-> Void] /\ outcome = [i \in Ids |-> "none"]
  BY DEF Init
<1>2. charge \in Ledgers
  BY <1>1 DEF Ledgers
<1>3. ServerTypes
  <2>1. [n |-> 0, until |-> 0] \in [n : Int, until : Nat]
    OBVIOUS
  <2> QED BY <1>1, <1>2, <2>1 DEF ServerTypes
<1>4. Idle.pc = "idle"
  BY DEF Idle
<1>5. ClientTypes
  BY <1>1, <1>4 DEF ClientTypes, ReqType
<1>6. WorkerTypes
  <2>1. <<>> \in Seq(Jobs) /\ "none" \in Reports
    BY DEF Reports
  <2> QED BY <1>1, <2>1 DEF WorkerTypes
<1>7. SeqCounted
  <2>1. Drawn = {}
    BY <1>1, <1>4 DEF Drawn
  <2> QED BY <1>1, <2>1, FS_EmptySet DEF SeqCounted
<1>8. ClockSound
  BY <1>1, WinConstants DEF ClockSound
<1>9. ReqSound /\ WireSound
  BY <1>1, <1>4 DEF ReqSound, WireSound, OneReq
<1>10. JobsSound
  <2>1. \A g \in Gateways : Len(queue[g]) = 0 /\ worker[g] = Idle
    BY <1>1
  <2> QED BY <2>1 DEF JobsSound
<1>11. ChargesSound
  BY <1>1 DEF ChargesSound, OneCharge
<1>12. CountersSound
  <2>1. ASSUME NEW k \in Keys, NEW b \in Buckets PROVE OneCounter(k, b)
    <3>1. Payers(charge, k, b) = {}
      BY <1>1 DEF Payers
    <3>2. Bill(charge, k, b) = 0
      BY <1>2, <3>1, BillFacts
    <3>3. usage[k][b].n = 0
      BY <1>1
    <3> QED BY <3>1, <3>2, <3>3 DEF OneCounter
  <2> QED BY <2>1 DEF CountersSound
<1> QED BY <1>3, <1>5, <1>6, <1>7, <1>8, <1>9, <1>10, <1>11, <1>12 DEF WinInv

\* Every step keeps the invariant.
LEMMA WinKept == WinInv /\ [Next]_vars => WinInv'
<1> SUFFICES ASSUME WinInv, [Next]_vars PROVE WinInv'
  OBVIOUS
<1>1. ASSUME NEW r \in Requests, Begin(r) \/ ReadWindow(r) \/ DrawId(r) \/ Commit(r)
                                 \/ RequestFails(r) \/ Finish(r)
      PROVE  WinInv'
  BY <1>1, WinBegin, WinRead, WinDraw, WinCommit, WinFails, WinFinish
<1>2. ASSUME NEW g \in Gateways, WorkerStep(g) PROVE WinInv'
  <2>1. ASSUME WorkerExec(g) PROVE WinInv'
    BY <2>1, WinWorkerAbort, WinWorkerApply
  <2> QED BY <1>2, <2>1, WinTake, WinWorkerRead, WinWorkerFails DEF WorkerStep
<1>3. ASSUME NEW g \in Gateways, Crash(g) PROVE WinInv'
  BY <1>3, WinCrash
<1>4. ASSUME NEW t \in wire, LateRun(t) PROVE WinInv'
  <2>1. t.kind = "admit" \/ t.kind = "settle"
    BY <1>4 DEF LateRun
  <2> QED BY <1>4, <2>1, WinLateAdmit, WinLateSettle
<1>5. CASE Tick
  BY <1>5, WinTick
<1>6. CASE UNCHANGED vars
  <2>1. UNCHANGED <<now, usage, resv, active, charge, seq, req, queue, worker, wire, outcome>>
    BY <1>6 DEF vars, server
  <2>2. ServerTypes /\ WorkerTypes /\ SeqCounted
    BY DEF WinInv
  <2>3. Quiet
    BY <2>1, <2>2 DEF Quiet, SeqCounted
  <2>4. JobsNext
    BY <2>1, JobsStay
  <2> QED BY <2>1, <2>2, <2>3, <2>4, WorkerInv DEF WorkerTypes
<1> QED BY <1>1, <1>2, <1>3, <1>4, <1>5, <1>6 DEF Next

\* The invariant says what the server counts.
LEMMA WinExact == WinInv => CountersExact /\ OpenReservationsCounted
<1> SUFFICES ASSUME WinInv PROVE CountersExact /\ OpenReservationsCounted
  OBVIOUS
<1>1. ClockSound /\ CountersSound /\ ChargesSound /\ now \in Nat /\ MaxTime \in Nat
  BY WinConstants DEF WinInv, ClockSound
<1>2. ASSUME NEW k \in Keys, NEW b \in Covering(now)
      PROVE  Counter(k, b) = Spent({i \in Of(k) : Bucket(charge[i].at) = b})
  <2>1. PICK x \in Nat : x = IF now > Window THEN now - Window ELSE 0
    BY <1>1, WinConstants
  <2>2. Bucket(x) \in Nat /\ Bucket(now) \in Nat
    BY <1>1, BucketFacts
  <2>3. Covering(now) = Bucket(x)..Bucket(now) /\ Oldest = Bucket(x)
    BY <2>1 DEF Covering, Oldest
  <2>4. b \in Nat /\ Oldest <= b /\ b <= Bucket(now)
    BY <1>2, <2>2, <2>3
  <2>5. Bucket(now) \in Buckets
    BY <1>1, BucketKept
  <2>6. MaxTime \div Width \in Int
    BY WinConstants
  <2>7. b \in Buckets
    BY <2>2, <2>4, <2>5, <2>6 DEF Buckets
  <2>8. OneCounter(k, b)
    BY <1>1, <2>4, <2>7 DEF CountersSound
  <2>9. {i \in Of(k) : Bucket(charge[i].at) = b} = Payers(charge, k, b)
    BY <1>2 DEF Of, InWindow, Charged, Payers
  <2> QED BY <2>8, <2>9 DEF OneCounter, Counter, Bill, Spent
<1>3. CountersExact
  BY <1>2 DEF CountersExact
<1>4. OpenReservationsCounted
  <2>1. ASSUME NEW i \in Ids, Live(i), charge[i].at + Timeout > now
        PROVE  \E a \in active : a.id = i
    <3>1. OneCharge(i)
      BY <1>1 DEF ChargesSound
    <3>2. [id |-> i, deadline |-> charge[i].at + Timeout] \in active
      BY <2>1, <3>1 DEF OneCharge, Live
    <3> QED BY <3>2
  <2> QED BY <2>1 DEF OpenReservationsCounted
<1> QED BY <1>3, <1>4

\* Every step leaves what was reported charged as it is.
LEMMA ReportedKept ==
  ASSUME WinInv, [Next]_vars, NEW i \in Ids, outcome[i] \in {"applied", "noop"}
  PROVE  charge'[i] = charge[i]
<1>1. OneCharge(i) /\ charge[i] # Void /\ resv[i] = Void
  BY DEF WinInv, ChargesSound, OneCharge
<1>2. ASSUME NEW t \in WinAdmits, OneWire(t), RunAdmit(t), UNCHANGED <<now, seq, outcome>>
      PROVE  charge'[i] = charge[i]
  <2>1. t.id # i
    BY <1>1, <1>2 DEF OneWire, NotYet, WinAdmits
  <2> QED BY <1>2, <2>1, AdmitServer
<1>3. ASSUME NEW t, RunSettle(t) PROVE charge'[i] = charge[i]
  <2>1. CASE Live(t.id)
    <3>1. t.id # i
      BY <1>1, <2>1 DEF Live
    <3>2. charge' = [charge EXCEPT ![t.id].amount = t.actual] /\ charge \in Ledgers
      BY <1>3, <2>1 DEF RunSettle, WinInv, ServerTypes
    <3> QED BY <3>1, <3>2 DEF Ledgers
  <2>2. CASE ~Live(t.id)
    BY <1>3, <2>2 DEF RunSettle, server
  <2> QED BY <2>1, <2>2
<1>4. ASSUME NEW r \in Requests, Commit(r) PROVE charge'[i] = charge[i]
  <2>1. ClientTypes /\ ReqSound
    BY DEF WinInv
  <2>2. req[r] \in Going /\ req[r].pc = "commit" /\ OneReq(req[r])
    BY <1>4, <2>1 DEF Commit, ClientTypes, ReqType, ReqSound
  <2>3. PICK t : t = AdmitTx(r)
    OBVIOUS
  <2>4. t \in WinAdmits /\ t.kind = "admit" /\ t.id = req[r].id /\ t.at = req[r].at
    BY <2>2, <2>3 DEF AdmitTx, WinAdmits, Going
  <2>5. OneWire(t)
    BY <2>2, <2>4 DEF OneWire, OneReq
  <2>6. RunAdmit(t) /\ UNCHANGED <<now, seq, outcome>>
    BY <1>4, <2>3 DEF Commit
  <2> QED BY <1>2, <2>4, <2>5, <2>6
<1>5. ASSUME NEW t \in wire, LateRun(t) PROVE charge'[i] = charge[i]
  <2>1. CASE t.kind = "admit" /\ RunAdmit(t)
    <3>1. t \in WinAdmits /\ OneWire(t)
      BY <2>1 DEF WinInv, ClientTypes, WireSound, WinSettles
    <3>2. UNCHANGED <<now, seq, outcome>>
      BY <1>5 DEF LateRun
    <3> QED BY <1>2, <2>1, <3>1, <3>2
  <2>2. CASE RunSettle(t)
    BY <1>3, <2>2
  <2> QED BY <1>5, <2>1, <2>2 DEF LateRun
<1>6. ASSUME NEW g \in Gateways, WorkerExec(g) PROVE charge'[i] = charge[i]
  BY <1>3, <1>6 DEF WorkerExec
<1>7. ASSUME NEW r \in Requests, Begin(r) \/ ReadWindow(r) \/ DrawId(r) \/ RequestFails(r) \/ Finish(r)
      PROVE  charge' = charge
  BY <1>7 DEF Begin, ReadWindow, DrawId, RequestFails, Finish, server
<1>8. ASSUME NEW g \in Gateways, WorkerTake(g) \/ WorkerRead(g) \/ WorkerFails(g) \/ Crash(g)
      PROVE  charge' = charge
  BY <1>8 DEF WorkerTake, WorkerRead, WorkerFails, Crash, server
<1>9. ASSUME Tick \/ UNCHANGED vars PROVE charge' = charge
  BY <1>9 DEF Tick, vars, server
<1> QED BY <1>4, <1>5, <1>6, <1>7, <1>8, <1>9 DEF Next, WorkerStep

\* What a worker reported of a window reservation is final: no late, repeated or
\* racing transaction changes what it is charged.
THEOREM WindowReportsFinal == Spec => ReportedIsFinal
<1>1. Init => WinInv
  BY WinInitially
<1>2. WinInv /\ [Next]_vars => WinInv'
  BY WinKept
<1>3. WinInv /\ [Next]_vars
        => [\A i \in Ids : outcome[i] \in {"applied", "noop"} => charge'[i] = charge[i]]_vars
  BY ReportedKept
<1> QED BY <1>1, <1>2, <1>3, PTL DEF Spec, ReportedIsFinal

-----------------------------------------------------------------------------
(* The window: what races cannot pass                                      *)

\* The part of a charge that no race and no surprise explains.
FirmOf(c) == IF c.raced THEN 0 ELSE IF c.amount < c.est THEN c.amount ELSE c.est

InTime(ch, n, k) == {i \in Ids : ch[i] # Void /\ Bucket(ch[i].at) \in Covering(n) /\ ch[i].key = k}
FirmSum(ch, n, k) == SumFunctionOnSet([i \in InTime(ch, n, k) |-> FirmOf(ch[i])], InTime(ch, n, k))
FirmOpen(rs, ch, n) == {i \in Ids : rs[i] # Void /\ ch[i].at + Timeout > n /\ ~ch[i].raced}

\* There is room for an admission that was decided on and has not raced.
Room(p) == /\ FirmSum(charge, now, p.key) + p.est <= Capacity
           /\ Cardinality(FirmOpen(resv, charge, now)) + 1 <= MaxActive
Waits(q) ==
  /\ q.pc \in {"read", "draw", "commit"} /\ ~q.raced =>
       \A i \in Ids : charge[i] # Void => charge[i].at <= q.at
  /\ q.pc \in {"draw", "commit"} /\ ~q.raced => Room(q)
WaitsWire(t) == t.kind = "admit" /\ ~t.raced => Room(t)

RaceInv ==
  /\ IsFiniteSet(active)
  /\ \A k \in Keys : FirmSum(charge, now, k) <= Capacity
  /\ Cardinality(FirmOpen(resv, charge, now)) <= MaxActive
  /\ \A s \in Requests : Waits(req[s])
  /\ \A t \in wire : WaitsWire(t)

\* The firm part of a charge is a number, and no more than the charge.
LEMMA FirmFacts ==
  ASSUME NEW ch \in Ledgers, NEW n, NEW k
  PROVE  /\ IsFiniteSet(InTime(ch, n, k)) /\ FirmSum(ch, n, k) \in Nat
         /\ \A i \in InTime(ch, n, k) : /\ i \in Ids /\ ch[i] \in Paid
                                        /\ FirmOf(ch[i]) \in Nat /\ FirmOf(ch[i]) <= ch[i].amount
<1>1. PICK A : A = InTime(ch, n, k)
  OBVIOUS
<1>2. PICK f : f = [i \in A |-> FirmOf(ch[i])]
  OBVIOUS
<1>3. A \subseteq Ids /\ \A i \in A : ch[i] \in Paid
  BY <1>1 DEF InTime, Ledgers
<1>4. IsFiniteSet(A)
  <2>1. IsFiniteSet(1..Cardinality(Requests))
    BY WinConstants, FS_Interval
  <2> QED BY <1>3, <2>1, FS_Subset DEF Ids
<1>5. \A c \in Paid : FirmOf(c) \in Nat /\ FirmOf(c) <= c.amount
  BY DEF FirmOf, Paid
<1>6. \A i \in A : f[i] \in Nat
  BY <1>2, <1>3, <1>5
<1>7. SumFunctionOnSet(f, A) \in Nat
  BY <1>4, <1>6, SumType
<1> QED BY <1>1, <1>2, <1>3, <1>4, <1>5, <1>7 DEF FirmSum

\* Open reservations are finitely many.
LEMMA FirmOpenFacts ==
  ASSUME NEW rs, NEW ch, NEW n
  PROVE  IsFiniteSet(FirmOpen(rs, ch, n)) /\ Cardinality(FirmOpen(rs, ch, n)) \in Nat
<1>1. IsFiniteSet(1..Cardinality(Requests))
  BY WinConstants, FS_Interval
<1>2. FirmOpen(rs, ch, n) \subseteq 1..Cardinality(Requests)
  BY DEF FirmOpen, Ids
<1> QED BY <1>1, <1>2, FS_Subset, FS_CardinalityType

\* Numbers of the limits.
LEMMA LimitConstants == Capacity \in Nat /\ MaxActive \in Nat
  BY ValkeyWindowAssumption

\* Nothing new is charged: time passes, reservations go, charges come out lower.
Eases ==
  /\ now' = now \/ now' = now + 1
  /\ \A i \in Ids :
       /\ charge'[i] # Void => /\ charge[i] # Void /\ charge'[i].key = charge[i].key
                               /\ charge'[i].at = charge[i].at
                               /\ charge'[i].raced = charge[i].raced
                               /\ FirmOf(charge'[i]) <= FirmOf(charge[i])
       /\ resv'[i] # Void => resv[i] # Void

\* What is in the window later was in it, if nothing new is charged.
LEMMA CoveringMoves ==
  ASSUME now \in Nat, now' = now \/ now' = now + 1, NEW a \in Nat, a <= now,
         Bucket(a) \in Covering(now')
  PROVE  Bucket(a) \in Covering(now)
<1>1. PICK x \in Nat : x = IF now > Window THEN now - Window ELSE 0
  BY WinConstants
<1>2. PICK m \in Nat : m = now'
  OBVIOUS
<1>3. PICK y \in Nat : y = IF m > Window THEN m - Window ELSE 0
  <2>1. (IF m > Window THEN m - Window ELSE 0) \in Nat
    BY ONLY m \in Nat, WinConstants
  <2> QED BY <2>1
<1>4. /\ Covering(now) = Bucket(x)..Bucket(now) /\ Covering(m) = Bucket(y)..Bucket(m)
  BY <1>1, <1>3 DEF Covering
<1>5. x <= y
  <2>1. m = now \/ m = now + 1
    BY <1>2
  <2> QED BY ONLY <1>1, <1>3, <2>1, now \in Nat, m \in Nat, x \in Nat, y \in Nat, WinConstants
<1>6. /\ Bucket(x) \in Nat /\ Bucket(y) \in Nat /\ Bucket(a) \in Nat /\ Bucket(m) \in Nat
      /\ Bucket(now) \in Nat /\ Bucket(x) <= Bucket(y) /\ Bucket(a) <= Bucket(now)
  BY <1>2, <1>5, BucketFacts
<1>7. Bucket(a) \in Covering(m)
  BY <1>2
<1> QED BY <1>4, <1>6, <1>7

\* Then every sum comes out lower, and what had room has room.
LEMMA Eased ==
  ASSUME WinInv, WinInv', Eases
  PROVE  /\ \A k \in Keys : FirmSum(charge', now', k) <= FirmSum(charge, now, k)
         /\ Cardinality(FirmOpen(resv', charge', now')) <= Cardinality(FirmOpen(resv, charge, now))
         /\ \A p : p.est \in Nat /\ Room(p) /\ p.key \in Keys => Room(p)'
<1>1. /\ charge \in Ledgers /\ charge' \in Ledgers /\ now \in Nat /\ now' \in Nat /\ now <= now'
      /\ ChargesSound /\ ChargesSound'
  BY DEF WinInv, ServerTypes, ClockSound, Eases, Ledgers
<1>2. PICK ch : ch = charge'
  OBVIOUS
<1>3. ASSUME NEW k \in Keys PROVE FirmSum(ch, now', k) <= FirmSum(charge, now, k)
  <2>1. PICK A : A = InTime(ch, now', k)
    OBVIOUS
  <2>2. PICK B : B = InTime(charge, now, k)
    OBVIOUS
  <2>3. PICK f : f = [i \in A |-> FirmOf(ch[i])]
    OBVIOUS
  <2>4. PICK g : g = [i \in B |-> FirmOf(charge[i])]
    OBVIOUS
  <2>5. /\ FirmSum(ch, now', k) = SumFunctionOnSet(f, A)
        /\ FirmSum(charge, now, k) = SumFunctionOnSet(g, B)
    BY <2>1, <2>2, <2>3, <2>4 DEF FirmSum
  <2>6. A \subseteq B
    <3>1. ASSUME NEW i \in A PROVE i \in B
      <4>1. i \in Ids /\ ch[i] # Void /\ ch[i].key = k /\ Bucket(ch[i].at) \in Covering(now')
        BY <2>1 DEF InTime
      <4>2. charge[i] # Void /\ charge[i].key = k /\ charge[i].at = ch[i].at
        BY <1>2, <4>1 DEF Eases
      <4>3. PICK a \in Nat : a = charge[i].at
        BY <1>1, <4>1, <4>2 DEF Ledgers, Paid
      <4>4. a <= now
        BY <1>1, <4>1, <4>2, <4>3 DEF ChargesSound, OneCharge
      <4>5. Bucket(a) \in Covering(now)
        BY <1>1, <4>1, <4>2, <4>3, <4>4, CoveringMoves DEF Eases
      <4> QED BY <2>2, <4>1, <4>2, <4>3, <4>5 DEF InTime
    <3> QED BY <3>1
  <2>7. /\ IsFiniteSet(A) /\ IsFiniteSet(B)
        /\ \A i \in B : g[i] = FirmOf(charge[i]) /\ g[i] \in Nat
        /\ \A i \in A : f[i] = FirmOf(ch[i]) /\ f[i] \in Nat /\ i \in Ids /\ ch[i] # Void
    <3>1. /\ IsFiniteSet(B)
          /\ \A i \in B : FirmOf(charge[i]) \in Nat
      BY <1>1, <2>2, FirmFacts
    <3>2. /\ IsFiniteSet(A) /\ ch \in Ledgers
          /\ \A i \in A : i \in Ids /\ FirmOf(ch[i]) \in Nat
      BY <1>1, <1>2, <2>1, FirmFacts
    <3>3. \A i \in A : ch[i] # Void
      BY <2>1 DEF InTime
    <3>4. \A i \in B : g[i] = FirmOf(charge[i])
      BY <2>4
    <3>5. \A i \in A : f[i] = FirmOf(ch[i])
      BY <2>3
    <3> QED BY <3>1, <3>2, <3>3, <3>4, <3>5
  <2>8. \A i \in A : f[i] \in Nat /\ g[i] \in Nat /\ f[i] <= g[i]
    BY <1>2, <2>6, <2>7 DEF Eases
  <2>9. SumFunctionOnSet(f, A) <= SumFunctionOnSet(g, A)
    BY <2>7, <2>8, SumCompare
  <2>10. /\ SumFunctionOnSet(g, A) \in Nat /\ SumFunctionOnSet(g, B) \in Nat
         /\ SumFunctionOnSet(g, A) <= SumFunctionOnSet(g, B)
    BY <2>6, <2>7, SumPart
  <2>11. SumFunctionOnSet(f, A) \in Nat
    BY <2>7, SumType
  <2> QED BY <2>5, <2>9, <2>10, <2>11
<1>4. PICK V : V = FirmOpen(resv', charge', now')
  OBVIOUS
<1>5. PICK U : U = FirmOpen(resv, charge, now)
  OBVIOUS
<1>6. V \subseteq U
  <2>1. ASSUME NEW i \in V PROVE i \in U
    <3>1. i \in Ids /\ resv'[i] # Void /\ charge'[i].at + Timeout > now' /\ ~charge'[i].raced
      BY <1>4 DEF FirmOpen
    <3>2. resv[i] # Void
      BY <3>1 DEF Eases
    <3>3. charge'[i] # Void
      <4>1. ChargesSound' /\ Ids' = Ids
        BY <1>1 DEF Ids
      <4>2. OneCharge(i)'
        BY <3>1, <4>1 DEF ChargesSound
      <4> QED BY <3>1, <4>2 DEF OneCharge, Void
    <3>4. charge[i] # Void /\ charge'[i].at = charge[i].at /\ charge'[i].raced = charge[i].raced
      BY <3>1, <3>3 DEF Eases
    <3>5. charge[i].at \in Nat
      BY <1>1, <3>1, <3>4 DEF Ledgers, Paid
    <3>6. charge[i].at + Timeout > now
      BY <1>1, <3>1, <3>4, <3>5, WinConstants
    <3> QED BY <1>5, <3>1, <3>2, <3>4, <3>6 DEF FirmOpen
  <2> QED BY <2>1
<1>7. /\ IsFiniteSet(U) /\ Cardinality(U) \in Nat /\ Cardinality(V) \in Nat
  BY <1>4, <1>5, FirmOpenFacts
<1>8. Cardinality(V) <= Cardinality(U)
  BY <1>6, <1>7, FS_Subset
<1>9. ASSUME NEW p, p.est \in Nat, Room(p), p.key \in Keys PROVE Room(p)'
  <2>1. /\ FirmSum(charge, now, p.key) + p.est <= Capacity /\ Cardinality(U) + 1 <= MaxActive
    BY <1>5, <1>9 DEF Room
  <2>2. /\ FirmSum(ch, now', p.key) \in Nat /\ FirmSum(charge, now, p.key) \in Nat
    BY <1>1, <1>2, FirmFacts
  <2>3. FirmSum(ch, now', p.key) + p.est <= Capacity
    BY <1>3, <1>9, <2>1, <2>2, LimitConstants
  <2>4. Cardinality(V) + 1 <= MaxActive
    BY <1>7, <1>8, <2>1, LimitConstants
  <2>5. Room(p)' <=> /\ FirmSum(charge', now', p.key) + p.est <= Capacity
                     /\ Cardinality(FirmOpen(resv', charge', now')) + 1 <= MaxActive
    BY DEF Room, FirmSum, FirmOpen, InTime, FirmOf, Covering, Bucket, Ids, Void
  <2> QED BY <1>2, <1>4, <2>3, <2>4, <2>5
<1> QED BY <1>2, <1>3, <1>4, <1>5, <1>8, <1>9

\* Steps that charge nothing new keep the invariant, if what they add has room.
LEMMA RaceFollows ==
  ASSUME WinInv, WinInv', RaceInv, Eases, IsFiniteSet(active'),
         \A s \in Requests : \/ req'[s] = req[s]
                             \/ req'[s].pc \notin {"read", "draw", "commit"}
                             \/ Waits(req'[s]),
         \A t \in wire' : t \in wire \/ WaitsWire(t)
  PROVE  RaceInv'
<1>1. /\ charge \in Ledgers /\ charge' \in Ledgers /\ ClientTypes /\ ClientTypes'
  BY DEF WinInv, ServerTypes, Ledgers
<1>2. /\ \A k \in Keys : FirmSum(charge', now', k) <= FirmSum(charge, now, k)
      /\ Cardinality(FirmOpen(resv', charge', now')) <= Cardinality(FirmOpen(resv, charge, now))
      /\ \A p : p.est \in Nat /\ Room(p) /\ p.key \in Keys => Room(p)'
  BY Eased
<1>3. ASSUME NEW k \in Keys PROVE FirmSum(charge', now', k) <= Capacity
  <2>1. FirmSum(charge', now', k) \in Nat /\ FirmSum(charge, now, k) \in Nat
    BY <1>1, FirmFacts
  <2>2. FirmSum(charge, now, k) <= Capacity
    BY DEF RaceInv
  <2> QED BY <1>2, <2>1, <2>2, LimitConstants
<1>4. Cardinality(FirmOpen(resv', charge', now')) <= MaxActive
  <2>1. /\ Cardinality(FirmOpen(resv', charge', now')) \in Nat
        /\ Cardinality(FirmOpen(resv, charge, now)) \in Nat
    BY FirmOpenFacts
  <2>2. Cardinality(FirmOpen(resv, charge, now)) <= MaxActive
    BY DEF RaceInv
  <2> QED BY <1>2, <2>1, <2>2, LimitConstants
<1>5. ASSUME NEW s \in Requests PROVE Waits(req[s])'
  <2>1. PICK q : q = req'[s]
    OBVIOUS
  <2>2. CASE q.pc \notin {"read", "draw", "commit"}
    <3>1. Waits(q)'
      BY <2>2 DEF Waits
    <3> QED BY <2>1, <3>1 DEF Waits, Room, FirmSum, FirmOpen, InTime, FirmOf, Covering, Bucket, Ids, Void
  <2>3. CASE q.pc \in {"read", "draw", "commit"}
    <3>1. Waits(q)
      BY <2>1, <2>3 DEF RaceInv
    <3>2. q \in Going
      <4>1. ReqType(req[s])' /\ ClientTypes'
        BY <1>1 DEF ClientTypes
      <4>2. ReqType(q)
        BY <2>1, <4>1 DEF ReqType, Going
      <4> QED BY <2>3, <4>2 DEF ReqType
    <3>3. q.est \in Nat /\ q.key \in Keys
      BY <3>2 DEF Going
    <3>4. ASSUME ~q.raced, NEW i \in Ids, charge'[i] # Void PROVE charge'[i].at <= q.at
      <4>1. charge[i] # Void /\ charge'[i].at = charge[i].at
        BY <3>4 DEF Eases
      <4> QED BY <2>3, <3>1, <3>4, <4>1 DEF Waits
    <3>5. q.pc \in {"draw", "commit"} /\ ~q.raced => Room(q)'
      BY <1>2, <3>1, <3>3 DEF Waits
    <3>6. Waits(q)'
      BY <3>4, <3>5 DEF Waits, Ids, Void
    <3> QED BY <2>1, <3>6 DEF Waits, Room, FirmSum, FirmOpen, InTime, FirmOf, Covering, Bucket, Ids, Void
  <2> QED BY <2>2, <2>3
<1>6. ASSUME NEW t \in wire' PROVE WaitsWire(t)'
  <2>1. WaitsWire(t)
    BY <1>6 DEF RaceInv
  <2>2. t \in WinAdmits \cup WinSettles
    BY <1>1 DEF ClientTypes, WinAdmits, WinSettles
  <2>3. t.kind = "admit" => t.est \in Nat /\ t.key \in Keys
    BY <2>2 DEF WinAdmits, WinSettles
  <2> QED BY <1>2, <2>1, <2>3 DEF WaitsWire
<1> QED BY <1>3, <1>4, <1>5, <1>6 DEF RaceInv, FirmSum, FirmOpen, InTime, FirmOf, Covering, Bucket, Ids, Void

\* What a decision reads is no less than what is firm: an admission has room.
LEMMA ReadRoom ==
  ASSUME WinInv, RaceInv, NEW q \in Going, q.pc = "read", q.at <= now, ~q.raced, Waits(q),
         Used([b \in Covering(q.at) |-> Counter(q.key, b)]) + q.est <= Capacity,
         ~(Cardinality(Kept(q.at)) >= MaxActive)
  PROVE  Room(q)
<1>1. /\ charge \in Ledgers /\ ServerTypes /\ CountersSound /\ ChargesSound /\ ClockSound
      /\ now \in Nat /\ MaxTime \in Nat /\ IsFiniteSet(active)
  BY WinConstants DEF WinInv, ServerTypes, ClockSound, RaceInv
<1>2. PICK k \in Keys, t \in Nat : k = q.key /\ t = q.at
  BY DEF Going
<1>3. t <= now /\ t <= MaxTime
  BY <1>1, <1>2 DEF ClockSound
<1>4. PICK x \in Nat : x = IF t > Window THEN t - Window ELSE 0
  <2>1. (IF t > Window THEN t - Window ELSE 0) \in Nat
    BY ONLY t \in Nat, WinConstants
  <2> QED BY <2>1
<1>5. PICK y \in Nat : y = IF now > Window THEN now - Window ELSE 0
  <2>1. (IF now > Window THEN now - Window ELSE 0) \in Nat
    BY ONLY <1>1, WinConstants
  <2> QED BY <2>1
<1>6. x <= y
  BY <1>1, <1>3, <1>4, <1>5, WinConstants
<1>7. PICK G : G = Covering(t)
  OBVIOUS
<1>8. /\ G = Bucket(x)..Bucket(t) /\ Covering(now) = Bucket(y)..Bucket(now) /\ Oldest = Bucket(y)
  BY <1>4, <1>5, <1>7 DEF Covering, Oldest
<1>9. /\ Bucket(x) \in Nat /\ Bucket(y) \in Nat /\ Bucket(t) \in Nat /\ Bucket(now) \in Nat
      /\ Bucket(x) <= Bucket(y)
  BY <1>1, <1>6, BucketFacts
<1>10. IsFiniteSet(G) /\ \A b \in G : b \in Nat /\ b <= Bucket(t) /\ b \in Buckets
  <2>1. Bucket(t) \in Buckets
    BY <1>1, <1>3, BucketKept
  <2>2. MaxTime \div Width \in Int
    BY WinConstants
  <2>3. IsFiniteSet(G)
    BY <1>8, <1>9, FS_Interval
  <2> QED BY <1>8, <1>9, <2>1, <2>2, <2>3 DEF Buckets
<1>11. PICK cs : cs = [b \in G |-> Counter(k, b)]
  OBVIOUS
<1>12. PICK h : h = [b \in G |-> Pos(cs[b])]
  OBVIOUS
<1>13. \A b \in G : h[b] = Pos(Counter(k, b)) /\ Counter(k, b) \in Int /\ h[b] \in Nat
  <2>1. \A b \in G : Counter(k, b) \in Int
    BY <1>1, <1>10 DEF Counter, ServerTypes
  <2> QED BY <1>11, <1>12, <2>1 DEF Pos
<1>14. Used(cs) = SumFunctionOnSet(h, G) /\ Used(cs) + q.est <= Capacity
  <2>1. DOMAIN cs = G
    BY <1>11
  <2> QED BY <1>2, <1>7, <1>11, <1>12, <2>1 DEF Used
<1>15. PICK S : S = InTime(charge, now, k)
  OBVIOUS
<1>16. PICK f : f = [i \in S |-> FirmOf(charge[i])]
  OBVIOUS
<1>17. /\ IsFiniteSet(S) /\ FirmSum(charge, now, k) = SumFunctionOnSet(f, S)
       /\ \A i \in S : /\ i \in Ids /\ charge[i] \in Paid /\ f[i] = FirmOf(charge[i])
                       /\ f[i] \in Nat /\ f[i] <= charge[i].amount
  <2>1. /\ IsFiniteSet(S)
        /\ \A i \in S : /\ i \in Ids /\ charge[i] \in Paid /\ FirmOf(charge[i]) \in Nat
                        /\ FirmOf(charge[i]) <= charge[i].amount
    BY <1>1, <1>15, FirmFacts
  <2>2. \A i \in S : f[i] = FirmOf(charge[i])
    BY <1>16
  <2> QED BY <1>15, <1>16, <2>1, <2>2 DEF FirmSum
<1>18. PICK m : m = [i \in S |-> Bucket(charge[i].at)]
  OBVIOUS
<1>19. \A i \in S : m[i] \in G
  <2>1. ASSUME NEW i \in S PROVE m[i] \in G
    <3>1. i \in Ids /\ charge[i] # Void /\ Bucket(charge[i].at) \in Covering(now)
      BY <1>15 DEF InTime
    <3>2. PICK a \in Nat : a = charge[i].at
      BY <1>17 DEF Paid
    <3>3. a <= t
      BY <1>2, <3>1, <3>2 DEF Waits
    <3>4. Bucket(a) \in Nat /\ Bucket(a) <= Bucket(t)
      BY <3>3, BucketFacts
    <3>5. m[i] = Bucket(a) /\ Bucket(a) \in Covering(now)
      BY <1>18, <3>1, <3>2
    <3> QED BY <1>8, <1>9, <3>4, <3>5
  <2> QED BY <2>1
<1>20. ASSUME NEW b \in G PROVE SumFunctionOnSet(f, {i \in S : m[i] = b}) <= h[b]
  <2>1. PICK P : P = {i \in S : m[i] = b}
    OBVIOUS
  <2>2. P \subseteq S /\ IsFiniteSet(P) /\ \A i \in P : f[i] \in Nat /\ f[i] <= charge[i].amount
    BY <1>17, <2>1, FS_Subset
  <2>3. \A i \in P : i \in Payers(charge, k, b) /\ Bucket(charge[i].at) \in Covering(now)
    BY <1>15, <1>18, <2>1 DEF InTime, Payers
  <2>4. CASE P = {}
    <3>1. SumFunctionOnSet(f, P) = 0
      BY <2>2, <2>4, SumType
    <3> QED BY <1>13, <1>20, <2>1, <3>1
  <2>5. CASE P # {}
    <3>1. b \in Covering(now)
      BY <2>3, <2>5 DEF Payers
    <3>2. Oldest <= b
      BY <1>8, <1>9, <3>1
    <3>3. OneCounter(k, b)
      BY <1>1, <1>10, <1>20, <3>2 DEF CountersSound
    <3>4. PICK A : A = Payers(charge, k, b)
      OBVIOUS
    <3>5. PICK g : g = [i \in A |-> charge[i].amount]
      OBVIOUS
    <3>6. /\ IsFiniteSet(A) /\ (\A i \in A : charge[i].amount \in Nat)
          /\ Bill(charge, k, b) \in Nat
      BY <1>1, <3>4, BillFacts
    <3>7. Bill(charge, k, b) = SumFunctionOnSet(g, A)
      BY <3>4, <3>5 DEF Bill
    <3>8. \A i \in A : g[i] = charge[i].amount /\ g[i] \in Nat
      BY <3>5, <3>6
    <3>9. P \subseteq A /\ \A i \in P : f[i] \in Nat /\ g[i] \in Nat /\ f[i] <= g[i]
      BY <2>2, <2>3, <3>4, <3>8
    <3>10. SumFunctionOnSet(f, P) <= SumFunctionOnSet(g, P)
      BY <2>2, <3>9, SumCompare
    <3>11. /\ SumFunctionOnSet(g, P) \in Nat /\ SumFunctionOnSet(g, A) \in Nat
           /\ SumFunctionOnSet(g, P) <= SumFunctionOnSet(g, A)
      BY <3>6, <3>8, <3>9, SumPart
    <3>12. SumFunctionOnSet(f, P) \in Nat
      BY <2>2, SumType
    <3>13. h[b] = Bill(charge, k, b)
      <4>1. Counter(k, b) = Bill(charge, k, b)
        BY <3>3 DEF OneCounter, Counter
      <4> QED BY <1>13, <1>20, <3>6, <4>1 DEF Pos
    <3> QED BY <2>1, <3>7, <3>10, <3>11, <3>12, <3>13
  <2> QED BY <2>4, <2>5
<1>21. SumFunctionOnSet(f, S) <= SumFunctionOnSet(h, G)
  <2>1. \A i \in S : f[i] \in Nat
    BY <1>17
  <2>2. \A b \in G : h[b] \in Nat
    BY <1>13
  <2>3. IsFiniteSet(S) /\ IsFiniteSet(G)
    BY <1>10, <1>17
  <2>4. \A b \in G : SumFunctionOnSet(f, {i \in S : m[i] = b}) <= h[b]
    BY <1>20
  <2> QED BY ONLY <1>19, <2>1, <2>2, <2>3, <2>4, SumGroups
<1>22. FirmSum(charge, now, q.key) + q.est <= Capacity
  <2>1. FirmSum(charge, now, k) \in Nat
    BY <1>1, FirmFacts
  <2>2. SumFunctionOnSet(h, G) \in Nat
    BY <1>10, <1>13, SumType
  <2>3. q.est \in Nat
    BY DEF Going
  <2> QED BY <1>2, <1>14, <1>17, <1>21, <2>1, <2>2, <2>3, LimitConstants
<1>23. PICK U : U = FirmOpen(resv, charge, now)
  OBVIOUS
<1>24. PICK K : K = Kept(t)
  OBVIOUS
<1>25. PICK I : I = {a.id : a \in K}
  OBVIOUS
<1>26. IsFiniteSet(K)
  <2>1. K \subseteq active
    BY <1>24 DEF Kept
  <2> QED BY <1>1, <2>1, FS_Subset
<1>27. IsFiniteSet(I) /\ Cardinality(I) <= Cardinality(K)
  <2>1. PICK e : e = [a \in K |-> a.id]
    OBVIOUS
  <2>2. e \in [K -> I] /\ \A i \in I : \E a \in K : e[a] = i
    BY <1>25, <2>1
  <2>3. e \in Surjection(K, I)
    BY <2>2 DEF Surjection
  <2> QED BY <1>26, <2>3, FS_Surjection
<1>28. U \subseteq I
  <2>1. ASSUME NEW i \in U PROVE i \in I
    <3>1. i \in Ids /\ resv[i] # Void /\ charge[i].at + Timeout > now
      BY <1>23 DEF FirmOpen
    <3>2. OneCharge(i)
      BY <1>1, <3>1 DEF ChargesSound
    <3>3. PICK a : a = [id |-> i, deadline |-> charge[i].at + Timeout]
      OBVIOUS
    <3>4. a \in active /\ a.id = i /\ a.deadline = charge[i].at + Timeout /\ charge[i] # Void
      BY <3>1, <3>2, <3>3 DEF OneCharge
    <3>5. charge[i].at \in Nat
      BY <1>1, <3>1, <3>4 DEF Ledgers, Paid
    <3>6. a.deadline > t
      BY <1>1, <1>3, <3>1, <3>4, <3>5, WinConstants
    <3> QED BY <1>24, <1>25, <3>4, <3>6 DEF Kept
  <2> QED BY <2>1
<1>29. /\ Cardinality(U) <= Cardinality(I) /\ Cardinality(U) \in Nat /\ Cardinality(I) \in Nat
       /\ Cardinality(K) \in Nat
  BY <1>23, <1>26, <1>27, <1>28, FS_Subset, FS_CardinalityType, FirmOpenFacts
<1>30. Cardinality(U) + 1 <= MaxActive
  <2>1. ~(Cardinality(K) >= MaxActive)
    BY <1>2, <1>24
  <2> QED BY <1>27, <1>29, <2>1, LimitConstants
<1> QED BY <1>22, <1>23, <1>30 DEF Room

\* An admission that has not raced takes the room there was for it.
LEMMA FirmAdmits ==
  ASSUME WinInv, WinInv', RaceInv, NEW t \in WinAdmits, OneWire(t), RunAdmit(t), WaitsWire(t),
         UNCHANGED <<now, seq, outcome>>
  PROVE  /\ \A k \in Keys : FirmSum(charge', now', k) <= Capacity
         /\ Cardinality(FirmOpen(resv', charge', now')) <= MaxActive
         /\ IsFiniteSet(active')
<1>1. /\ charge \in Ledgers /\ charge' \in Ledgers /\ now' = now /\ resv \in [Ids -> Held \cup {Void}]
  BY DEF WinInv, ServerTypes, Ledgers
<1>2. PICK i : i = t.id
  OBVIOUS
<1>3. i \in Ids /\ charge[i] = Void /\ \A j \in Ids : j # i => charge'[j] = charge[j]
  BY <1>2, AdmitServer DEF OneWire, NotYet, WinAdmits
<1>4. PICK c : c = [key |-> t.key, at |-> t.at, est |-> t.est, amount |-> t.est,
                    raced |-> t.raced]
  OBVIOUS
<1>5. charge'[i] = c
  BY <1>1, <1>2, <1>3, <1>4 DEF RunAdmit, Ledgers
<1>6. /\ c.key = t.key /\ t.est \in Nat /\ t.key \in Keys /\ t.raced \in BOOLEAN /\ c.raced = t.raced
      /\ FirmOf(c) = IF t.raced THEN 0 ELSE t.est
  BY <1>4 DEF FirmOf, WinAdmits
<1>7. ~t.raced => /\ FirmSum(charge, now, t.key) + t.est <= Capacity
                  /\ Cardinality(FirmOpen(resv, charge, now)) + 1 <= MaxActive
  <2>1. t.kind = "admit"
    BY DEF WinAdmits
  <2> QED BY <2>1 DEF WaitsWire, Room
<1>8. PICK ch : ch = charge'
  OBVIOUS
<1>9. ch \in Ledgers /\ ch[i] = c /\ \A j \in Ids : j # i => ch[j] = charge[j]
  BY <1>1, <1>3, <1>5, <1>8
<1>10. ASSUME NEW k \in Keys PROVE FirmSum(ch, now, k) <= Capacity
  <2>1. PICK A : A = InTime(ch, now, k)
    OBVIOUS
  <2>2. PICK B : B = InTime(charge, now, k)
    OBVIOUS
  <2>3. PICK f : f = [j \in A |-> FirmOf(ch[j])]
    OBVIOUS
  <2>4. PICK g : g = [j \in B |-> FirmOf(charge[j])]
    OBVIOUS
  <2>5. /\ FirmSum(ch, now, k) = SumFunctionOnSet(f, A)
        /\ FirmSum(charge, now, k) = SumFunctionOnSet(g, B)
    BY <2>1, <2>2, <2>3, <2>4 DEF FirmSum
  <2>6. A \ {i} = B /\ i \notin B
    BY <1>3, <1>9, <2>1, <2>2 DEF InTime
  <2>7. IsFiniteSet(A) /\ \A j \in A : f[j] = FirmOf(ch[j]) /\ f[j] \in Nat
    <3>1. IsFiniteSet(A) /\ \A j \in A : FirmOf(ch[j]) \in Nat
      BY <1>9, <2>1, FirmFacts
    <3> QED BY <2>3, <3>1
  <2>8. IsFiniteSet(B) /\ \A j \in B : g[j] = FirmOf(charge[j]) /\ g[j] \in Nat
    <3>1. IsFiniteSet(B) /\ \A j \in B : FirmOf(charge[j]) \in Nat
      BY <1>1, <2>2, FirmFacts
    <3> QED BY <2>4, <3>1
  <2>9. \A j \in B : g[j] \in Nat /\ f[j] = g[j]
    <3>1. \A j \in B : j \in Ids /\ j # i /\ j \in A
      BY <2>2, <2>6 DEF InTime
    <3> QED BY <1>9, <2>7, <2>8, <3>1
  <2>10. SumFunctionOnSet(g, B) = SumFunctionOnSet(f, B) /\ SumFunctionOnSet(g, B) \in Nat
    BY <2>8, <2>9, SumEqual, SumType
  <2>11. SumFunctionOnSet(g, B) <= Capacity
    BY <2>5 DEF RaceInv
  <2>12. CASE i \in A
    <3>1. SumFunctionOnSet(f, A) = f[i] + SumFunctionOnSet(f, A \ {i})
      BY <2>7, <2>12, SumRemove
    <3>2. f[i] = FirmOf(c) /\ k = t.key
      BY <1>6, <1>9, <2>1, <2>7, <2>12 DEF InTime
    <3>3. SumFunctionOnSet(f, A) = FirmOf(c) + SumFunctionOnSet(g, B)
      BY <2>6, <2>10, <3>1, <3>2
    <3> QED BY <1>6, <1>7, <2>5, <2>10, <2>11, <3>2, <3>3, LimitConstants
  <2>13. CASE i \notin A
    <3>1. A = B
      BY <2>6, <2>13
    <3> QED BY <2>5, <2>10, <2>11, <3>1
  <2> QED BY <2>12, <2>13
<1>11. PICK v : v = [key |-> t.key, est |-> t.est, at |-> t.at, until |-> now + Timeout]
  OBVIOUS
<1>12. resv' = [resv EXCEPT ![i] = v]
       /\ active' = active \cup {[id |-> t.id, deadline |-> Deadline(t.at)]}
  BY <1>2, <1>11 DEF RunAdmit
<1>13. IsFiniteSet(active')
  <2>1. IsFiniteSet(active)
    BY DEF RaceInv
  <2> QED BY <1>12, <2>1, FS_AddElement
<1>14. PICK U : U = FirmOpen(resv, charge, now)
  OBVIOUS
<1>15. PICK V : V = FirmOpen(resv', charge', now')
  OBVIOUS
<1>16. V \subseteq U \cup {i} /\ (t.raced => V \subseteq U)
  <2>1. \A j \in Ids : j # i => resv'[j] = resv[j]
    BY <1>1, <1>12
  <2> QED BY <1>1, <1>3, <1>5, <1>6, <1>14, <1>15, <2>1 DEF FirmOpen
<1>17. /\ IsFiniteSet(U) /\ Cardinality(U) \in Nat /\ Cardinality(V) \in Nat
       /\ Cardinality(U) <= MaxActive
  BY <1>14, <1>15, FirmOpenFacts DEF RaceInv
<1>18. Cardinality(V) <= MaxActive
  <2>1. CASE t.raced
    <3>1. Cardinality(V) <= Cardinality(U)
      BY <1>16, <1>17, <2>1, FS_Subset
    <3> QED BY <1>17, <3>1, LimitConstants
  <2>2. CASE ~t.raced
    <3>1. PICK W : W = U \cup {i}
      OBVIOUS
    <3>2. IsFiniteSet(W) /\ Cardinality(W) <= Cardinality(U) + 1 /\ Cardinality(W) \in Nat
      <4>1. IsFiniteSet(W) /\ (Cardinality(W) = Cardinality(U) \/ Cardinality(W) = Cardinality(U) + 1)
        BY <1>17, <3>1, FS_AddElement
      <4> QED BY <1>17, <4>1
    <3>3. Cardinality(V) <= Cardinality(W)
      BY <1>16, <3>1, <3>2, FS_Subset
    <3>4. Cardinality(U) + 1 <= MaxActive
      BY <1>7, <1>14, <2>2
    <3> QED BY <1>17, <3>2, <3>3, <3>4, LimitConstants
  <2> QED BY <1>6, <2>1, <2>2
<1> QED BY <1>1, <1>8, <1>10, <1>13, <1>15, <1>18

\* After an admission whatever is under way has raced.
LEMMA RaceAdmit ==
  ASSUME WinInv, WinInv', RaceInv, NEW t \in WinAdmits, OneWire(t), RunAdmit(t), WaitsWire(t),
         UNCHANGED <<now, seq, outcome>>, wire' = RacingWire(t),
         \A s \in Requests : req'[s].pc \in {"read", "draw", "commit"} => req'[s].raced
  PROVE  RaceInv'
<1>1. /\ \A k \in Keys : FirmSum(charge', now', k) <= Capacity
      /\ Cardinality(FirmOpen(resv', charge', now')) <= MaxActive
      /\ IsFiniteSet(active')
  BY FirmAdmits
<1>2. ASSUME NEW s \in Requests PROVE Waits(req[s])'
  <2>1. PICK q : q = req'[s]
    OBVIOUS
  <2>2. Waits(q)'
    BY <2>1 DEF Waits
  <2> QED BY <2>1, <2>2 DEF Waits, Room, FirmSum, FirmOpen, InTime, FirmOf, Covering, Bucket, Ids, Void
<1>3. ASSUME NEW m \in wire' PROVE WaitsWire(m)'
  <2>1. PICK u \in wire : m = [u EXCEPT !.raced = TRUE]
    BY DEF RacingWire
  <2>2. u \in WinAdmits \cup WinSettles
    BY DEF WinInv, ClientTypes
  <2>3. m.raced = TRUE
    BY <2>1, <2>2 DEF WinAdmits, WinSettles
  <2> QED BY <2>3 DEF WaitsWire
<1> QED BY <1>1, <1>2, <1>3 DEF RaceInv, FirmSum, FirmOpen, InTime, FirmOf, Covering, Bucket, Ids, Void

\* A request commits, or its admission runs late.
LEMMA RaceCommit ==
  ASSUME WinInv, WinInv', RaceInv, NEW r \in Requests, Commit(r)
  PROVE  RaceInv'
<1>1. ClientTypes /\ ReqSound
  BY DEF WinInv
<1>2. PICK p : p = req[r]
  OBVIOUS
<1>3. p \in Going /\ p.pc = "commit" /\ OneReq(p) /\ Waits(p)
  BY <1>1, <1>2 DEF Commit, ClientTypes, ReqType, ReqSound, RaceInv
<1>4. PICK t : t = AdmitTx(r)
  OBVIOUS
<1>5. /\ t \in WinAdmits /\ t.kind = "admit" /\ t.id = p.id /\ t.at = p.at /\ t.key = p.key
      /\ t.est = p.est /\ t.raced = p.raced
  BY <1>2, <1>3, <1>4 DEF AdmitTx, WinAdmits, Going
<1>6. OneWire(t) /\ WaitsWire(t)
  BY <1>3, <1>5 DEF OneWire, OneReq, WaitsWire, Waits, Room
<1>7. /\ RunAdmit(t) /\ wire' = RacingWire(t) /\ UNCHANGED <<now, seq, outcome>>
      /\ req' = [Racing({r}) EXCEPT ![r].pc = "admitted"]
  BY <1>4 DEF Commit
<1>8. ASSUME NEW s \in Requests, req'[s].pc \in {"read", "draw", "commit"} PROVE req'[s].raced
  <2>1. PICK f : f = Racing({r})
    OBVIOUS
  <2>2. f = [u \in Requests |-> f[u]] /\ f[r] = p
    BY <1>2, <2>1 DEF Racing
  <2>3. req' = [f EXCEPT ![r].pc = "admitted"]
    BY <1>7, <2>1
  <2>4. s # r
    <3>1. req'[r] = [p EXCEPT !.pc = "admitted"]
      BY <2>2, <2>3
    <3>2. req'[r].pc = "admitted"
      BY <1>3, <3>1 DEF Going
    <3> QED BY <1>8, <3>2
  <2>5. req'[s] = f[s]
    BY <2>2, <2>3, <2>4
  <2>6. f[s] = IF req[s].pc \in {"read", "draw", "commit"} THEN [req[s] EXCEPT !.raced = TRUE]
               ELSE req[s]
    BY <2>1, <2>4 DEF Racing
  <2>7. CASE req[s].pc \in {"read", "draw", "commit"}
    <3>1. req[s] \in Going
      BY <1>1, <2>7 DEF ClientTypes, ReqType
    <3> QED BY <2>5, <2>6, <2>7, <3>1 DEF Going
  <2>8. CASE req[s].pc \notin {"read", "draw", "commit"}
    BY <1>8, <2>5, <2>6, <2>8
  <2> QED BY <2>7, <2>8
<1> QED BY <1>5, <1>6, <1>7, <1>8, RaceAdmit

\* An admission that was given up on runs.
LEMMA RaceLate ==
  ASSUME WinInv, WinInv', RaceInv, NEW t \in wire, LateRun(t), t.kind = "admit"
  PROVE  RaceInv'
<1>1. ClientTypes /\ WireSound
  BY DEF WinInv
<1>2. t \in WinAdmits /\ OneWire(t) /\ WaitsWire(t)
  BY <1>1 DEF ClientTypes, WireSound, WinSettles, RaceInv
<1>3. /\ RunAdmit(t) /\ wire' = RacingWire(t) /\ UNCHANGED <<now, seq, outcome>>
      /\ req' = Racing({})
  BY DEF LateRun
<1>4. ASSUME NEW s \in Requests, req'[s].pc \in {"read", "draw", "commit"} PROVE req'[s].raced
  <2>1. req'[s] = IF req[s].pc \in {"read", "draw", "commit"} THEN [req[s] EXCEPT !.raced = TRUE]
                  ELSE req[s]
    BY <1>3 DEF Racing
  <2>2. CASE req[s].pc \in {"read", "draw", "commit"}
    <3>1. req[s] \in Going
      BY <1>1, <2>2 DEF ClientTypes, ReqType
    <3> QED BY <2>1, <2>2, <3>1 DEF Going
  <2>3. CASE req[s].pc \notin {"read", "draw", "commit"}
    BY <1>4, <2>1, <2>3
  <2> QED BY <2>2, <2>3
<1> QED BY <1>2, <1>3, <1>4, RaceAdmit

\* What a decision reads is a number.
LEMMA UsedType ==
  ASSUME WinInv, NEW q \in Going, q.at <= now
  PROVE  Used([b \in Covering(q.at) |-> Counter(q.key, b)]) \in Nat
<1>1. /\ ServerTypes /\ ClockSound /\ now \in Nat /\ MaxTime \in Nat
  BY WinConstants DEF WinInv, ClockSound
<1>2. PICK k \in Keys, t \in Nat : k = q.key /\ t = q.at
  BY DEF Going
<1>3. PICK x \in Nat : x = IF t > Window THEN t - Window ELSE 0
  <2>1. (IF t > Window THEN t - Window ELSE 0) \in Nat
    BY ONLY t \in Nat, WinConstants
  <2> QED BY <2>1
<1>4. PICK G : G = Covering(t)
  OBVIOUS
<1>5. G = Bucket(x)..Bucket(t) /\ Bucket(x) \in Nat /\ Bucket(t) \in Nat
  BY <1>3, <1>4, BucketFacts DEF Covering
<1>6. Bucket(t) \in Buckets
  BY <1>1, <1>2, BucketKept
<1>7. MaxTime \div Width \in Int
  BY WinConstants
<1>8. IsFiniteSet(G) /\ \A b \in G : b \in Buckets
  <2>1. IsFiniteSet(G)
    BY <1>5, FS_Interval
  <2> QED BY <1>5, <1>6, <1>7, <2>1 DEF Buckets
<1>9. PICK cs : cs = [b \in G |-> Counter(k, b)]
  OBVIOUS
<1>10. PICK h : h = [b \in G |-> Pos(cs[b])]
  OBVIOUS
<1>11. \A b \in G : h[b] \in Nat
  <2>1. \A b \in G : Counter(k, b) \in Int
    BY <1>1, <1>8 DEF Counter, ServerTypes
  <2> QED BY <1>9, <1>10, <2>1 DEF Pos
<1>12. Used(cs) = SumFunctionOnSet(h, G)
  <2>1. DOMAIN cs = G
    BY <1>9
  <2> QED BY <1>10, <2>1 DEF Used
<1>13. SumFunctionOnSet(h, G) \in Nat
  BY <1>8, <1>11, SumType
<1> QED BY <1>2, <1>4, <1>9, <1>12, <1>13

\* Charges that stay ease.
LEMMA StaysEase ==
  ASSUME WinInv, now' = now \/ now' = now + 1, charge' = charge,
         \A i \in Ids : resv'[i] # Void => resv[i] # Void
  PROVE  Eases
<1>1. charge \in Ledgers
  BY DEF WinInv, ServerTypes
<1>2. \A c \in Paid : FirmOf(c) \in Nat
  BY DEF FirmOf, Paid
<1>3. \A i \in Ids : charge[i] # Void => FirmOf(charge[i]) <= FirmOf(charge[i])
  BY <1>1, <1>2 DEF Ledgers
<1> QED BY <1>3 DEF Eases

\* One request moves, nothing is charged.
LEMMA RaceMove ==
  ASSUME WinInv, WinInv', RaceInv, NEW r \in Requests, NEW q,
         UNCHANGED <<now, resv, charge>>, active' \subseteq active,
         req' = [req EXCEPT ![r] = q], q.pc \notin {"read", "draw", "commit"} \/ Waits(q),
         \A t \in wire' : t \in wire \/ WaitsWire(t)
  PROVE  RaceInv'
<1>1. Eases
  BY StaysEase
<1>2. IsFiniteSet(active')
  <2>1. IsFiniteSet(active)
    BY DEF RaceInv
  <2> QED BY <2>1, FS_Subset
<1>3. req = [s \in Requests |-> req[s]]
  BY DEF WinInv, ClientTypes
<1>4. \A s \in Requests : req'[s] = IF s = r THEN q ELSE req[s]
  BY <1>3
<1>5. \A s \in Requests : \/ req'[s] = req[s]
                          \/ req'[s].pc \notin {"read", "draw", "commit"}
                          \/ Waits(req'[s])
  BY <1>4
<1> QED BY <1>1, <1>2, <1>5, RaceFollows

\* A request begins: every charge there is, is not later.
LEMMA RaceBegin ==
  ASSUME WinInv, WinInv', RaceInv, NEW r \in Requests, Begin(r)
  PROVE  RaceInv'
<1>1. PICK k \in Keys, e \in Estimates :
        req' = [req EXCEPT ![r] = [pc |-> "read", key |-> k, est |-> e, at |-> now,
                                   id |-> 0, raced |-> FALSE]]
  BY DEF Begin
<1>2. PICK q : q = [pc |-> "read", key |-> k, est |-> e, at |-> now, id |-> 0, raced |-> FALSE]
  OBVIOUS
<1>3. q.pc = "read" /\ q.at = now
  BY <1>2
<1>4. \A i \in Ids : charge[i] # Void => charge[i].at <= now
  BY DEF WinInv, ChargesSound, OneCharge
<1>5. Waits(q)
  BY <1>3, <1>4 DEF Waits
<1>6. UNCHANGED <<now, resv, charge>> /\ active' \subseteq active /\ wire' = wire
  BY DEF Begin, server
<1> QED BY <1>1, <1>2, <1>5, <1>6, RaceMove

\* A request that read a window with room has room.
LEMMA RaceRead ==
  ASSUME WinInv, WinInv', RaceInv, NEW r \in Requests, ReadWindow(r)
  PROVE  RaceInv'
<1>1. PICK p : p = req[r]
  OBVIOUS
<1>2. p \in Going /\ p.pc = "read" /\ p.at <= now /\ Waits(p)
  BY <1>1 DEF ReadWindow, WinInv, ClientTypes, ReqType, ReqSound, OneReq, RaceInv
<1>3. PICK keys : keys = KeptKeys(p.at)
  OBVIOUS
<1>4. PICK reads : reads = [counters |-> [b \in Covering(p.at) |-> Counter(p.key, b)],
                            active |-> Cardinality(Kept(p.at)), keys |-> Cardinality(keys),
                            known |-> p.key \in keys]
  OBVIOUS
<1>5. PICK h : req' = [req EXCEPT ![r] =
             IF Decide(reads, p.est) = "admit" THEN [p EXCEPT !.pc = "draw"]
             ELSE IF Decide(reads, p.est) = "WindowCapacity"
             THEN [pc |-> "denied", est |-> p.est, at |-> p.at, counters |-> reads.counters,
                   hint |-> h]
             ELSE Over]
  BY <1>1, <1>3, <1>4 DEF ReadWindow
<1>6. PICK q : q = IF Decide(reads, p.est) = "admit" THEN [p EXCEPT !.pc = "draw"]
             ELSE IF Decide(reads, p.est) = "WindowCapacity"
             THEN [pc |-> "denied", est |-> p.est, at |-> p.at, counters |-> reads.counters,
                   hint |-> h]
             ELSE Over
  OBVIOUS
<1>7. UNCHANGED <<now, resv, charge>> /\ active' \subseteq active /\ wire' = wire
  BY DEF ReadWindow, Trim, Kept
<1>8. q.pc \notin {"read", "draw", "commit"} \/ Waits(q)
  <2>1. CASE Decide(reads, p.est) = "admit"
    <3>1. /\ q.pc = "draw" /\ q.at = p.at /\ q.key = p.key /\ q.est = p.est /\ q.raced = p.raced
      BY <1>2, <1>6, <2>1 DEF Going
    <3>2. /\ reads.counters = [b \in Covering(p.at) |-> Counter(p.key, b)]
          /\ reads.active = Cardinality(Kept(p.at))
      BY <1>4
    <3>3. ~(reads.active >= MaxActive) /\ ~(Used(reads.counters) + p.est > Capacity)
      BY <2>1 DEF Decide
    <3>4. ASSUME ~p.raced PROVE Room(p)
      <4>1. Used([b \in Covering(p.at) |-> Counter(p.key, b)]) + p.est <= Capacity
        <5>1. PICK u : u = Used(reads.counters)
          OBVIOUS
        <5>2. u \in Nat
          BY <1>2, <3>2, <5>1, UsedType
        <5>3. p.est \in Nat /\ ~(u + p.est > Capacity)
          BY <1>2, <3>3, <5>1 DEF Going
        <5>4. u + p.est <= Capacity
          BY <5>2, <5>3, LimitConstants
        <5> QED BY <3>2, <5>1, <5>4
      <4> QED BY <1>2, <3>2, <3>3, <3>4, <4>1, ReadRoom
    <3>5. Waits(q)
      BY <1>2, <3>1, <3>4 DEF Waits, Room
    <3> QED BY <3>5
  <2>2. CASE Decide(reads, p.est) # "admit"
    BY <1>6, <2>2 DEF Over
  <2> QED BY <2>1, <2>2
<1> QED BY <1>5, <1>6, <1>7, <1>8, RaceMove

\* An id changes no room.
LEMMA RaceDraw ==
  ASSUME WinInv, WinInv', RaceInv, NEW r \in Requests, DrawId(r)
  PROVE  RaceInv'
<1>1. PICK p : p = req[r]
  OBVIOUS
<1>2. p \in Going /\ p.pc = "draw" /\ Waits(p) /\ req = [s \in Requests |-> req[s]]
  BY <1>1 DEF DrawId, WinInv, ClientTypes, ReqType, RaceInv
<1>3. PICK q : q = [p EXCEPT !.pc = "commit", !.id = seq + 1]
  OBVIOUS
<1>4. /\ q.pc = "commit" /\ q.at = p.at /\ q.key = p.key /\ q.est = p.est /\ q.raced = p.raced
  <2>1. PICK o : o = [p EXCEPT !.pc = "commit"]
    OBVIOUS
  <2>2. /\ o \in Going /\ o.pc = "commit" /\ o.at = p.at /\ o.key = p.key /\ o.est = p.est
        /\ o.raced = p.raced
    BY <1>2, <2>1 DEF Going
  <2>3. q = [o EXCEPT !.id = seq + 1]
    BY <1>3, <2>1
  <2> QED BY <2>2, <2>3 DEF Going
<1>5. req' = [req EXCEPT ![r] = q]
  <2>1. req' = [req EXCEPT ![r].pc = "commit", ![r].id = seq + 1]
    BY DEF DrawId
  <2> QED BY <1>1, <1>2, <1>3, <2>1
<1>6. Waits(q)
  BY <1>2, <1>4 DEF Waits, Room
<1>7. UNCHANGED <<now, resv, charge>> /\ active' \subseteq active /\ wire' = wire
  BY DEF DrawId, server
<1> QED BY <1>5, <1>6, <1>7, RaceMove

\* A request ends, its admission perhaps on the way.
LEMMA RaceEnds ==
  ASSUME WinInv, WinInv', RaceInv, NEW r \in Requests, RequestFails(r) \/ Finish(r)
  PROVE  RaceInv'
<1>1. Over.pc \notin {"read", "draw", "commit"}
  BY DEF Over
<1>2. CASE RequestFails(r)
  <2>1. /\ UNCHANGED <<now, resv, charge>> /\ active' \subseteq active
        /\ req' = [req EXCEPT ![r] = Over]
        /\ wire' = wire \/ (req[r].pc = "commit" /\ wire' = wire \cup {AdmitTx(r)})
    BY <1>2 DEF RequestFails, Trim, Kept
  <2>2. ASSUME req[r].pc = "commit" PROVE WaitsWire(AdmitTx(r))
    <3>1. Waits(req[r])
      BY DEF RaceInv
    <3>2. PICK t : t = AdmitTx(r)
      OBVIOUS
    <3>3. t.raced = req[r].raced /\ t.key = req[r].key /\ t.est = req[r].est
      BY <3>2 DEF AdmitTx
    <3> QED BY <2>2, <3>1, <3>2, <3>3 DEF WaitsWire, Waits, Room
  <2>3. \A t \in wire' : t \in wire \/ WaitsWire(t)
    BY <2>1, <2>2
  <2> QED BY <1>1, <2>1, <2>3, RaceMove
<1>3. CASE Finish(r)
  <2>1. /\ UNCHANGED <<now, resv, charge>> /\ active' \subseteq active /\ wire' = wire
        /\ req' = [req EXCEPT ![r] = Over]
    BY <1>3 DEF Finish, server
  <2> QED BY <1>1, <2>1, RaceMove
<1> QED BY <1>2, <1>3

\* A settlement runs, if there is something to settle.
LEMMA RaceSettle ==
  ASSUME WinInv, WinInv', RaceInv, NEW t \in WinSettles, Charging(t), RunSettle(t), now' = now,
         req' = req, wire' \subseteq wire
  PROVE  RaceInv'
<1>1. charge \in Ledgers /\ ChargesSound /\ IsFiniteSet(active) /\ SeqCounted
      /\ resv \in [Ids -> Held \cup {Void}]
  BY DEF WinInv, ServerTypes, RaceInv
<1>2. \A c \in Paid : FirmOf(c) \in Nat
  BY DEF FirmOf, Paid
<1>3. CASE Live(t.id)
  <2>1. PICK i : i = t.id
    OBVIOUS
  <2>2. i \in Ids /\ charge[i] # Void /\ resv[i] # Void
    BY <1>1, <1>3, <2>1, DrawnIds DEF Charging, Live
  <2>3. PICK p \in Paid : p = charge[i]
    BY <1>1, <2>2 DEF Ledgers
  <2>4. p.amount = p.est
    BY <1>1, <2>2, <2>3 DEF ChargesSound, OneCharge
  <2>5. PICK c : c = [p EXCEPT !.amount = t.actual]
    OBVIOUS
  <2>6. t.actual \in Nat
    BY DEF WinSettles
  <2>7. /\ c.key = p.key /\ c.at = p.at /\ c.est = p.est /\ c.amount = t.actual /\ c.raced = p.raced
        /\ p.est \in Nat
    BY <2>3, <2>5 DEF Paid
  <2>8. FirmOf(c) <= FirmOf(p)
    BY <2>4, <2>6, <2>7 DEF FirmOf
  <2>9. /\ charge' = [charge EXCEPT ![i].amount = t.actual] /\ resv' = [resv EXCEPT ![i] = Void]
        /\ active' = {a \in active : a.id # i}
    BY <1>3, <2>1 DEF RunSettle
  <2>10. \A j \in Ids : charge'[j] = IF j = i THEN c ELSE charge[j]
    BY <1>1, <2>3, <2>5, <2>9 DEF Ledgers
  <2>11. \A j \in Ids : resv'[j] = IF j = i THEN Void ELSE resv[j]
    BY <1>1, <2>9
  <2>12. Eases
    <3>1. \A j \in Ids : charge[j] # Void => FirmOf(charge[j]) <= FirmOf(charge[j])
      BY <1>1, <1>2 DEF Ledgers
    <3> QED BY <2>2, <2>3, <2>7, <2>8, <2>10, <2>11, <3>1 DEF Eases
  <2>13. IsFiniteSet(active')
    BY <1>1, <2>9, FS_Subset
  <2> QED BY <2>12, <2>13, RaceFollows
<1>4. CASE ~Live(t.id)
  <2>1. charge' = charge /\ resv' = resv /\ active' = active
    BY <1>4 DEF RunSettle, server
  <2>2. Eases
    BY <2>1, StaysEase
  <2> QED BY <1>1, <2>1, <2>2, RaceFollows
<1> QED BY <1>3, <1>4

\* A worker moves, without a settlement or with one.
LEMMA RaceWorker ==
  ASSUME WinInv, WinInv', RaceInv, NEW g \in Gateways, WorkerStep(g)
  PROVE  RaceInv'
<1>1. IsFiniteSet(active)
  BY DEF RaceInv
<1>2. CASE WorkerTake(g) \/ WorkerRead(g) \/ WorkerFails(g)
  <2>1. /\ UNCHANGED <<now, resv, charge, active, req>>
        /\ wire' = wire \/ wire' = wire \cup {SettleTx(g)}
    BY <1>2 DEF WorkerTake, WorkerRead, WorkerFails, server
  <2>2. WaitsWire(SettleTx(g))
    <3>1. SettleTx(g).kind = "settle"
      BY DEF SettleTx
    <3> QED BY <3>1 DEF WaitsWire
  <2>3. \A t \in wire' : t \in wire \/ WaitsWire(t)
    BY <2>1, <2>2
  <2>4. Eases
    BY <2>1, StaysEase
  <2> QED BY <1>1, <2>1, <2>3, <2>4, RaceFollows
<1>3. CASE WorkerExec(g)
  <2>1. worker[g].pc \in {"read", "exec"}
    BY <1>3 DEF WorkerExec
  <2>2. SettleTx(g) \in WinSettles /\ OneWire(SettleTx(g)) /\ SettleTx(g).kind = "settle"
    BY <2>1, SettleTxFacts
  <2>3. Charging(SettleTx(g))
    BY <2>2 DEF OneWire
  <2>4. RunSettle(SettleTx(g)) /\ now' = now /\ req' = req /\ wire' \subseteq wire
    BY <1>3 DEF WorkerExec
  <2> QED BY <2>2, <2>3, <2>4, RaceSettle
<1> QED BY <1>2, <1>3 DEF WorkerStep

\* A gateway stops, or time passes.
LEMMA RaceElse ==
  ASSUME WinInv, WinInv', RaceInv, (\E g \in Gateways : Crash(g)) \/ Tick \/ UNCHANGED vars
  PROVE  RaceInv'
<1>1. IsFiniteSet(active)
  BY DEF RaceInv
<1>2. Over.pc \notin {"read", "draw", "commit"}
  BY DEF Over
<1>3. ASSUME NEW g \in Gateways, Crash(g) PROVE RaceInv'
  <2>1. /\ UNCHANGED <<now, resv, charge, active, wire>>
        /\ \A s \in Requests : req'[s] = req[s] \/ req'[s] = Over
    BY <1>3 DEF Crash, server
  <2>2. Eases
    BY <2>1, StaysEase
  <2> QED BY <1>1, <1>2, <2>1, <2>2, RaceFollows
<1>4. CASE Tick
  <2>1. /\ now' = now + 1 /\ charge' = charge /\ active' = active /\ req' = req /\ wire' = wire
        /\ \A i \in Ids : resv'[i] # Void => resv[i] # Void
    <3>1. resv' = [i \in Ids |-> IF resv[i].until <= now' THEN Void ELSE resv[i]]
      BY <1>4 DEF Tick
    <3>2. \A i \in Ids : resv'[i] # Void => resv[i] # Void
      BY <3>1
    <3> QED BY <1>4, <3>2 DEF Tick
  <2>2. Eases
    BY <2>1, StaysEase
  <2> QED BY <1>1, <2>1, <2>2, RaceFollows
<1>5. CASE UNCHANGED vars
  <2>1. UNCHANGED <<now, resv, charge, active, wire, req>>
    BY <1>5 DEF vars, server
  <2>2. Eases
    BY <2>1, StaysEase
  <2> QED BY <1>1, <2>1, <2>2, RaceFollows
<1> QED BY <1>3, <1>4, <1>5

\* Every step keeps what races cannot pass.
LEMMA RaceKept == WinInv /\ RaceInv /\ [Next]_vars => RaceInv'
<1> SUFFICES ASSUME WinInv, RaceInv, [Next]_vars PROVE RaceInv'
  OBVIOUS
<1>1. WinInv'
  BY WinKept
<1>2. ASSUME NEW r \in Requests, Begin(r) \/ ReadWindow(r) \/ DrawId(r) \/ Commit(r)
                                 \/ RequestFails(r) \/ Finish(r)
      PROVE  RaceInv'
  BY <1>1, <1>2, RaceBegin, RaceRead, RaceDraw, RaceCommit, RaceEnds
<1>3. ASSUME NEW g \in Gateways, WorkerStep(g) PROVE RaceInv'
  BY <1>1, <1>3, RaceWorker
<1>4. ASSUME NEW t \in wire, LateRun(t) PROVE RaceInv'
  <2>1. CASE t.kind = "admit"
    BY <1>1, <1>4, <2>1, RaceLate
  <2>2. CASE t.kind = "settle"
    <3>1. t \in WinSettles /\ Charging(t)
      BY <2>2 DEF WinInv, ClientTypes, WireSound, WinAdmits, OneWire
    <3>2. RunSettle(t) /\ now' = now /\ req' = req /\ wire' \subseteq wire
      BY <1>4, <2>2 DEF LateRun
    <3> QED BY <1>1, <3>1, <3>2, RaceSettle
  <2> QED BY <1>4, <2>1, <2>2 DEF LateRun
<1>5. ASSUME (\E g \in Gateways : Crash(g)) \/ Tick \/ UNCHANGED vars PROVE RaceInv'
  BY <1>1, <1>5, RaceElse
<1> QED BY <1>2, <1>3, <1>4, <1>5 DEF Next

\* Nothing is charged, nobody has decided.
LEMMA RaceInitially ==
  ASSUME Init
  PROVE  RaceInv
<1>1. /\ active = {} /\ req = [r \in Requests |-> Idle] /\ wire = {}
      /\ resv = [i \in Ids |-> Void] /\ charge = [i \in Ids |-> Void]
  BY DEF Init
<1>2. charge \in Ledgers
  BY <1>1 DEF Ledgers
<1>3. ASSUME NEW k \in Keys PROVE FirmSum(charge, now, k) <= Capacity
  <2>1. InTime(charge, now, k) = {}
    BY <1>1 DEF InTime
  <2>2. PICK f : f = [i \in InTime(charge, now, k) |-> FirmOf(charge[i])]
    OBVIOUS
  <2>3. FirmSum(charge, now, k) = SumFunctionOnSet(f, {})
    BY <2>1, <2>2 DEF FirmSum
  <2>4. IsFiniteSet({}) /\ \A x \in {} : f[x] \in Nat
    BY FS_EmptySet
  <2>5. SumFunctionOnSet(f, {}) = 0
    BY <2>4, SumType
  <2> QED BY <2>3, <2>5, LimitConstants
<1>4. Cardinality(FirmOpen(resv, charge, now)) <= MaxActive
  <2>1. FirmOpen(resv, charge, now) = {}
    BY <1>1 DEF FirmOpen
  <2> QED BY <2>1, FS_EmptySet, LimitConstants
<1>5. \A s \in Requests : Waits(req[s])
  BY <1>1 DEF Waits, Idle
<1>6. IsFiniteSet(active)
  BY <1>1, FS_EmptySet
<1> QED BY <1>1, <1>3, <1>4, <1>5, <1>6 DEF RaceInv

\* What races cannot pass bounds what is spent and what is open.
LEMMA RaceSays == WinInv /\ RaceInv => OvershootOnlyByRaces /\ ReservationsPassedOnlyByRaces
<1> SUFFICES ASSUME WinInv, RaceInv PROVE OvershootOnlyByRaces /\ ReservationsPassedOnlyByRaces
  OBVIOUS
<1>1. charge \in Ledgers /\ ChargesSound
  BY DEF WinInv, ServerTypes
<1>2. ASSUME NEW c \in Paid
      PROVE  /\ c.amount \in Nat /\ FirmOf(c) \in Nat /\ Excess(c) \in Nat
             /\ c.amount <= FirmOf(c) + Excess(c)
  <2>1. c.amount \in Nat /\ c.est \in Nat /\ c.raced \in BOOLEAN
    BY DEF Paid
  <2>2. CASE c.raced
    <3>1. FirmOf(c) = 0 /\ Excess(c) = c.est + Pos(c.amount - c.est)
      BY <2>2 DEF FirmOf, Excess
    <3> QED BY <2>1, <3>1 DEF Pos
  <2>3. CASE ~c.raced
    <3>1. /\ FirmOf(c) = IF c.amount < c.est THEN c.amount ELSE c.est
          /\ Excess(c) = 0 + Pos(c.amount - c.est)
      BY <2>3 DEF FirmOf, Excess
    <3> QED BY <2>1, <3>1 DEF Pos
  <2> QED BY <2>2, <2>3
<1>3. ASSUME NEW k \in Keys
      PROVE  Spent(Of(k)) <=
               Capacity + SumFunctionOnSet([i \in Of(k) |-> Excess(charge[i])], Of(k))
  <2>1. PICK S : S = Of(k)
    OBVIOUS
  <2>2. S = InTime(charge, now, k)
    BY <2>1 DEF Of, InWindow, Charged, InTime
  <2>3. IsFiniteSet(S) /\ \A i \in S : charge[i] \in Paid
    BY <1>1, <2>2, FirmFacts
  <2>4. PICK f : f = [i \in S |-> charge[i].amount]
    OBVIOUS
  <2>5. PICK g : g = [i \in S |-> FirmOf(charge[i])]
    OBVIOUS
  <2>6. PICK h : h = [i \in S |-> Excess(charge[i])]
    OBVIOUS
  <2>7. \A i \in S : f[i] = charge[i].amount /\ g[i] = FirmOf(charge[i]) /\ h[i] = Excess(charge[i])
    BY <2>4, <2>5, <2>6
  <2>8. \A i \in S : f[i] \in Nat /\ g[i] \in Nat /\ h[i] \in Nat /\ f[i] <= g[i] + h[i]
    BY <1>2, <2>3, <2>7
  <2>9. /\ SumFunctionOnSet(f, S) \in Nat /\ SumFunctionOnSet(g, S) \in Nat
        /\ SumFunctionOnSet(h, S) \in Nat
        /\ SumFunctionOnSet(f, S) <= SumFunctionOnSet(g, S) + SumFunctionOnSet(h, S)
    BY ONLY <2>3, <2>8, SumCover
  <2>10. SumFunctionOnSet(g, S) <= Capacity
    <3>1. FirmSum(charge, now, k) = SumFunctionOnSet(g, S)
      BY <2>2, <2>5 DEF FirmSum
    <3> QED BY <3>1 DEF RaceInv
  <2>11. Spent(S) = SumFunctionOnSet(f, S)
    BY <2>4 DEF Spent
  <2> QED BY <2>1, <2>6, <2>9, <2>10, <2>11, LimitConstants
<1>4. OvershootOnlyByRaces
  BY <1>3 DEF OvershootOnlyByRaces
<1>5. ReservationsPassedOnlyByRaces
  <2>1. PICK U : U = FirmOpen(resv, charge, now)
    OBVIOUS
  <2>2. PICK O : O = Open
    OBVIOUS
  <2>3. PICK X : X = Raced
    OBVIOUS
  <2>4. O \subseteq U \cup X
    <3>1. ASSUME NEW i \in O PROVE i \in U \cup X
      <4>1. i \in Ids /\ resv[i] # Void /\ charge[i].at + Timeout > now
        BY <2>2 DEF Open, Live
      <4>2. charge[i] # Void
        BY <1>1, <4>1 DEF ChargesSound, OneCharge
      <4> QED BY <2>1, <2>3, <4>1, <4>2 DEF FirmOpen, Raced, Charged
    <3> QED BY <3>1
  <2>5. IsFiniteSet(X) /\ Cardinality(X) \in Nat
    <3>1. IsFiniteSet(1..Cardinality(Requests))
      BY WinConstants, FS_Interval
    <3>2. X \subseteq 1..Cardinality(Requests)
      BY <2>3 DEF Raced, Ids
    <3> QED BY <3>1, <3>2, FS_Subset, FS_CardinalityType
  <2>6. IsFiniteSet(U) /\ Cardinality(U) \in Nat /\ Cardinality(U) <= MaxActive
    BY <2>1, FirmOpenFacts DEF RaceInv
  <2>7. PICK W : W = U \cup X
    OBVIOUS
  <2>8. /\ IsFiniteSet(W) /\ Cardinality(W) \in Nat /\ Cardinality(U \cap X) \in Nat
        /\ Cardinality(W) = Cardinality(U) + Cardinality(X) - Cardinality(U \cap X)
    <3>1. U \cap X \subseteq U
      OBVIOUS
    <3>2. IsFiniteSet(W) /\ IsFiniteSet(U \cap X)
      BY <2>5, <2>6, <2>7, <3>1, FS_Union, FS_Subset
    <3> QED BY <2>5, <2>6, <2>7, <3>2, FS_Union, FS_CardinalityType
  <2>9. Cardinality(O) <= Cardinality(W) /\ Cardinality(O) \in Nat
    BY <2>4, <2>7, <2>8, FS_Subset, FS_CardinalityType
  <2> QED BY <2>2, <2>3, <2>5, <2>6, <2>8, <2>9, LimitConstants DEF ReservationsPassedOnlyByRaces
<1> QED BY <1>4, <1>5

\* The shared window, for any number of gateways and requests, and with transactions
\* lost, late or sent twice: every counter the window covers is the sum of its charges,
\* every reservation that can still be settled counts, and budget and cap are passed only
\* by admissions that raced with another one, or by usage above its estimate.
THEOREM SharedWindowSound == Spec => []WindowSound
<1>1. Init => WinInv /\ RaceInv
  BY WinInitially, RaceInitially
<1>2. WinInv /\ RaceInv /\ [Next]_vars => WinInv' /\ RaceInv'
  BY WinKept, RaceKept
<1>3. WinInv /\ RaceInv => WindowSound
  BY WinExact, RaceSays DEF WindowSound
<1> QED BY <1>1, <1>2, <1>3, PTL DEF Spec

-----------------------------------------------------------------------------
(* Both                                                                    *)

\* Nothing that reaches the server late changes what was reported settled in
\* the window or settled or expired in the bucket, nor drops a bucket that is
\* not full: settlements retried, abandoned or run after their client gave up.
THEOREM LateStaysHarmless == Spec /\ TbSpec => LateIsHarmless
  BY WindowReportsFinal, ReservationsSettleOnce, BucketsExpireFull, PTL DEF LateIsHarmless

=============================================================================
