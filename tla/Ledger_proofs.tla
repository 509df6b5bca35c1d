---------------------------- MODULE Ledger_proofs ----------------------------
(***************************************************************************)
(* Proofs about Ledger, for every set of threads and keys, every budget,   *)
(* timeout and limit: the maps, the atomics and the history of admissions  *)
(* agree in every interleaving of reserve, reconcile and cleanup; a        *)
(* KeyState sums to what was admitted on its key and still counts; what    *)
(* was admitted fits every budget; and the ledger implements               *)
(* ReservationBudget.                                                      *)
(***************************************************************************)
EXTENDS Ledger, FiniteSums, SequenceTheorems

-----------------------------------------------------------------------------
(* The inductive invariant                                                 *)

\* The maps from some of the ids to values in T.
Partial(T) == UNION {[S -> T] : S \in SUBSET Ids}

KeyStates == [settled : Seq(Usages), active : Partial(ActiveReservations)]

Types ==
  /\ clock \in 0..MaxClock
  /\ keys \in [Keys -> Cells \cup {None}]
  /\ cells \in [Cells -> KeyStates]
  /\ reservations \in Partial(Keys)
  /\ next_id \in 1..(MaxId + 1)
  /\ key_count \in Nat
  /\ active_reservations \in Nat
  /\ op \in [Threads -> Calls]
  /\ charge \in Partial(Charges)

\* What a call has read by the access it makes next.
InReserve == {"lookup", "lock", "forget", "uncount", "admit", "publish"}
WithCell == {"lock", "forget", "uncount", "admit", "publish", "remove", "dropkey"}

Shape(o) ==
  /\ o.pc = "idle" => o = NoCall
  /\ o.pc \in {"admit", "publish"} => o.call = "reserve"
  /\ o.pc = "lookup" => o.call \in {"reserve", "reconcile"} /\ o.key \in Keys
  /\ o.pc \in {"next", "remove", "dropkey"} => o.call = "cleanup"
  /\ o.call = "reserve" /\ o.pc \in InReserve => o.tokens \in Nat
  /\ o.pc \in WithCell => o.call # None /\ o.key \in Keys /\ o.cell \in Cells
  /\ o.pc \notin {"forget", "uncount"} => o.expired = {}
  /\ o.result = "Noop" => o.pc = "done"

Shapes == \A t \in Threads : Shape(op[t])

\* No Arc is in the map twice.
KeysApart == \A j, k \in Keys : keys[j] # None /\ keys[j] = keys[k] => j = k

\* A reservation is active exactly while its admission is unsettled, in the
\* cell that the map holds for its key.
ActiveCharged ==
  \A c \in Cells : \A id \in DOMAIN cells[c].active :
    id \in DOMAIN charge /\ ~charge[id].settled /\ keys[charge[id].key] = c

ChargedActive ==
  \A id \in DOMAIN charge : ~charge[id].settled =>
    keys[charge[id].key] # None /\ id \in DOMAIN cells[keys[charge[id].key]].active

\* A reconcile that has taken an id and not yet settled it; a call that has an id
\* which `reservations` does not hold.
Settling(o) == o.call = "reconcile" /\ o.pc \in {"lookup", "lock"}
Holds(o) == o.pc = "publish" \/ Settling(o)

\* What a call relies on when it uses what it read earlier.  A guard keeps its
\* cell in the map; a reconcile, which has no guard, may find its cell detached,
\* but then the reservation is settled.
Carries(o) ==
  /\ o.call = "reserve" /\ o.pc \in ReserveGuard => keys[o.key] = o.cell
  /\ o.call = "cleanup" /\ o.pc \in CleanupGuard => keys[o.key] = o.cell
  /\ Holds(o) => /\ o.id \in DOMAIN charge /\ charge[o.id].key = o.key
                 /\ o.id \notin DOMAIN reservations
  /\ o.pc = "publish" => ~charge[o.id].settled
  /\ o.call = "reconcile" /\ o.pc = "lock" => charge[o.id].settled \/ keys[o.key] = o.cell
  /\ o.result = "Noop" => o.id \in DOMAIN charge

Carried == \A t \in Threads : Carries(op[t])

HeldApart ==
  \A t, u \in Threads : Holds(op[t]) /\ Holds(op[u]) /\ op[t].id = op[u].id => t = u

\* Every id given out is older than next_id, and the calls that will ask for one
\* stay within the bound.
Asks(o) == o.call = "reserve" /\ o.pc \in InReserve \ {"publish"}
Asking == {t \in Threads : Asks(op[t])}

IdsFresh ==
  /\ \A id \in DOMAIN charge : id < next_id
  /\ next_id + Cardinality(Asking) <= MaxId + 1

\* An entry of `reservations` names the key of its admission, and outlives the
\* reservation only while its reaper is about to remove it.
Forgets(o) == o.pc = "forget" \/ o.call = "reconcile"

EntriesLive ==
  \A id \in DOMAIN reservations :
    /\ id \in DOMAIN charge /\ reservations[id] = charge[id].key
    /\ charge[id].settled => \E t \in Threads : id \in op[t].expired /\ Forgets(op[t])

\* An unsettled admission can be reconciled, or is in the hands of a call.
UnsettledHeld ==
  \A id \in DOMAIN charge : ~charge[id].settled =>
    id \in DOMAIN reservations \/ \E t \in Threads : Holds(op[t]) /\ op[t].id = id

\* reconcile answers Noop only for what is settled or being settled.
Justified(t) ==
  op[t].result = "Noop" =>
    \/ charge[op[t].id].settled
    \/ \E u \in Threads : u # t /\ Settling(op[u]) /\ op[u].id = op[t].id

NoopsJustified == \A t \in Threads : Justified(t)

\* The atomics, and the limits their guards keep.
Uncounts(o) == o.call = "reconcile" /\ o.pc = "uncount"
Drops(o) == o.pc = "dropkey"
Dropping == {t \in Threads : Drops(op[t])}

ActiveExact ==
  /\ active_reservations =
       Cardinality(Active) + Cardinality(Reaped) + Cardinality(Forgotten)
  /\ active_reservations <= MaxActive

KeysExact ==
  /\ key_count = Cardinality(PresentKeys) + Cardinality(Dropping)
  /\ key_count <= MaxKeys

\* What a reap gave up on is settled.
ExpiredSettled ==
  \A t \in Threads : \A id \in op[t].expired :
    id \in DOMAIN charge /\ charge[id].settled

LedgerInv ==
  /\ Types /\ Shapes /\ KeysApart /\ DetachedCellsEmpty /\ ActiveCharged
  /\ ChargedActive /\ Carried /\ HeldApart /\ IdsFresh /\ EntriesLive
  /\ UnsettledHeld /\ ExpiredSettled /\ NoopsJustified /\ ActiveExact /\ KeysExact

-----------------------------------------------------------------------------
(* Maps, sequences and the reap                                            *)

\* What a partial map is.
LEMMA PartialFacts ==
  ASSUME NEW T, NEW f \in Partial(T)
  PROVE  /\ DOMAIN f \in SUBSET Ids
         /\ f \in [DOMAIN f -> T]
         /\ \A id \in DOMAIN f : f[id] \in T
  BY DEF Partial

\* A function on some of the ids is a partial map.
LEMMA PartialIntro ==
  ASSUME NEW T, NEW S \in SUBSET Ids, NEW f \in [S -> T]
  PROVE  f \in Partial(T)
  BY DEF Partial

\* HashMap::insert keeps a map a map.
LEMMA InsertedType ==
  ASSUME NEW T, NEW f \in Partial(T), NEW id \in Ids, NEW v \in T
  PROVE  Inserted(f, id, v) \in Partial(T)
<1>1. DOMAIN f \in SUBSET Ids /\ \A x \in DOMAIN f : f[x] \in T
  BY PartialFacts
<1>2. PICK S : S = DOMAIN f \cup {id}
  OBVIOUS
<1>3. PICK g : g = Inserted(f, id, v)
  OBVIOUS
<1>4. g = [x \in S |-> IF x = id THEN v ELSE f[x]]
  BY <1>2, <1>3 DEF Inserted
<1>5. S \in SUBSET Ids /\ g \in [S -> T]
  BY <1>1, <1>2, <1>4
<1> QED BY <1>3, <1>5, PartialIntro

\* HashMap::remove keeps a map a map.
LEMMA RestrictFacts ==
  ASSUME NEW T, NEW f \in Partial(T), NEW S \in SUBSET DOMAIN f
  PROVE  /\ Restrict(f, S) \in Partial(T)
         /\ DOMAIN Restrict(f, S) = S
         /\ \A x \in S : Restrict(f, S)[x] = f[x]
<1>1. DOMAIN f \in SUBSET Ids /\ \A x \in DOMAIN f : f[x] \in T
  BY PartialFacts
<1>2. PICK g : g = Restrict(f, S)
  OBVIOUS
<1>3. g = [x \in S |-> f[x]]
  BY <1>2 DEF Restrict
<1>4. S \in SUBSET Ids /\ g \in [S -> T]
  BY <1>1, <1>3
<1>5. g \in Partial(T)
  BY <1>4, PartialIntro
<1> QED BY <1>2, <1>3, <1>5

\* What the history notes of an admission.
LEMMA ChargeFacts ==
  ASSUME Types, NEW id \in DOMAIN charge
  PROVE  id \in Ids /\ charge[id] \in Charges /\ charge[id].key \in Keys
<1>1. charge \in Partial(Charges)
  BY DEF Types
<1>2. DOMAIN charge \in SUBSET Ids /\ charge[id] \in Charges
  BY <1>1, PartialFacts
<1> QED BY <1>2 DEF Charges

\* The usage that is left is usage.
LEMMA PopExpiredType ==
  ASSUME NEW q \in Seq(Usages), NEW now \in Nat
  PROVE  PopExpired(q, now) \in Seq(Usages)
<1>1. PICK live : live = {i \in DOMAIN q : SatSub(now, q[i].at_ms) < MaxWindow}
  OBVIOUS
<1>2. PopExpired(q, now) = IF live = {} THEN <<>> ELSE SubSeq(q, Min(live), Len(q))
  BY <1>1 DEF PopExpired
<1>3. CASE live = {}
  BY <1>2, <1>3
<1>4. CASE live # {}
  <2>1. DOMAIN q = 1..Len(q) /\ Len(q) \in Nat /\ \A i \in 1..Len(q) : q[i] \in Usages
    OBVIOUS
  <2>2. live \subseteq Nat /\ live \subseteq 1..Len(q)
    BY <1>1, <2>1
  <2>3. \E x \in live : \A y \in live : x <= y
    BY <1>4, <2>2, LeastExists
  <2>4. PICK m : m = Min(live)
    OBVIOUS
  <2>5. m \in live
    BY <2>3, <2>4 DEF Min
  <2>6. m \in Int /\ Len(q) \in Int /\ \A i \in m..Len(q) : q[i] \in Usages
    BY <2>1, <2>2, <2>5
  <2>7. SubSeq(q, m, Len(q)) \in Seq(Usages)
    BY <2>6, SubSeqProperties
  <2> QED BY <1>2, <1>4, <2>4, <2>7
<1> QED BY <1>3, <1>4

\* KeyState::reap takes the expired reservations out, and nothing else.
LEMMA ReapFacts ==
  ASSUME NEW s \in KeyStates, NEW now \in Nat, NEW r \in Reap(s, now)
  PROVE  /\ r \in KeyStates
         /\ Expired(s, now) \in SUBSET DOMAIN s.active
         /\ DOMAIN r.active = DOMAIN s.active \ Expired(s, now)
<1>1. PICK E : E = Expired(s, now)
  OBVIOUS
<1>2. E \in SUBSET DOMAIN s.active
  BY <1>1 DEF Expired
<1>3. s.settled \in Seq(Usages) /\ s.active \in Partial(ActiveReservations)
  BY DEF KeyStates
<1>4. /\ DOMAIN s.active \in SUBSET Ids
      /\ \A id \in DOMAIN s.active : s.active[id] \in ActiveReservations
  BY <1>3, PartialFacts
<1>5. PICK order \in SetToSeqs(E) :
        r = [settled |-> PopExpired(
                           s.settled \o
                             [i \in DOMAIN order |->
                                [at_ms  |-> s.active[order[i]].created_at_ms,
                                 tokens |-> s.active[order[i]].estimate]],
                           now),
             active  |-> Restrict(s.active, DOMAIN s.active \ E)]
  BY <1>1 DEF Reap
<1>6. IsFiniteSet(Ids)
  BY DomainAssumption, FS_Interval DEF Ids
<1>7. E \subseteq Ids
  BY <1>2, <1>4
<1>8. IsFiniteSet(E)
  BY <1>6, <1>7, FS_Subset
<1>9. PICK n \in Nat : n = Cardinality(E)
  BY <1>8, FS_CardinalityType
<1>10. order \in [1..n -> E]
  BY <1>5, <1>9 DEF SetToSeqs
<1>11. PICK q : q = [i \in 1..n |-> [at_ms  |-> s.active[order[i]].created_at_ms,
                                     tokens |-> s.active[order[i]].estimate]]
  OBVIOUS
<1>12. \A i \in 1..n : [at_ms  |-> s.active[order[i]].created_at_ms,
                        tokens |-> s.active[order[i]].estimate] \in Usages
  BY <1>2, <1>4, <1>10 DEF Usages, ActiveReservations
<1>13. q \in [1..n -> Usages]
  BY <1>11, <1>12
<1>14. q \in Seq(Usages)
  BY <1>13
<1>15. PICK w : w = s.settled \o q
  OBVIOUS
<1>16. w \in Seq(Usages)
  BY <1>3, <1>14, <1>15, ConcatProperties
<1>17. DOMAIN order = 1..n
  BY <1>10
<1>18. r = [settled |-> PopExpired(w, now), active |-> Restrict(s.active, DOMAIN s.active \ E)]
  BY <1>5, <1>11, <1>15, <1>17
<1>19. PopExpired(w, now) \in Seq(Usages)
  BY <1>16, PopExpiredType
<1>20. PICK S : S = DOMAIN s.active \ E
  OBVIOUS
<1>21. S \in SUBSET DOMAIN s.active
  BY <1>20
<1>22. Restrict(s.active, S) \in Partial(ActiveReservations) /\ DOMAIN Restrict(s.active, S) = S
  BY <1>3, <1>21, RestrictFacts
<1> QED BY <1>1, <1>2, <1>18, <1>19, <1>20, <1>22 DEF KeyStates

-----------------------------------------------------------------------------
(* Counting                                                                *)

\* The sets the counters range over are finite.
LEMMA FiniteSets ==
  /\ IsFiniteSet(Threads) /\ IsFiniteSet(Keys) /\ IsFiniteSet(Ids) /\ IsFiniteSet(Cells)
<1>1. Cardinality(Keys) \in Nat /\ Cardinality(Threads) \in Nat
  BY DomainAssumption, FS_CardinalityType
<1>2. PICK n \in Nat : n = Cardinality(Keys) + Cardinality(Threads)
  BY <1>1
<1>3. IsFiniteSet(1..n) /\ IsFiniteSet(1..MaxId)
  BY DomainAssumption, FS_Interval
<1> QED BY <1>2, <1>3, DomainAssumption DEF Ids, Cells

\* Two sets of threads that differ in one thread at most.
LEMMA CountThreads ==
  ASSUME NEW t \in Threads, NEW S \in SUBSET Threads, NEW R \in SUBSET Threads,
         \A u \in Threads : u # t => (u \in S <=> u \in R)
  PROVE  /\ Cardinality(S) \in Nat /\ Cardinality(R) \in Nat
         /\ (t \in S <=> t \in R) => Cardinality(R) = Cardinality(S)
         /\ t \in S /\ t \notin R => Cardinality(R) = Cardinality(S) - 1
         /\ t \notin S /\ t \in R => Cardinality(R) = Cardinality(S) + 1
<1>1. IsFiniteSet(S) /\ IsFiniteSet(R)
  BY FiniteSets, FS_Subset
<1>2. Cardinality(S) \in Nat /\ Cardinality(R) \in Nat
  BY <1>1, FS_CardinalityType
<1>3. ASSUME t \in S <=> t \in R PROVE Cardinality(R) = Cardinality(S)
  <2>1. R = S
    BY <1>3
  <2> QED BY <2>1
<1>4. ASSUME t \in S, t \notin R PROVE Cardinality(R) = Cardinality(S) - 1
  <2>1. R = S \ {t}
    BY <1>4
  <2> QED BY <1>1, <1>4, <2>1, FS_RemoveElement
<1>5. ASSUME t \notin S, t \in R PROVE Cardinality(R) = Cardinality(S) + 1
  <2>1. R = S \cup {t}
    BY <1>5
  <2> QED BY <1>1, <1>5, <2>1, FS_AddElement
<1> QED BY <1>2, <1>3, <1>4, <1>5

\* Pairs are counted by one first component and the rest.
Line(S, a, B) == {b \in B : <<a, b>> \in S}
Rest(S, a) == {p \in S : p[1] # a}

\* What a set of pairs counts to.
LEMMA CountPairs ==
  ASSUME NEW A, NEW B, IsFiniteSet(A), IsFiniteSet(B),
         NEW S \in SUBSET (A \X B), NEW a \in A
  PROVE  /\ Cardinality(S) \in Nat
         /\ Cardinality(Rest(S, a)) \in Nat
         /\ Cardinality(Line(S, a, B)) \in Nat
         /\ Cardinality(S) = Cardinality(Rest(S, a)) + Cardinality(Line(S, a, B))
<1>1. PICK E : E = Line(S, a, B)
  OBVIOUS
<1>2. PICK rest : rest = Rest(S, a)
  OBVIOUS
<1>3. PICK line : line = {a} \X E
  OBVIOUS
<1>4. IsFiniteSet(A \X B)
  BY FS_Product
<1>5. rest \subseteq A \X B /\ S \subseteq A \X B /\ E \subseteq B
  BY <1>1, <1>2 DEF Rest, Line
<1>6. IsFiniteSet(S) /\ IsFiniteSet(rest) /\ IsFiniteSet(E)
  BY <1>4, <1>5, FS_Subset
<1>7. IsFiniteSet({a}) /\ Cardinality({a}) = 1
  BY FS_Singleton
<1>8. IsFiniteSet(line) /\ Cardinality(line) = 1 * Cardinality(E)
  BY <1>3, <1>6, <1>7, FS_Product
<1>9. \A b \in B : b \in E <=> <<a, b>> \in S
  BY <1>1 DEF Line
<1>10. S = rest \cup line
  BY <1>2, <1>3, <1>5, <1>9 DEF Rest
<1>11. rest \cap line = {}
  BY <1>2, <1>3 DEF Rest
<1>12. Cardinality(S) \in Nat /\ Cardinality(rest) \in Nat /\ Cardinality(E) \in Nat
  BY <1>6, FS_CardinalityType
<1>13. Cardinality(rest \cap line) = 0
  BY <1>11, FS_EmptySet
<1>14. Cardinality(S) = Cardinality(rest) + Cardinality(line) - Cardinality(rest \cap line)
  BY <1>6, <1>8, <1>10, FS_Union
<1> QED BY <1>1, <1>2, <1>8, <1>12, <1>13, <1>14

\* Two sets of pairs that differ at one first component at most.
LEMMA MovePairs ==
  ASSUME NEW A, NEW B, IsFiniteSet(A), IsFiniteSet(B), NEW a \in A,
         NEW S \in SUBSET (A \X B), NEW R \in SUBSET (A \X B), Rest(S, a) = Rest(R, a)
  PROVE  /\ Cardinality(S) \in Nat /\ Cardinality(R) \in Nat
         /\ Cardinality(Line(S, a, B)) \in Nat /\ Cardinality(Line(R, a, B)) \in Nat
         /\ Cardinality(R) + Cardinality(Line(S, a, B)) = Cardinality(S) + Cardinality(Line(R, a, B))
<1>1. /\ Cardinality(S) \in Nat
      /\ Cardinality(Rest(S, a)) \in Nat
      /\ Cardinality(Line(S, a, B)) \in Nat
      /\ Cardinality(S) = Cardinality(Rest(S, a)) + Cardinality(Line(S, a, B))
  BY CountPairs, Zenon
<1>2. /\ Cardinality(R) \in Nat
      /\ Cardinality(Rest(R, a)) \in Nat
      /\ Cardinality(Line(R, a, B)) \in Nat
      /\ Cardinality(R) = Cardinality(Rest(R, a)) + Cardinality(Line(R, a, B))
  BY CountPairs, Zenon
<1> QED BY <1>1, <1>2

\* The reservations in KeyStates, when one cell changes.
LEMMA CountActive ==
  ASSUME Types, Types', NEW c \in Cells,
         \A d \in Cells : d # c => DOMAIN cells'[d].active = DOMAIN cells[d].active
  PROVE  /\ Cardinality(Active) \in Nat /\ Cardinality(Active') \in Nat
         /\ Cardinality(DOMAIN cells[c].active) \in Nat
         /\ Cardinality(DOMAIN cells'[c].active) \in Nat
         /\ Cardinality(Active') + Cardinality(DOMAIN cells[c].active)
              = Cardinality(Active) + Cardinality(DOMAIN cells'[c].active)
<1>1. PICK E : E = DOMAIN cells[c].active
  OBVIOUS
<1>2. PICK F : F = DOMAIN cells'[c].active
  OBVIOUS
<1>3. /\ cells[c].active \in Partial(ActiveReservations)
      /\ cells'[c].active \in Partial(ActiveReservations)
  BY DEF Types, KeyStates
<1>4. E \in SUBSET Ids /\ F \in SUBSET Ids
  BY <1>1, <1>2, <1>3, PartialFacts
<1>5. PICK S : S = Active
  OBVIOUS
<1>6. PICK R : R = Active'
  OBVIOUS
<1>7. S \in SUBSET (Cells \X Ids) /\ R \in SUBSET (Cells \X Ids)
  BY <1>5, <1>6 DEF Active
<1>8. \A d \in Cells, id \in Ids : /\ <<d, id>> \in S <=> id \in DOMAIN cells[d].active
                                   /\ <<d, id>> \in R <=> id \in DOMAIN cells'[d].active
  BY <1>5, <1>6 DEF Active
<1>9. Line(S, c, Ids) = E /\ Line(R, c, Ids) = F
  BY <1>1, <1>2, <1>4, <1>7, <1>8 DEF Line
<1>10. Rest(S, c) = Rest(R, c)
  BY <1>7, <1>8 DEF Rest
<1>11. /\ Cardinality(S) \in Nat /\ Cardinality(R) \in Nat
       /\ Cardinality(Line(S, c, Ids)) \in Nat /\ Cardinality(Line(R, c, Ids)) \in Nat
       /\ Cardinality(R) + Cardinality(Line(S, c, Ids)) = Cardinality(S) + Cardinality(Line(R, c, Ids))
  BY <1>7, <1>10, FiniteSets, MovePairs
<1> QED BY <1>1, <1>2, <1>5, <1>6, <1>9, <1>11

\* The reservations still to be taken off the counter, when one thread moves.
LEMMA CountReaped ==
  ASSUME Types, NEW t \in Threads, NEW r \in Calls, op' = [op EXCEPT ![t] = r]
  PROVE  /\ Cardinality(Reaped) \in Nat /\ Cardinality(Reaped') \in Nat
         /\ Cardinality(op[t].expired) \in Nat /\ Cardinality(r.expired) \in Nat
         /\ Cardinality(Reaped') + Cardinality(op[t].expired)
              = Cardinality(Reaped) + Cardinality(r.expired)
<1>1. PICK E : E = op[t].expired
  OBVIOUS
<1>2. PICK F : F = r.expired
  OBVIOUS
<1>3. E \in SUBSET Ids /\ F \in SUBSET Ids
  BY <1>1, <1>2 DEF Types, Calls
<1>4. op'[t] = r /\ \A u \in Threads : u # t => op'[u] = op[u]
  BY DEF Types
<1>5. PICK S : S = Reaped
  OBVIOUS
<1>6. PICK R : R = Reaped'
  OBVIOUS
<1>7. S \in SUBSET (Threads \X Ids) /\ R \in SUBSET (Threads \X Ids)
  BY <1>5, <1>6 DEF Reaped
<1>8. \A u \in Threads, id \in Ids : /\ <<u, id>> \in S <=> id \in op[u].expired
                                     /\ <<u, id>> \in R <=> id \in op'[u].expired
  BY <1>5, <1>6 DEF Reaped
<1>9. Line(S, t, Ids) = E /\ Line(R, t, Ids) = F
  BY <1>1, <1>2, <1>3, <1>4, <1>7, <1>8 DEF Line
<1>10. Rest(S, t) = Rest(R, t)
  BY <1>4, <1>7, <1>8 DEF Rest
<1>11. /\ Cardinality(S) \in Nat /\ Cardinality(R) \in Nat
       /\ Cardinality(Line(S, t, Ids)) \in Nat /\ Cardinality(Line(R, t, Ids)) \in Nat
       /\ Cardinality(R) + Cardinality(Line(S, t, Ids)) = Cardinality(S) + Cardinality(Line(R, t, Ids))
  BY <1>7, <1>10, FiniteSets, MovePairs
<1> QED BY <1>1, <1>2, <1>5, <1>6, <1>9, <1>11

\* The threads between two accesses that belong together, when one thread moves.
LEMMA CountForgotten ==
  ASSUME Types, NEW t \in Threads, NEW r \in Calls, op' = [op EXCEPT ![t] = r]
  PROVE  /\ Cardinality(Forgotten) \in Nat /\ Cardinality(Forgotten') \in Nat
         /\ (Uncounts(op[t]) <=> Uncounts(r)) => Cardinality(Forgotten') = Cardinality(Forgotten)
         /\ Uncounts(op[t]) /\ ~Uncounts(r) => Cardinality(Forgotten') = Cardinality(Forgotten) - 1
         /\ ~Uncounts(op[t]) /\ Uncounts(r) => Cardinality(Forgotten') = Cardinality(Forgotten) + 1
<1>1. op'[t] = r /\ \A u \in Threads : u # t => op'[u] = op[u]
  BY DEF Types
<1>2. PICK S : S = Forgotten
  OBVIOUS
<1>3. PICK R : R = Forgotten'
  OBVIOUS
<1>4. S \in SUBSET Threads /\ R \in SUBSET Threads
  BY <1>2, <1>3 DEF Forgotten
<1>5. \A u \in Threads : (u \in S <=> Uncounts(op[u])) /\ (u \in R <=> Uncounts(op'[u]))
  BY <1>2, <1>3 DEF Forgotten, Uncounts
<1>6. (t \in S <=> Uncounts(op[t])) /\ (t \in R <=> Uncounts(r))
  BY <1>1, <1>5
<1>7. \A u \in Threads : u # t => (u \in S <=> u \in R)
  BY <1>1, <1>5
<1>8. /\ Cardinality(S) \in Nat /\ Cardinality(R) \in Nat
      /\ (t \in S <=> t \in R) => Cardinality(R) = Cardinality(S)
      /\ t \in S /\ t \notin R => Cardinality(R) = Cardinality(S) - 1
      /\ t \notin S /\ t \in R => Cardinality(R) = Cardinality(S) + 1
  BY <1>4, <1>7, CountThreads
<1>9. /\ Cardinality(Forgotten) \in Nat /\ Cardinality(Forgotten') \in Nat
      /\ (Uncounts(op[t]) <=> Uncounts(r)) => Cardinality(Forgotten') = Cardinality(Forgotten)
      /\ Uncounts(op[t]) /\ ~Uncounts(r) => Cardinality(Forgotten') = Cardinality(Forgotten) - 1
      /\ ~Uncounts(op[t]) /\ Uncounts(r) => Cardinality(Forgotten') = Cardinality(Forgotten) + 1
  BY <1>2, <1>3, <1>6, <1>8
<1> QED BY <1>9

\* reserve calls that will ask for an id, when one thread moves.
LEMMA CountAsking ==
  ASSUME Types, NEW t \in Threads, NEW r \in Calls, op' = [op EXCEPT ![t] = r]
  PROVE  /\ Cardinality(Asking) \in Nat /\ Cardinality(Asking') \in Nat
         /\ (Asks(op[t]) <=> Asks(r)) => Cardinality(Asking') = Cardinality(Asking)
         /\ Asks(op[t]) /\ ~Asks(r) => Cardinality(Asking') = Cardinality(Asking) - 1
         /\ ~Asks(op[t]) /\ Asks(r) => Cardinality(Asking') = Cardinality(Asking) + 1
<1>1. op'[t] = r /\ \A u \in Threads : u # t => op'[u] = op[u]
  BY DEF Types
<1>2. PICK S : S = Asking
  OBVIOUS
<1>3. PICK R : R = Asking'
  OBVIOUS
<1>4. S \in SUBSET Threads /\ R \in SUBSET Threads
  BY <1>2, <1>3 DEF Asking
<1>5. \A u \in Threads : (u \in S <=> Asks(op[u])) /\ (u \in R <=> Asks(op'[u]))
  BY <1>2, <1>3 DEF Asking, Asks
<1>6. (t \in S <=> Asks(op[t])) /\ (t \in R <=> Asks(r))
  BY <1>1, <1>5
<1>7. \A u \in Threads : u # t => (u \in S <=> u \in R)
  BY <1>1, <1>5
<1>8. /\ Cardinality(S) \in Nat /\ Cardinality(R) \in Nat
      /\ (t \in S <=> t \in R) => Cardinality(R) = Cardinality(S)
      /\ t \in S /\ t \notin R => Cardinality(R) = Cardinality(S) - 1
      /\ t \notin S /\ t \in R => Cardinality(R) = Cardinality(S) + 1
  BY <1>4, <1>7, CountThreads
<1> QED BY <1>2, <1>3, <1>6, <1>8

\* Cleanups between remove_if and their fetch_sub, when one thread moves.
LEMMA CountDropping ==
  ASSUME Types, NEW t \in Threads, NEW r \in Calls, op' = [op EXCEPT ![t] = r]
  PROVE  /\ Cardinality(Dropping) \in Nat /\ Cardinality(Dropping') \in Nat
         /\ (Drops(op[t]) <=> Drops(r)) => Cardinality(Dropping') = Cardinality(Dropping)
         /\ Drops(op[t]) /\ ~Drops(r) => Cardinality(Dropping') = Cardinality(Dropping) - 1
         /\ ~Drops(op[t]) /\ Drops(r) => Cardinality(Dropping') = Cardinality(Dropping) + 1
<1>1. op'[t] = r /\ \A u \in Threads : u # t => op'[u] = op[u]
  BY DEF Types
<1>2. PICK S : S = Dropping
  OBVIOUS
<1>3. PICK R : R = Dropping'
  OBVIOUS
<1>4. S \in SUBSET Threads /\ R \in SUBSET Threads
  BY <1>2, <1>3 DEF Dropping
<1>5. \A u \in Threads : (u \in S <=> Drops(op[u])) /\ (u \in R <=> Drops(op'[u]))
  BY <1>2, <1>3 DEF Dropping, Drops
<1>6. (t \in S <=> Drops(op[t])) /\ (t \in R <=> Drops(r))
  BY <1>1, <1>5
<1>7. \A u \in Threads : u # t => (u \in S <=> u \in R)
  BY <1>1, <1>5
<1>8. /\ Cardinality(S) \in Nat /\ Cardinality(R) \in Nat
      /\ (t \in S <=> t \in R) => Cardinality(R) = Cardinality(S)
      /\ t \in S /\ t \notin R => Cardinality(R) = Cardinality(S) - 1
      /\ t \notin S /\ t \in R => Cardinality(R) = Cardinality(S) + 1
  BY <1>4, <1>7, CountThreads
<1>9. /\ Cardinality(Dropping) \in Nat /\ Cardinality(Dropping') \in Nat
      /\ (Drops(op[t]) <=> Drops(r)) => Cardinality(Dropping') = Cardinality(Dropping)
      /\ Drops(op[t]) /\ ~Drops(r) => Cardinality(Dropping') = Cardinality(Dropping) - 1
      /\ ~Drops(op[t]) /\ Drops(r) => Cardinality(Dropping') = Cardinality(Dropping) + 1
  BY <1>2, <1>3, <1>6, <1>8
<1> QED BY <1>9

\* The keys of the map are counted by a number.
LEMMA CountKeys ==
  /\ IsFiniteSet(PresentKeys) /\ Cardinality(PresentKeys) \in Nat
<1>1. PresentKeys \subseteq Keys
  BY DEF PresentKeys
<1> QED BY <1>1, FiniteSets, FS_Subset, FS_CardinalityType

-----------------------------------------------------------------------------
(* One thread moves                                                        *)

\* Thread t goes on with the locals r.
Moves(t, r) == r \in Calls /\ op' = [op EXCEPT ![t] = r]

\* Only t's locals change.
LEMMA MoveFacts ==
  ASSUME Types, NEW t \in Threads, NEW r, Moves(t, r)
  PROVE  /\ r \in Calls /\ op' = [op EXCEPT ![t] = r]
         /\ op'[t] = r
         /\ \A u \in Threads : u # t => op'[u] = op[u]
         /\ op' \in [Threads -> Calls]
  BY DEF Types, Moves

\* The other calls keep their shape.
LEMMA MoveShapes ==
  ASSUME Types, Shapes, NEW t \in Threads, NEW r, Moves(t, r), Shape(r)
  PROVE  Shapes'
<1>1. op'[t] = r /\ \A u \in Threads : u # t => op'[u] = op[u]
  BY MoveFacts
<1>2. ASSUME NEW u \in Threads PROVE Shape(op'[u])
  BY <1>1 DEF Shapes
<1> QED BY <1>2 DEF Shapes, Shape

\* Where the maps and the history stand, so does what the other calls carry.
LEMMA MoveCarried ==
  ASSUME Types, Carried, NEW t \in Threads, NEW r, Moves(t, r), Carries(r)',
         keys' = keys, charge' = charge,
         \A u \in Threads : u # t /\ Holds(op[u]) => op[u].id \notin DOMAIN reservations'
  PROVE  Carried'
<1>1. op'[t] = r /\ \A u \in Threads : u # t => op'[u] = op[u]
  BY MoveFacts
<1>2. ASSUME NEW u \in Threads, u # t PROVE Carries(op[u])'
  <2>1. op'[u] = op[u] /\ Carries(op[u])
    BY <1>1, <1>2 DEF Carried
  <2>2. Holds(op[u]) => op[u].id \notin DOMAIN reservations'
    BY <1>2
  <2> QED BY <2>1, <2>2 DEF Carries, Holds, Settling
<1>3. Carries(op[t])'
  BY <1>1 DEF Carries, Holds, Settling
<1>4. \A u \in Threads : Carries(op[u])'
  BY <1>2, <1>3
<1> QED BY <1>4 DEF Carried

\* A thread that holds no new id leaves the held ids apart.
LEMMA MoveHeld ==
  ASSUME Types, HeldApart, NEW t \in Threads, NEW r, Moves(t, r),
         Holds(r) => \A u \in Threads : u # t /\ Holds(op[u]) => op[u].id # r.id
  PROVE  HeldApart'
<1>1. op'[t] = r /\ \A u \in Threads : u # t => op'[u] = op[u]
  BY MoveFacts
<1>2. ASSUME NEW u \in Threads, NEW v \in Threads,
             Holds(op'[u]), Holds(op'[v]), op'[u].id = op'[v].id
      PROVE  u = v
  <2>1. CASE u # t /\ v # t
    BY <1>1, <1>2, <2>1 DEF HeldApart
  <2>2. CASE u = t \/ v = t
    BY <1>1, <1>2, <2>2
  <2> QED BY <2>1, <2>2
<1> QED BY <1>2 DEF HeldApart, Holds, Settling

\* A thread that asks for no new id leaves room for those that do.
LEMMA MoveIds ==
  ASSUME Types, IdsFresh, NEW t \in Threads, NEW r, Moves(t, r),
         Asks(r) => Asks(op[t]) \/ next_id + Cardinality(Asking) <= MaxId,
         next_id' = next_id, DOMAIN charge' = DOMAIN charge
  PROVE  IdsFresh'
<1>1. r \in Calls /\ op' = [op EXCEPT ![t] = r]
  BY DEF Moves
<1>2. /\ Cardinality(Asking) \in Nat /\ Cardinality(Asking') \in Nat
      /\ (Asks(op[t]) <=> Asks(r)) => Cardinality(Asking') = Cardinality(Asking)
      /\ Asks(op[t]) /\ ~Asks(r) => Cardinality(Asking') = Cardinality(Asking) - 1
      /\ ~Asks(op[t]) /\ Asks(r) => Cardinality(Asking') = Cardinality(Asking) + 1
  BY <1>1, CountAsking
<1>3. next_id \in Nat /\ MaxId \in Nat
  BY DomainAssumption DEF Types
<1>4. next_id + Cardinality(Asking) <= MaxId + 1
  BY DEF IdsFresh
<1>5. next_id + Cardinality(Asking') <= MaxId + 1
  BY <1>2, <1>3, <1>4
<1>6. \A id \in DOMAIN charge' : id < next_id'
  BY DEF IdsFresh
<1> QED BY <1>5, <1>6 DEF IdsFresh

\* A thread that stops forgetting an id only when its entry is gone keeps the
\* entries of `reservations` live.
LEMMA MoveEntries ==
  ASSUME Types, EntriesLive, NEW t \in Threads, NEW r, Moves(t, r), charge' = charge,
         \A id \in DOMAIN reservations' :
           /\ id \in DOMAIN reservations /\ reservations'[id] = reservations[id]
           /\ id \in op[t].expired /\ Forgets(op[t]) => id \in r.expired /\ Forgets(r)
  PROVE  EntriesLive'
<1>1. op'[t] = r /\ \A u \in Threads : u # t => op'[u] = op[u]
  BY MoveFacts
<1>2. ASSUME NEW id \in DOMAIN reservations', charge[id].settled
      PROVE  \E u \in Threads : id \in op'[u].expired /\ Forgets(op'[u])
  <2>1. PICK u \in Threads : id \in op[u].expired /\ Forgets(op[u])
    BY <1>2 DEF EntriesLive
  <2>2. CASE u = t
    BY <1>1, <1>2, <2>1, <2>2
  <2>3. CASE u # t
    BY <1>1, <2>1, <2>3
  <2> QED BY <2>2, <2>3
<1>3. \A id \in DOMAIN reservations' :
        /\ id \in DOMAIN charge' /\ reservations'[id] = charge'[id].key
        /\ charge'[id].settled => \E u \in Threads : id \in op'[u].expired /\ Forgets(op'[u])
  BY <1>2 DEF EntriesLive
<1> QED BY <1>3 DEF EntriesLive, Forgets

\* A thread that lets an id go only when it is settled or in `reservations`, and
\* holds what it takes from there, keeps every unsettled one in somebody's hands.
LEMMA MoveUnsettled ==
  ASSUME Types, UnsettledHeld, NEW t \in Threads, NEW r, Moves(t, r), charge' = charge,
         Holds(op[t]) => \/ Holds(r) /\ r.id = op[t].id
                         \/ charge[op[t].id].settled
                         \/ op[t].id \in DOMAIN reservations',
         \A id \in DOMAIN charge : ~charge[id].settled /\ id \in DOMAIN reservations =>
           id \in DOMAIN reservations' \/ (Holds(r) /\ r.id = id)
  PROVE  UnsettledHeld'
<1>1. op'[t] = r /\ \A u \in Threads : u # t => op'[u] = op[u]
  BY MoveFacts
<1>2. ASSUME NEW id \in DOMAIN charge, ~charge[id].settled, id \notin DOMAIN reservations'
      PROVE  \E u \in Threads : Holds(op'[u]) /\ op'[u].id = id
  <2>1. CASE id \in DOMAIN reservations
    <3>1. Holds(r) /\ r.id = id
      BY <1>2, <2>1
    <3> QED BY <1>1, <3>1
  <2>2. CASE id \notin DOMAIN reservations
    <3>1. PICK u \in Threads : Holds(op[u]) /\ op[u].id = id
      BY <1>2, <2>2 DEF UnsettledHeld
    <3>2. CASE u = t
      <4>1. Holds(r) /\ r.id = id
        BY <1>2, <3>1, <3>2
      <4> QED BY <1>1, <4>1
    <3>3. CASE u # t
      BY <1>1, <3>1, <3>3
    <3> QED BY <3>2, <3>3
  <2> QED BY <2>1, <2>2
<1> QED BY <1>2 DEF UnsettledHeld, Holds, Settling

\* Where the history stands, what the other calls reaped stays settled.
LEMMA MoveExpired ==
  ASSUME Types, ExpiredSettled, NEW t \in Threads, NEW r, Moves(t, r), charge' = charge,
         \A id \in r.expired : id \in DOMAIN charge /\ charge[id].settled
  PROVE  ExpiredSettled'
<1>1. op'[t] = r /\ \A u \in Threads : u # t => op'[u] = op[u]
  BY MoveFacts
<1> QED BY <1>1 DEF ExpiredSettled

\* Whatever answers Noop can point at the history or at another thread, and t was
\* not that thread unless its id is settled.
LEMMA MoveNoops ==
  ASSUME Types, Carried, NoopsJustified, NEW t \in Threads, NEW r, Moves(t, r),
         r.result = "Noop" => r.id \in DOMAIN charge,
         r.result = "Noop" =>
           \/ charge[r.id].settled
           \/ \E u \in Threads : u # t /\ Settling(op[u]) /\ op[u].id = r.id,
         Settling(op[t]) => (Settling(r) /\ r.id = op[t].id) \/ charge'[op[t].id].settled,
         \A id \in DOMAIN charge : charge[id].settled => charge'[id].settled
  PROVE  NoopsJustified'
<1>1. op'[t] = r /\ \A u \in Threads : u # t => op'[u] = op[u]
  BY MoveFacts
<1>2. ASSUME NEW u \in Threads, op'[u].result = "Noop"
      PROVE  \/ charge'[op'[u].id].settled
             \/ \E v \in Threads : v # u /\ Settling(op'[v]) /\ op'[v].id = op'[u].id
  <2>1. CASE u = t
    <3>1. op'[u] = r /\ r.id \in DOMAIN charge
      BY <1>1, <1>2, <2>1
    <3>2. CASE charge[r.id].settled
      BY <3>1, <3>2
    <3>3. CASE \E v \in Threads : v # t /\ Settling(op[v]) /\ op[v].id = r.id
      BY <1>1, <2>1, <3>1, <3>3
    <3> QED BY <1>2, <3>1, <3>2, <3>3
  <2>2. CASE u # t
    <3>1. op'[u] = op[u] /\ op[u].id \in DOMAIN charge
      BY <1>1, <1>2, <2>2 DEF Carried, Carries
    <3>2. CASE charge[op[u].id].settled
      BY <3>1, <3>2
    <3>3. CASE \E v \in Threads : v # u /\ Settling(op[v]) /\ op[v].id = op[u].id
      <4>1. PICK v \in Threads : v # u /\ Settling(op[v]) /\ op[v].id = op[u].id
        BY <3>3
      <4>2. CASE v # t
        BY <1>1, <3>1, <4>1, <4>2
      <4>3. CASE v = t
        BY <1>1, <2>2, <3>1, <4>1, <4>3
      <4> QED BY <4>2, <4>3
    <3> QED BY <1>2, <3>1, <3>2, <3>3 DEF NoopsJustified, Justified
  <2> QED BY <2>1, <2>2
<1> QED BY <1>2 DEF NoopsJustified, Justified, Settling

\* A step that leaves the KeyStates, the map of keys and the history alone keeps
\* the invariant when `reservations`, the counters and what the thread goes on with
\* fit together.
LEMMA CallMove ==
  ASSUME LedgerInv, NEW t \in Threads, NEW r, Moves(t, r), Shape(r), Carries(r)',
         Asks(r) => Asks(op[t]) \/ next_id + Cardinality(Asking) <= MaxId,
         Holds(r) => \A u \in Threads : u # t /\ Holds(op[u]) => op[u].id # r.id,
         \A u \in Threads : u # t /\ Holds(op[u]) => op[u].id \notin DOMAIN reservations',
         Settling(op[t]) => (Settling(r) /\ r.id = op[t].id) \/ charge[op[t].id].settled,
         r.result = "Noop" =>
           \/ charge[r.id].settled
           \/ \E u \in Threads : u # t /\ Settling(op[u]) /\ op[u].id = r.id,
         \A id \in r.expired : id \in DOMAIN charge /\ charge[id].settled,
         EntriesLive', UnsettledHeld', ActiveExact', KeysExact',
         reservations' \in Partial(Keys), active_reservations' \in Nat, key_count' \in Nat,
         UNCHANGED <<clock, keys, cells, next_id, charge>>
  PROVE  LedgerInv'
<1>1. Types /\ Shapes /\ Carried /\ HeldApart /\ IdsFresh /\ ExpiredSettled /\ NoopsJustified
  BY DEF LedgerInv
<1>2. /\ clock' = clock /\ keys' = keys /\ cells' = cells /\ charge' = charge
      /\ next_id' = next_id
  OBVIOUS
<1>3. Types'
  <2>1. op' \in [Threads -> Calls]
    BY <1>1, MoveFacts
  <2> QED BY <1>1, <1>2, <2>1 DEF Types
<1>4. Shapes'
  BY <1>1, MoveShapes
<1>5. KeysApart' /\ DetachedCellsEmpty' /\ ActiveCharged' /\ ChargedActive'
  BY <1>2 DEF LedgerInv, KeysApart, DetachedCellsEmpty, IsEmpty, ActiveCharged, ChargedActive
<1>6. Carried'
  BY <1>1, <1>2, MoveCarried
<1>7. HeldApart'
  BY <1>1, MoveHeld
<1>8. IdsFresh'
  <2>1. DOMAIN charge' = DOMAIN charge
    BY <1>2
  <2> QED BY <1>1, <1>2, <2>1, MoveIds
<1>9. ExpiredSettled'
  BY <1>1, <1>2, MoveExpired
<1>10. NoopsJustified'
  <2>1. r.result = "Noop" => r.id \in DOMAIN charge
    BY <1>2 DEF Carries
  <2>2. /\ Settling(op[t]) => (Settling(r) /\ r.id = op[t].id) \/ charge'[op[t].id].settled
        /\ \A id \in DOMAIN charge : charge[id].settled => charge'[id].settled
    BY <1>2
  <2> QED BY <1>1, <2>1, <2>2, MoveNoops
<1> QED BY <1>3, <1>4, <1>5, <1>6, <1>7, <1>8, <1>9, <1>10 DEF LedgerInv

\* The counter of reservations, when no KeyState changes.
LEMMA MoveActiveCount ==
  ASSUME Types, ActiveExact, NEW t \in Threads, NEW r, Moves(t, r), cells' = cells
  PROVE  /\ Cardinality(Active') = Cardinality(Active) /\ Cardinality(Active) \in Nat
         /\ Cardinality(op[t].expired) \in Nat /\ Cardinality(r.expired) \in Nat
         /\ (Uncounts(op[t]) <=> Uncounts(r)) =>
              Cardinality(Active') + Cardinality(Reaped') + Cardinality(Forgotten')
                = active_reservations + Cardinality(r.expired) - Cardinality(op[t].expired)
         /\ Uncounts(op[t]) /\ ~Uncounts(r) =>
              Cardinality(Active') + Cardinality(Reaped') + Cardinality(Forgotten')
                = active_reservations + Cardinality(r.expired) - Cardinality(op[t].expired) - 1
         /\ ~Uncounts(op[t]) /\ Uncounts(r) =>
              Cardinality(Active') + Cardinality(Reaped') + Cardinality(Forgotten')
                = active_reservations + Cardinality(r.expired) - Cardinality(op[t].expired) + 1
<1>1. r \in Calls /\ op' = [op EXCEPT ![t] = r]
  BY DEF Moves
<1>2. /\ Cardinality(Reaped) \in Nat /\ Cardinality(Reaped') \in Nat
      /\ Cardinality(op[t].expired) \in Nat /\ Cardinality(r.expired) \in Nat
      /\ Cardinality(Reaped') + Cardinality(op[t].expired)
           = Cardinality(Reaped) + Cardinality(r.expired)
  BY <1>1, CountReaped
<1>3. /\ Cardinality(Forgotten) \in Nat /\ Cardinality(Forgotten') \in Nat
      /\ (Uncounts(op[t]) <=> Uncounts(r)) => Cardinality(Forgotten') = Cardinality(Forgotten)
      /\ Uncounts(op[t]) /\ ~Uncounts(r) => Cardinality(Forgotten') = Cardinality(Forgotten) - 1
      /\ ~Uncounts(op[t]) /\ Uncounts(r) => Cardinality(Forgotten') = Cardinality(Forgotten) + 1
  BY <1>1, CountForgotten
<1>4. Active' = Active
  BY DEF Active
<1>5. Active \subseteq Cells \X Ids
  BY DEF Active
<1>6. IsFiniteSet(Cells \X Ids)
  BY FiniteSets, FS_Product
<1>7. IsFiniteSet(Active)
  BY <1>5, <1>6, FS_Subset
<1>8. Cardinality(Active) \in Nat
  BY <1>7, FS_CardinalityType
<1>9. active_reservations
        = Cardinality(Active) + Cardinality(Reaped) + Cardinality(Forgotten)
  BY DEF ActiveExact
<1> QED BY <1>2, <1>3, <1>4, <1>8, <1>9

\* The counter of keys, when the map of keys stands.
LEMMA MoveKeyCount ==
  ASSUME Types, KeysExact, NEW t \in Threads, NEW r, Moves(t, r), keys' = keys,
         key_count' = key_count, Drops(op[t]) <=> Drops(r)
  PROVE  KeysExact'
<1>1. r \in Calls /\ op' = [op EXCEPT ![t] = r]
  BY DEF Moves
<1>2. Cardinality(Dropping') = Cardinality(Dropping)
  BY <1>1, CountDropping
<1>3. PresentKeys' = PresentKeys
  BY DEF PresentKeys
<1> QED BY <1>2, <1>3 DEF KeysExact

\* A step that moves one thread through a call, without an entry to forget or a
\* count to correct, keeps the invariant.
LEMMA QuietMove ==
  ASSUME LedgerInv, NEW t \in Threads, NEW r, Moves(t, r), Shape(r), Carries(r),
         op[t].expired = {}, r.expired = {},
         Uncounts(op[t]) <=> Uncounts(r), Drops(op[t]) <=> Drops(r),
         Asks(r) => Asks(op[t]) \/ next_id + Cardinality(Asking) <= MaxId,
         Holds(r) => Holds(op[t]) /\ r.id = op[t].id,
         Holds(op[t]) => (Holds(r) /\ r.id = op[t].id) \/ charge[op[t].id].settled,
         Settling(op[t]) => (Settling(r) /\ r.id = op[t].id) \/ charge[op[t].id].settled,
         r.result = "Noop" =>
           \/ charge[r.id].settled
           \/ \E u \in Threads : u # t /\ Settling(op[u]) /\ op[u].id = r.id,
         UNCHANGED <<clock, keys, cells, reservations, next_id, key_count,
                     active_reservations, charge>>
  PROVE  LedgerInv'
<1>1. Types /\ Carried /\ HeldApart /\ EntriesLive /\ UnsettledHeld /\ ActiveExact /\ KeysExact
  BY DEF LedgerInv
<1>2. /\ keys' = keys /\ cells' = cells /\ charge' = charge
      /\ reservations' = reservations /\ key_count' = key_count
      /\ active_reservations' = active_reservations
      /\ UNCHANGED <<clock, keys, cells, next_id, charge>>
  OBVIOUS
<1>3. Carries(r)'
  BY <1>2 DEF Carries, Holds, Settling
<1>4. Holds(r) => \A u \in Threads : u # t /\ Holds(op[u]) => op[u].id # r.id
  BY <1>1 DEF HeldApart
<1>5. \A u \in Threads : u # t /\ Holds(op[u]) => op[u].id \notin DOMAIN reservations'
  BY <1>1, <1>2 DEF Carried, Carries
<1>6. EntriesLive'
  BY <1>1, <1>2, MoveEntries
<1>7. UnsettledHeld'
  BY <1>1, <1>2, MoveUnsettled
<1>8. ActiveExact'
  <2>1. Cardinality(Active') + Cardinality(Reaped') + Cardinality(Forgotten')
          = active_reservations + Cardinality(r.expired) - Cardinality(op[t].expired)
    BY <1>1, <1>2, MoveActiveCount
  <2>2. Cardinality({}) = 0
    BY FS_EmptySet
  <2>3. active_reservations \in Nat
    BY <1>1 DEF Types
  <2> QED BY <1>1, <1>2, <2>1, <2>2, <2>3 DEF ActiveExact
<1>9. KeysExact'
  BY <1>1, <1>2, MoveKeyCount
<1>10. reservations' \in Partial(Keys) /\ active_reservations' \in Nat /\ key_count' \in Nat
  BY <1>1, <1>2 DEF Types
<1>11. \A id \in r.expired : id \in DOMAIN charge /\ charge[id].settled
  OBVIOUS
<1> QED BY <1>2, <1>3, <1>4, <1>5, <1>6, <1>7, <1>8, <1>9, <1>10, <1>11, CallMove

-----------------------------------------------------------------------------
(* Steps that change one thread's locals                                   *)

Results == {None, "InvalidKey", "KeyCapacity", "WindowCapacity",
            "ReservationCapacity", "Admitted", "Applied", "Noop"}

\* The locals of a call that returns.
Returned(o, result) ==
  [NoCall EXCEPT !.call = o.call, !.pc = "done", !.id = o.id, !.result = result]

\* A call that returns holds nothing.
LEMMA ReturnedFacts ==
  ASSUME NEW o \in Calls, NEW result \in Results, NEW r, r = Returned(o, result)
  PROVE  /\ r \in Calls /\ r.pc = "done" /\ r.expired = {} /\ r.id = o.id
         /\ r.result = result /\ r.call = o.call
         /\ Shape(r) /\ ~Holds(r) /\ ~Settling(r) /\ ~Asks(r) /\ ~Uncounts(r) /\ ~Drops(r)
<1>1. r = [call |-> o.call, pc |-> "done", key |-> None, now |-> 0, tokens |-> None,
           id |-> o.id, cell |-> None, expired |-> {}, todo |-> {}, result |-> result]
  BY DEF Returned, NoCall
<1>2. r \in Calls
  BY <1>1 DEF Calls, Results
<1> QED BY <1>1, <1>2
        DEF Shape, Holds, Settling, Asks, Uncounts, Drops, InReserve, WithCell

\* A call that returns without a held id, an entry to forget or a count to correct
\* keeps the invariant.
LEMMA Returns ==
  ASSUME LedgerInv, NEW t \in Threads, NEW result \in Results, Return(t, result),
         op[t].expired = {}, ~Uncounts(op[t]), ~Drops(op[t]),
         Holds(op[t]) => charge[op[t].id].settled,
         result = "Noop" => Settling(op[t]),
         UNCHANGED <<clock, keys, cells, reservations, next_id, key_count,
                     active_reservations, charge>>
  PROVE  LedgerInv'
<1>1. Types /\ Carried
  BY DEF LedgerInv
<1>2. PICK r : r = Returned(op[t], result)
  OBVIOUS
<1>3. op[t] \in Calls
  BY <1>1 DEF Types
<1>4. /\ r \in Calls /\ r.pc = "done" /\ r.expired = {} /\ r.id = op[t].id
      /\ r.result = result /\ r.call = op[t].call
      /\ Shape(r) /\ ~Holds(r) /\ ~Settling(r) /\ ~Asks(r) /\ ~Uncounts(r) /\ ~Drops(r)
  BY <1>2, <1>3, ReturnedFacts
<1>5. Moves(t, r)
  BY <1>2, <1>4 DEF Moves, Return, Returned
<1>6. Carries(op[t])
  BY <1>1 DEF Carried
<1>7. result = "Noop" => Holds(op[t]) /\ op[t].id \in DOMAIN charge
  BY <1>6 DEF Carries, Holds
<1>8. Carries(r)
  BY <1>4, <1>7 DEF Carries, ReserveGuard, CleanupGuard
<1>9. /\ Settling(op[t]) => charge[op[t].id].settled
      /\ r.result = "Noop" => charge[r.id].settled
  BY <1>4, <1>7 DEF Holds
<1> QED BY <1>4, <1>5, <1>8, <1>9, QuietMove

\* A caller drops its result.
LEMMA StepLeave ==
  ASSUME LedgerInv, NEW t \in Threads, Leave(t)
  PROVE  LedgerInv'
<1>1. Types /\ Shape(op[t])
  BY DEF LedgerInv, Shapes
<1>2. PICK r : r = NoCall
  OBVIOUS
<1>3. /\ op[t].pc = "done" /\ op' = [op EXCEPT ![t] = r]
      /\ UNCHANGED <<clock, keys, cells, reservations, next_id, key_count,
                     active_reservations, charge>>
  BY <1>2 DEF Leave
<1>4. op[t].expired = {} /\ ~Uncounts(op[t]) /\ ~Drops(op[t]) /\ ~Holds(op[t])
      /\ ~Settling(op[t])
  BY <1>1, <1>3 DEF Shape, Uncounts, Drops, Holds, Settling
<1>5. r \in Calls
  BY <1>2 DEF NoCall, Calls
<1>6. /\ r.call = None /\ r.pc = "idle" /\ r.expired = {} /\ r.result = None
  BY <1>2 DEF NoCall
<1>7. None \notin {"reserve", "reconcile", "cleanup", "Noop"}
  BY DomainAssumption
<1>8. Shape(r)
  BY <1>2, <1>6, <1>7 DEF Shape, InReserve, WithCell
<1>9. ~Holds(r) /\ ~Settling(r) /\ ~Asks(r) /\ ~Uncounts(r) /\ ~Drops(r)
  BY <1>6, <1>7 DEF Holds, Settling, Asks, Uncounts, Drops
<1>10. Carries(r)
  BY <1>6, <1>7, <1>9 DEF Carries
<1>11. Moves(t, r)
  BY <1>3, <1>5 DEF Moves
<1> QED BY <1>3, <1>4, <1>6, <1>7, <1>8, <1>9, <1>10, <1>11, QuietMove

\* reserve finds its key and keeps the guard on it.
LEMMA StepReserveLookup ==
  ASSUME LedgerInv, NEW t \in Threads, ReserveLookup(t)
  PROVE  LedgerInv'
<1>1. Types /\ Shape(op[t]) /\ Carries(op[t])
  BY DEF LedgerInv, Shapes, Carried
<1>2. PICK r : r = [op[t] EXCEPT !.pc = "lock", !.cell = keys[op[t].key]]
  OBVIOUS
<1>3. /\ op[t].call = "reserve" /\ op[t].pc = "lookup" /\ keys[op[t].key] # None
      /\ op' = [op EXCEPT ![t] = r]
      /\ UNCHANGED <<clock, keys, cells, reservations, next_id, key_count,
                     active_reservations, charge>>
  BY <1>2 DEF ReserveLookup
<1>4. op[t] \in Calls /\ op[t].key \in Keys /\ keys[op[t].key] \in Cells
  BY <1>1, <1>3 DEF Types, Shape
<1>5. r \in Calls
  BY <1>2, <1>4 DEF Calls
<1>6. /\ r.call = "reserve" /\ r.pc = "lock" /\ r.key = op[t].key
      /\ r.cell = keys[op[t].key] /\ r.tokens = op[t].tokens
      /\ r.expired = op[t].expired /\ r.result = op[t].result
  BY <1>2, <1>3, <1>4 DEF Calls
<1>7. op[t].expired = {} /\ op[t].result # "Noop" /\ op[t].tokens \in Nat
  BY <1>1, <1>3 DEF Shape, InReserve
<1>8. Shape(r)
  BY <1>4, <1>6, <1>7, DomainAssumption DEF Shape
<1>9. /\ ~Holds(r) /\ ~Settling(r) /\ Asks(op[t]) /\ ~Uncounts(r) /\ ~Drops(r)
      /\ ~Holds(op[t]) /\ ~Settling(op[t]) /\ ~Uncounts(op[t]) /\ ~Drops(op[t])
  BY <1>3, <1>6 DEF Holds, Settling, Asks, InReserve, Uncounts, Drops
<1>10. Carries(r)
  BY <1>6, <1>7, <1>9 DEF Carries
<1>11. Moves(t, r)
  BY <1>3, <1>5 DEF Moves
<1> QED BY <1>3, <1>6, <1>7, <1>8, <1>9, <1>10, <1>11, QuietMove

\* reserve answers at once when there is no room for another key.
LEMMA StepReserveKeyCapacity ==
  ASSUME LedgerInv, NEW t \in Threads, ReserveKeyCapacity(t)
  PROVE  LedgerInv'
<1>1. Shape(op[t])
  BY DEF LedgerInv, Shapes
<1>2. /\ op[t].call = "reserve" /\ op[t].pc = "lookup" /\ Return(t, "KeyCapacity")
      /\ UNCHANGED <<clock, keys, cells, reservations, next_id, key_count,
                     active_reservations, charge>>
  BY DEF ReserveKeyCapacity
<1>3. op[t].expired = {} /\ ~Uncounts(op[t]) /\ ~Drops(op[t]) /\ ~Holds(op[t])
  BY <1>1, <1>2 DEF Shape, Uncounts, Drops, Holds, Settling
<1>4. "KeyCapacity" \in Results
  BY DEF Results
<1> QED BY <1>2, <1>3, <1>4, Returns

\* reserve answers under the mutex when there is no room for another reservation.
LEMMA StepReserveCapacity ==
  ASSUME LedgerInv, NEW t \in Threads, ReserveCapacity(t)
  PROVE  LedgerInv'
<1>1. Shape(op[t])
  BY DEF LedgerInv, Shapes
<1>2. /\ op[t].call = "reserve" /\ op[t].pc = "admit" /\ Return(t, "ReservationCapacity")
      /\ UNCHANGED <<clock, keys, cells, reservations, next_id, key_count,
                     active_reservations, charge>>
  BY DEF ReserveCapacity
<1>3. op[t].expired = {} /\ ~Uncounts(op[t]) /\ ~Drops(op[t]) /\ ~Holds(op[t])
  BY <1>1, <1>2 DEF Shape, Uncounts, Drops, Holds, Settling
<1>4. "ReservationCapacity" \in Results
  BY DEF Results
<1> QED BY <1>2, <1>3, <1>4, Returns

\* reconcile clones the Arc of its key, or finds the key gone: then its reservation
\* was settled, because a key is dropped only when it is empty.
LEMMA StepReconcileLookup ==
  ASSUME LedgerInv, NEW t \in Threads, ReconcileLookup(t)
  PROVE  LedgerInv'
<1>1. Types /\ Shape(op[t]) /\ Carries(op[t]) /\ ChargedActive
  BY DEF LedgerInv, Shapes, Carried
<1>2. /\ op[t].call = "reconcile" /\ op[t].pc = "lookup"
      /\ UNCHANGED <<clock, keys, cells, reservations, next_id, key_count,
                     active_reservations, charge>>
  BY DEF ReconcileLookup
<1>3. /\ op[t].expired = {} /\ ~Uncounts(op[t]) /\ ~Drops(op[t]) /\ Settling(op[t])
      /\ Holds(op[t]) /\ op[t].result # "Noop" /\ op[t].key \in Keys
  BY <1>1, <1>2 DEF Shape, Uncounts, Drops, Holds, Settling
<1>4. op[t].id \in DOMAIN charge /\ charge[op[t].id].key = op[t].key
      /\ op[t].id \notin DOMAIN reservations
  BY <1>1, <1>3 DEF Carries
<1>5. CASE keys[op[t].key] = None
  <2>1. charge[op[t].id].settled
    BY <1>1, <1>4, <1>5 DEF ChargedActive
  <2>2. Return(t, "Noop")
    BY <1>5 DEF ReconcileLookup
  <2>3. "Noop" \in Results
    BY DEF Results
  <2> QED BY <1>2, <1>3, <2>1, <2>2, <2>3, Returns
<1>6. CASE keys[op[t].key] # None
  <2>1. PICK r : r = [op[t] EXCEPT !.pc = "lock", !.cell = keys[op[t].key]]
    OBVIOUS
  <2>2. op' = [op EXCEPT ![t] = r]
    BY <1>6, <2>1 DEF ReconcileLookup
  <2>3. op[t] \in Calls /\ keys[op[t].key] \in Cells
    BY <1>1, <1>3, <1>6 DEF Types
  <2>4. r \in Calls
    BY <2>1, <2>3 DEF Calls
  <2>5. /\ r.call = "reconcile" /\ r.pc = "lock" /\ r.key = op[t].key
        /\ r.cell = keys[op[t].key] /\ r.id = op[t].id
        /\ r.expired = op[t].expired /\ r.result = op[t].result
    BY <1>2, <2>1, <2>3 DEF Calls
  <2>6. Shape(r)
    BY <1>3, <2>3, <2>5, DomainAssumption DEF Shape
  <2>7. Holds(r) /\ Settling(r) /\ ~Asks(r) /\ ~Uncounts(r) /\ ~Drops(r)
    BY <2>5 DEF Holds, Settling, Asks, Uncounts, Drops
  <2>8. Carries(r)
    BY <1>3, <1>4, <2>5 DEF Carries
  <2>9. Moves(t, r)
    BY <2>2, <2>4 DEF Moves
  <2> QED BY <1>2, <1>3, <2>5, <2>6, <2>7, <2>8, <2>9, QuietMove
<1> QED BY <1>5, <1>6

\* reconcile drops the mutex.
LEMMA StepReconcileUnlock ==
  ASSUME LedgerInv, NEW t \in Threads, ReconcileUnlock(t)
  PROVE  LedgerInv'
<1>1. /\ op[t].call = "reconcile" /\ op[t].pc = "forget" /\ op[t].expired = {}
      /\ Return(t, "Applied")
      /\ UNCHANGED <<clock, keys, cells, reservations, next_id, key_count,
                     active_reservations, charge>>
  BY DEF ReconcileUnlock
<1>2. ~Uncounts(op[t]) /\ ~Drops(op[t]) /\ ~Holds(op[t])
  BY <1>1 DEF Uncounts, Drops, Holds, Settling
<1>3. "Applied" \in Results
  BY DEF Results
<1> QED BY <1>1, <1>2, <1>3, Returns

\* cleanup has looked at every key of its scan.
LEMMA StepCleanupEnd ==
  ASSUME LedgerInv, NEW t \in Threads, CleanupEnd(t)
  PROVE  LedgerInv'
<1>1. Shape(op[t])
  BY DEF LedgerInv, Shapes
<1>2. /\ op[t].call = "cleanup" /\ op[t].pc = "next" /\ Return(t, None)
      /\ UNCHANGED <<clock, keys, cells, reservations, next_id, key_count,
                     active_reservations, charge>>
  BY DEF CleanupEnd
<1>3. op[t].expired = {} /\ ~Uncounts(op[t]) /\ ~Drops(op[t]) /\ ~Holds(op[t])
  BY <1>1, <1>2 DEF Shape, Uncounts, Drops, Holds, Settling
<1>4. None \in Results /\ None # "Noop"
  BY DomainAssumption DEF Results
<1> QED BY <1>2, <1>3, <1>4, Returns

\* A request asks for a reservation; one it may not have is refused at once.
LEMMA StepReserveBegin ==
  ASSUME LedgerInv, NEW t \in Threads, NEW k \in Keys, NEW e \in Estimates,
         ReserveBegin(t, k, e)
  PROVE  LedgerInv'
<1>1. Types /\ Shape(op[t])
  BY DEF LedgerInv, Shapes
<1>2. PICK r : r = IF e = 0
                   THEN [NoCall EXCEPT !.call = "reserve", !.pc = "done",
                                       !.result = "InvalidKey"]
                   ELSE [NoCall EXCEPT !.call = "reserve", !.pc = "lookup",
                                       !.key = k, !.tokens = e, !.now = clock]
  OBVIOUS
<1>3. /\ op[t].pc = "idle" /\ op' = [op EXCEPT ![t] = r]
      /\ next_id + Cardinality({u \in Threads : op[u].call = "reserve"}) <= MaxId
      /\ UNCHANGED <<clock, keys, cells, reservations, next_id, key_count,
                     active_reservations, charge>>
  BY <1>2 DEF ReserveBegin
<1>4. op[t].expired = {} /\ ~Uncounts(op[t]) /\ ~Drops(op[t]) /\ ~Holds(op[t])
      /\ ~Settling(op[t])
  BY <1>1, <1>3 DEF Shape, Uncounts, Drops, Holds, Settling
<1>5. next_id + Cardinality(Asking) <= MaxId
  <2>1. PICK S : S = {u \in Threads : op[u].call = "reserve"}
    OBVIOUS
  <2>2. S \subseteq Threads /\ Asking \subseteq S
    BY <2>1 DEF Asking, Asks
  <2>3. IsFiniteSet(S)
    BY <2>2, FiniteSets, FS_Subset
  <2>4. IsFiniteSet(Asking) /\ Cardinality(Asking) <= Cardinality(S)
    BY <2>2, <2>3, FS_Subset
  <2>5. Cardinality(Asking) \in Nat /\ Cardinality(S) \in Nat
    BY <2>3, <2>4, FS_CardinalityType
  <2>6. next_id \in Nat /\ MaxId \in Nat
    BY <1>1, DomainAssumption DEF Types
  <2>7. next_id + Cardinality(S) <= MaxId
    BY <1>3, <2>1
  <2> QED BY <2>4, <2>5, <2>6, <2>7
<1>6. clock \in Nat /\ e \in Nat /\ None \notin {"reserve", "reconcile", "cleanup", "Noop"}
  BY <1>1, DomainAssumption DEF Types
<1>7. r \in Calls
  BY <1>2, <1>6 DEF NoCall, Calls
<1>8. /\ r.call = "reserve" /\ r.pc \in {"done", "lookup"} /\ r.expired = {}
      /\ r.pc = "lookup" => r.key \in Keys /\ r.tokens \in Nat
      /\ r.result \in {None, "InvalidKey"}
  BY <1>2, <1>6 DEF NoCall
<1>9. Shape(r)
  BY <1>6, <1>8 DEF Shape, InReserve, WithCell
<1>10. ~Holds(r) /\ ~Settling(r) /\ ~Uncounts(r) /\ ~Drops(r) /\ r.result # "Noop"
  BY <1>6, <1>8 DEF Holds, Settling, Uncounts, Drops
<1>11. Carries(r)
  BY <1>8, <1>10 DEF Carries, ReserveGuard
<1>12. Moves(t, r)
  BY <1>3, <1>7 DEF Moves
<1> QED BY <1>3, <1>4, <1>5, <1>8, <1>9, <1>10, <1>11, <1>12, QuietMove

\* cleanup reads its clock and the keys of its scan.
LEMMA StepCleanupBegin ==
  ASSUME LedgerInv, NEW t \in Threads, CleanupBegin(t)
  PROVE  LedgerInv'
<1>1. Types /\ Shape(op[t])
  BY DEF LedgerInv, Shapes
<1>2. PICK scan \in kSubset(Min({ScanLimit, Cardinality(PresentKeys)}), PresentKeys) :
        op' = [op EXCEPT ![t] = [NoCall EXCEPT
                 !.call = "cleanup", !.pc = "next", !.todo = scan, !.now = clock]]
  BY DEF CleanupBegin
<1>3. scan \in SUBSET Keys
  BY <1>2 DEF kSubset, PresentKeys
<1>4. PICK r : r = [NoCall EXCEPT !.call = "cleanup", !.pc = "next", !.todo = scan,
                                  !.now = clock]
  OBVIOUS
<1>5. /\ op[t].pc = "idle" /\ op' = [op EXCEPT ![t] = r]
      /\ UNCHANGED <<clock, keys, cells, reservations, next_id, key_count,
                     active_reservations, charge>>
  BY <1>2, <1>4 DEF CleanupBegin
<1>6. op[t].expired = {} /\ ~Uncounts(op[t]) /\ ~Drops(op[t]) /\ ~Holds(op[t])
      /\ ~Settling(op[t])
  BY <1>1, <1>5 DEF Shape, Uncounts, Drops, Holds, Settling
<1>7. clock \in Nat /\ None \notin {"reserve", "reconcile", "cleanup", "Noop"}
  BY <1>1, DomainAssumption DEF Types
<1>8. r \in Calls
  BY <1>3, <1>4, <1>7 DEF NoCall, Calls
<1>9. r.call = "cleanup" /\ r.pc = "next" /\ r.expired = {} /\ r.result = None
  BY <1>4 DEF NoCall
<1>10. Shape(r)
  BY <1>7, <1>9 DEF Shape, InReserve, WithCell
<1>11. ~Holds(r) /\ ~Settling(r) /\ ~Asks(r) /\ ~Uncounts(r) /\ ~Drops(r)
       /\ r.result # "Noop"
  BY <1>7, <1>9 DEF Holds, Settling, Asks, Uncounts, Drops
<1>12. Carries(r)
  BY <1>9, <1>11 DEF Carries, CleanupGuard
<1>13. Moves(t, r)
  BY <1>5, <1>8 DEF Moves
<1> QED BY <1>5, <1>6, <1>9, <1>10, <1>11, <1>12, <1>13, QuietMove

\* cleanup takes the guard of its next key, or goes on when the key is gone.
LEMMA StepCleanupNext ==
  ASSUME LedgerInv, NEW t \in Threads, NEW k \in Keys, CleanupNext(t, k)
  PROVE  LedgerInv'
<1>1. Types /\ Shape(op[t]) /\ Carries(op[t])
  BY DEF LedgerInv, Shapes, Carried
<1>2. PICK r : r = IF keys[k] = None
                   THEN [op[t] EXCEPT !.todo = @ \ {k}]
                   ELSE [op[t] EXCEPT !.todo = @ \ {k}, !.pc = "lock",
                                      !.key = k, !.cell = keys[k]]
  OBVIOUS
<1>3. /\ op[t].call = "cleanup" /\ op[t].pc = "next" /\ op' = [op EXCEPT ![t] = r]
      /\ UNCHANGED <<clock, keys, cells, reservations, next_id, key_count,
                     active_reservations, charge>>
  BY <1>2 DEF CleanupNext
<1>4. op[t].expired = {} /\ ~Uncounts(op[t]) /\ ~Drops(op[t]) /\ ~Holds(op[t])
      /\ ~Settling(op[t]) /\ op[t].result # "Noop"
  BY <1>1, <1>3 DEF Shape, Uncounts, Drops, Holds, Settling
<1>5. op[t] \in Calls /\ keys[k] \in Cells \cup {None}
  BY <1>1 DEF Types
<1>6. r \in Calls
  BY <1>2, <1>5 DEF Calls
<1>7. /\ r.call = "cleanup" /\ r.pc \in {"next", "lock"} /\ r.expired = op[t].expired
      /\ r.result = op[t].result
      /\ r.pc = "lock" => r.key = k /\ r.cell = keys[k] /\ keys[k] # None
  BY <1>2, <1>3, <1>5 DEF Calls
<1>8. Shape(r)
  BY <1>4, <1>5, <1>7, DomainAssumption DEF Shape, WithCell
<1>9. ~Holds(r) /\ ~Settling(r) /\ ~Asks(r) /\ ~Uncounts(r) /\ ~Drops(r)
  BY <1>7 DEF Holds, Settling, Asks, Uncounts, Drops
<1>10. Carries(r)
  BY <1>4, <1>7, <1>9 DEF Carries, CleanupGuard
<1>11. Moves(t, r)
  BY <1>3, <1>6 DEF Moves
<1> QED BY <1>3, <1>4, <1>7, <1>8, <1>9, <1>10, <1>11, QuietMove

\* Time passes.
LEMMA StepTick ==
  ASSUME LedgerInv, Tick
  PROVE  LedgerInv'
<1>1. /\ clock < MaxClock /\ clock' = clock + 1
      /\ keys' = keys /\ cells' = cells /\ reservations' = reservations
      /\ next_id' = next_id /\ key_count' = key_count
      /\ active_reservations' = active_reservations /\ op' = op /\ charge' = charge
  BY DEF Tick
<1>2. Types'
  BY <1>1, DomainAssumption DEF LedgerInv, Types
<1>3. Shapes' /\ KeysApart' /\ DetachedCellsEmpty' /\ ActiveCharged' /\ ChargedActive'
  BY <1>1 DEF LedgerInv, Shapes, Shape, KeysApart, DetachedCellsEmpty, IsEmpty,
              ActiveCharged, ChargedActive
<1>4. Carried' /\ HeldApart'
  BY <1>1 DEF LedgerInv, Carried, Carries, HeldApart, Holds, Settling
<1>5. IdsFresh'
  <2>1. Asking' = Asking
    BY <1>1 DEF Asking, Asks
  <2> QED BY <1>1, <2>1 DEF LedgerInv, IdsFresh
<1>6. EntriesLive' /\ UnsettledHeld' /\ ExpiredSettled' /\ NoopsJustified'
  BY <1>1 DEF LedgerInv, EntriesLive, Forgets, UnsettledHeld, Holds, Settling,
              ExpiredSettled, NoopsJustified, Justified
<1>7. ActiveExact'
  <2>1. Active' = Active /\ Reaped' = Reaped /\ Forgotten' = Forgotten
    BY <1>1 DEF Active, Reaped, Forgotten
  <2> QED BY <1>1, <2>1 DEF LedgerInv, ActiveExact
<1>8. KeysExact'
  <2>1. PresentKeys' = PresentKeys /\ Dropping' = Dropping
    BY <1>1 DEF PresentKeys, Dropping, Drops
  <2> QED BY <1>1, <2>1 DEF LedgerInv, KeysExact
<1> QED BY <1>2, <1>3, <1>4, <1>5, <1>6, <1>7, <1>8 DEF LedgerInv

-----------------------------------------------------------------------------
(* Steps that change `reservations` or a counter                           *)

\* reconcile takes its id out of `reservations`; from here on the id is in its
\* hands, and whoever asks for it next is told Noop.
LEMMA StepReconcileTake ==
  ASSUME LedgerInv, NEW t \in Threads, NEW id \in Issued, NEW a \in Actuals \cup {None},
         ReconcileTake(t, id, a)
  PROVE  LedgerInv'
<1>1. /\ Types /\ Shape(op[t]) /\ Carried /\ HeldApart /\ EntriesLive /\ UnsettledHeld
      /\ ActiveExact /\ KeysExact
  BY DEF LedgerInv, Shapes
<1>2. PICK r : r = IF id \in DOMAIN reservations
                   THEN [NoCall EXCEPT !.call = "reconcile", !.pc = "lookup", !.id = id,
                           !.key = reservations[id], !.tokens = a, !.now = clock]
                   ELSE [NoCall EXCEPT !.call = "reconcile", !.pc = "done", !.id = id,
                           !.result = "Noop"]
  OBVIOUS
<1>3. /\ op[t].pc = "idle" /\ op' = [op EXCEPT ![t] = r]
      /\ reservations' = Restrict(reservations, DOMAIN reservations \ {id})
      /\ active_reservations' = active_reservations /\ key_count' = key_count
      /\ keys' = keys /\ cells' = cells /\ charge' = charge
      /\ UNCHANGED <<clock, keys, cells, next_id, charge>>
  BY <1>2 DEF ReconcileTake
<1>4. op[t].expired = {} /\ ~Uncounts(op[t]) /\ ~Drops(op[t]) /\ ~Holds(op[t])
      /\ ~Settling(op[t])
  BY <1>1, <1>3 DEF Shape, Uncounts, Drops, Holds, Settling
<1>5. /\ id \in DOMAIN charge
      /\ \A u \in Threads : op[u].pc = "publish" => op[u].id # id
  BY DEF Issued
<1>6. DOMAIN charge \in SUBSET Ids /\ reservations \in Partial(Keys)
  BY <1>1, PartialFacts DEF Types
<1>7. /\ clock \in Nat /\ a \in Nat \cup {None} /\ id \in Ids
      /\ None \notin {"reserve", "reconcile", "cleanup", "Noop"}
      /\ id \in DOMAIN reservations => reservations[id] \in Keys
  BY <1>1, <1>5, <1>6, DomainAssumption, PartialFacts DEF Types
<1>8. r \in Calls
  BY <1>2, <1>7 DEF NoCall, Calls
<1>9. /\ r.call = "reconcile" /\ r.id = id /\ r.expired = {}
      /\ id \in DOMAIN reservations =>
           r.pc = "lookup" /\ r.key = reservations[id] /\ r.result = None
      /\ id \notin DOMAIN reservations => r.pc = "done" /\ r.result = "Noop"
  BY <1>2 DEF NoCall
<1>10. Moves(t, r)
  BY <1>3, <1>8 DEF Moves
<1>11. Shape(r)
  BY <1>7, <1>9 DEF Shape, WithCell
<1>12. /\ reservations' \in Partial(Keys)
       /\ DOMAIN reservations' = DOMAIN reservations \ {id}
       /\ \A x \in DOMAIN reservations \ {id} : reservations'[x] = reservations[x]
  <2>1. PICK S : S = DOMAIN reservations \ {id}
    OBVIOUS
  <2>2. S \in SUBSET DOMAIN reservations /\ reservations' = Restrict(reservations, S)
    BY <1>3, <2>1
  <2>3. /\ Restrict(reservations, S) \in Partial(Keys)
        /\ DOMAIN Restrict(reservations, S) = S
        /\ \A x \in S : Restrict(reservations, S)[x] = reservations[x]
    BY <1>6, <2>2, RestrictFacts
  <2> QED BY <2>1, <2>2, <2>3
<1>13. /\ ~Asks(r) /\ ~Uncounts(r) /\ ~Drops(r)
       /\ Holds(r) <=> id \in DOMAIN reservations
  BY <1>9 DEF Holds, Settling, Asks, Uncounts, Drops
<1>14. Carries(r)'
  <2>1. id \in DOMAIN reservations => charge[id].key = reservations[id]
    BY <1>1 DEF EntriesLive
  <2> QED BY <1>3, <1>5, <1>9, <1>12, <1>13, <2>1 DEF Carries, Holds, Settling
<1>15. \A u \in Threads : u # t /\ Holds(op[u]) => op[u].id \notin DOMAIN reservations
  BY <1>1 DEF Carried, Carries
<1>16. /\ Holds(r) => \A u \in Threads : u # t /\ Holds(op[u]) => op[u].id # r.id
       /\ \A u \in Threads : u # t /\ Holds(op[u]) => op[u].id \notin DOMAIN reservations'
  BY <1>9, <1>12, <1>13, <1>15
<1>17. r.result = "Noop" =>
         \/ charge[r.id].settled
         \/ \E u \in Threads : u # t /\ Settling(op[u]) /\ op[u].id = r.id
  <2>1. SUFFICES ASSUME r.result = "Noop", ~charge[id].settled
                 PROVE  \E u \in Threads : u # t /\ Settling(op[u]) /\ op[u].id = id
    BY <1>9
  <2>2. id \notin DOMAIN reservations
    BY <1>7, <1>9, <2>1
  <2>3. PICK u \in Threads : Holds(op[u]) /\ op[u].id = id
    BY <1>1, <1>5, <2>1, <2>2 DEF UnsettledHeld
  <2>4. u # t /\ Settling(op[u])
    BY <1>4, <1>5, <2>3 DEF Holds
  <2> QED BY <2>3, <2>4
<1>18. EntriesLive'
  BY <1>1, <1>3, <1>4, <1>10, <1>12, MoveEntries
<1>19. UnsettledHeld'
  BY <1>1, <1>3, <1>4, <1>9, <1>10, <1>12, <1>13, MoveUnsettled
<1>20. ActiveExact'
  <2>1. Cardinality(Active') + Cardinality(Reaped') + Cardinality(Forgotten')
          = active_reservations + Cardinality(r.expired) - Cardinality(op[t].expired)
    BY <1>1, <1>3, <1>4, <1>10, <1>13, MoveActiveCount
  <2>2. Cardinality({}) = 0
    BY FS_EmptySet
  <2>3. active_reservations \in Nat
    BY <1>1 DEF Types
  <2> QED BY <1>1, <1>3, <1>4, <1>9, <2>1, <2>2, <2>3 DEF ActiveExact
<1>21. KeysExact'
  BY <1>1, <1>3, <1>4, <1>10, <1>13, MoveKeyCount
<1>22. active_reservations' \in Nat /\ key_count' \in Nat
  BY <1>1, <1>3 DEF Types
<1>23. \A x \in r.expired : x \in DOMAIN charge /\ charge[x].settled
  BY <1>9
<1> QED BY <1>3, <1>4, <1>10, <1>11, <1>12, <1>13, <1>14, <1>16, <1>17, <1>18, <1>19,
           <1>20, <1>21, <1>22, <1>23, CallMove

\* reserve and cleanup remove the entries of what they reaped, all of it settled.
LEMMA StepForget ==
  ASSUME LedgerInv, NEW t \in Threads, Forget(t)
  PROVE  LedgerInv'
<1>1. /\ Types /\ Shape(op[t]) /\ Carried /\ Carries(op[t]) /\ EntriesLive /\ UnsettledHeld
      /\ ExpiredSettled /\ ActiveExact /\ KeysExact
  BY DEF LedgerInv, Shapes, Carried
<1>2. PICK r : r = [op[t] EXCEPT !.pc = "uncount"]
  OBVIOUS
<1>3. /\ op[t].call \in {"reserve", "cleanup"} /\ op[t].pc = "forget"
      /\ op' = [op EXCEPT ![t] = r]
      /\ reservations' = Restrict(reservations, DOMAIN reservations \ op[t].expired)
      /\ active_reservations' = active_reservations /\ key_count' = key_count
      /\ keys' = keys /\ cells' = cells /\ charge' = charge
      /\ UNCHANGED <<clock, keys, cells, next_id, charge>>
  BY <1>2 DEF Forget, Goto
<1>4. op[t] \in Calls /\ reservations \in Partial(Keys)
  BY <1>1 DEF Types
<1>5. r \in Calls
  BY <1>2, <1>4 DEF Calls
<1>6. /\ r.call = op[t].call /\ r.pc = "uncount" /\ r.key = op[t].key /\ r.cell = op[t].cell
      /\ r.tokens = op[t].tokens /\ r.expired = op[t].expired /\ r.result = op[t].result
  BY <1>2, <1>4 DEF Calls
<1>7. Moves(t, r)
  BY <1>3, <1>5 DEF Moves
<1>8. Shape(r) /\ r.result # "Noop"
  BY <1>1, <1>3, <1>6 DEF Shape, InReserve, WithCell
<1>9. /\ ~Holds(op[t]) /\ ~Settling(op[t]) /\ ~Uncounts(op[t]) /\ ~Drops(op[t])
      /\ ~Holds(r) /\ ~Settling(r) /\ ~Uncounts(r) /\ ~Drops(r) /\ (Asks(r) => Asks(op[t]))
  BY <1>3, <1>6 DEF Holds, Settling, Uncounts, Drops, Asks, InReserve
<1>10. /\ reservations' \in Partial(Keys)
       /\ DOMAIN reservations' = DOMAIN reservations \ op[t].expired
       /\ \A x \in DOMAIN reservations \ op[t].expired : reservations'[x] = reservations[x]
  <2>1. PICK S : S = DOMAIN reservations \ op[t].expired
    OBVIOUS
  <2>2. S \in SUBSET DOMAIN reservations /\ reservations' = Restrict(reservations, S)
    BY <1>3, <2>1
  <2>3. /\ Restrict(reservations, S) \in Partial(Keys)
        /\ DOMAIN Restrict(reservations, S) = S
        /\ \A x \in S : Restrict(reservations, S)[x] = reservations[x]
    BY <1>4, <2>2, RestrictFacts
  <2> QED BY <2>1, <2>2, <2>3
<1>11. Carries(r)'
  BY <1>1, <1>3, <1>6, <1>8, <1>9 DEF Carries, Holds, Settling, ReserveGuard, CleanupGuard
<1>12. \A u \in Threads : u # t /\ Holds(op[u]) => op[u].id \notin DOMAIN reservations'
  BY <1>1, <1>10 DEF Carried, Carries
<1>13. \A x \in op[t].expired : x \in DOMAIN charge /\ charge[x].settled
  BY <1>1 DEF ExpiredSettled
<1>14. EntriesLive'
  BY <1>1, <1>3, <1>7, <1>10, MoveEntries
<1>15. UnsettledHeld'
  BY <1>1, <1>3, <1>7, <1>9, <1>10, <1>13, MoveUnsettled
<1>16. ActiveExact'
  <2>1. /\ Cardinality(op[t].expired) \in Nat /\ Cardinality(r.expired) \in Nat
        /\ Cardinality(Active') + Cardinality(Reaped') + Cardinality(Forgotten')
             = active_reservations + Cardinality(r.expired) - Cardinality(op[t].expired)
    BY <1>1, <1>3, <1>7, <1>9, MoveActiveCount
  <2>2. active_reservations \in Nat
    BY <1>1 DEF Types
  <2> QED BY <1>1, <1>3, <1>6, <2>1, <2>2 DEF ActiveExact
<1>17. KeysExact'
  BY <1>1, <1>3, <1>7, <1>9, MoveKeyCount
<1>18. active_reservations' \in Nat /\ key_count' \in Nat
  BY <1>1, <1>3 DEF Types
<1> QED BY <1>3, <1>6, <1>7, <1>8, <1>9, <1>10, <1>11, <1>12, <1>13, <1>14, <1>15, <1>16,
           <1>17, <1>18, CallMove

\* reconcile removes the entry of one reservation it reaped.
LEMMA StepReconcileForget ==
  ASSUME LedgerInv, NEW t \in Threads, NEW id \in Ids, ReconcileForget(t, id)
  PROVE  LedgerInv'
<1>1. /\ Types /\ Shape(op[t]) /\ Carried /\ EntriesLive /\ UnsettledHeld
      /\ ExpiredSettled /\ ActiveExact /\ KeysExact
  BY DEF LedgerInv, Shapes
<1>2. PICK r : r = [op[t] EXCEPT !.pc = "uncount", !.expired = @ \ {id}]
  OBVIOUS
<1>3. /\ op[t].call = "reconcile" /\ op[t].pc = "forget" /\ id \in op[t].expired
      /\ op' = [op EXCEPT ![t] = r]
      /\ reservations' = Restrict(reservations, DOMAIN reservations \ {id})
      /\ active_reservations' = active_reservations /\ key_count' = key_count
      /\ keys' = keys /\ cells' = cells /\ charge' = charge
      /\ UNCHANGED <<clock, keys, cells, next_id, charge>>
  BY <1>2 DEF ReconcileForget
<1>4. op[t] \in Calls /\ reservations \in Partial(Keys)
  BY <1>1 DEF Types
<1>5. r \in Calls
  BY <1>2, <1>4 DEF Calls
<1>6. /\ r.call = "reconcile" /\ r.pc = "uncount" /\ r.key = op[t].key /\ r.cell = op[t].cell
      /\ r.expired = op[t].expired \ {id} /\ r.result = op[t].result
  BY <1>2, <1>3, <1>4 DEF Calls
<1>7. Moves(t, r)
  BY <1>3, <1>5 DEF Moves
<1>8. Shape(r) /\ r.result # "Noop"
  BY <1>1, <1>3, <1>6 DEF Shape, WithCell
<1>9. /\ ~Holds(op[t]) /\ ~Settling(op[t]) /\ ~Uncounts(op[t]) /\ ~Drops(op[t])
      /\ ~Holds(r) /\ ~Settling(r) /\ Uncounts(r) /\ ~Drops(r) /\ ~Asks(r)
      /\ Forgets(r)
  BY <1>3, <1>6 DEF Holds, Settling, Uncounts, Drops, Asks, Forgets
<1>10. /\ reservations' \in Partial(Keys)
       /\ DOMAIN reservations' = DOMAIN reservations \ {id}
       /\ \A x \in DOMAIN reservations \ {id} : reservations'[x] = reservations[x]
  <2>1. PICK S : S = DOMAIN reservations \ {id}
    OBVIOUS
  <2>2. S \in SUBSET DOMAIN reservations /\ reservations' = Restrict(reservations, S)
    BY <1>3, <2>1
  <2>3. /\ Restrict(reservations, S) \in Partial(Keys)
        /\ DOMAIN Restrict(reservations, S) = S
        /\ \A x \in S : Restrict(reservations, S)[x] = reservations[x]
    BY <1>4, <2>2, RestrictFacts
  <2> QED BY <2>1, <2>2, <2>3
<1>11. Carries(r)'
  BY <1>6, <1>8, <1>9 DEF Carries, Holds, Settling
<1>12. \A u \in Threads : u # t /\ Holds(op[u]) => op[u].id \notin DOMAIN reservations'
  BY <1>1, <1>10 DEF Carried, Carries
<1>13. \A x \in op[t].expired : x \in DOMAIN charge /\ charge[x].settled
  BY <1>1 DEF ExpiredSettled
<1>14. EntriesLive'
  BY <1>1, <1>3, <1>6, <1>7, <1>9, <1>10, MoveEntries
<1>15. UnsettledHeld'
  BY <1>1, <1>3, <1>7, <1>9, <1>10, <1>13, MoveUnsettled
<1>16. ActiveExact'
  <2>1. /\ Cardinality(op[t].expired) \in Nat /\ Cardinality(r.expired) \in Nat
        /\ Cardinality(Active') + Cardinality(Reaped') + Cardinality(Forgotten')
             = active_reservations + Cardinality(r.expired) - Cardinality(op[t].expired) + 1
    BY <1>1, <1>3, <1>7, <1>9, MoveActiveCount
  <2>2. active_reservations \in Nat /\ op[t].expired \in SUBSET Ids
    BY <1>1, <1>4 DEF Types, Calls
  <2>3. PICK E : E = op[t].expired
    OBVIOUS
  <2>4. IsFiniteSet(E)
    BY <2>2, <2>3, FiniteSets, FS_Subset
  <2>5. Cardinality(E \ {id}) = Cardinality(E) - 1
    BY <1>3, <2>3, <2>4, FS_RemoveElement
  <2> QED BY <1>1, <1>3, <1>6, <2>1, <2>2, <2>3, <2>5 DEF ActiveExact
<1>17. KeysExact'
  BY <1>1, <1>3, <1>7, <1>9, MoveKeyCount
<1>18. active_reservations' \in Nat /\ key_count' \in Nat
  BY <1>1, <1>3 DEF Types
<1>19. \A x \in r.expired : x \in DOMAIN charge /\ charge[x].settled
  BY <1>6, <1>13
<1> QED BY <1>3, <1>7, <1>8, <1>9, <1>10, <1>11, <1>12, <1>14, <1>15, <1>16,
           <1>17, <1>18, <1>19, CallMove

\* reconcile takes that reservation off the counter.
LEMMA StepReconcileUncount ==
  ASSUME LedgerInv, NEW t \in Threads, ReconcileUncount(t)
  PROVE  LedgerInv'
<1>1. /\ Types /\ Shape(op[t]) /\ Carried /\ EntriesLive /\ UnsettledHeld
      /\ ExpiredSettled /\ ActiveExact /\ KeysExact
  BY DEF LedgerInv, Shapes
<1>2. PICK r : r = [op[t] EXCEPT !.pc = "forget"]
  OBVIOUS
<1>3. /\ op[t].call = "reconcile" /\ op[t].pc = "uncount"
      /\ op' = [op EXCEPT ![t] = r] /\ reservations' = reservations
      /\ active_reservations' = active_reservations - 1 /\ key_count' = key_count
      /\ keys' = keys /\ cells' = cells /\ charge' = charge
      /\ UNCHANGED <<clock, keys, cells, next_id, charge>>
  BY <1>2 DEF ReconcileUncount, Goto
<1>4. op[t] \in Calls
  BY <1>1 DEF Types
<1>5. r \in Calls
  BY <1>2, <1>4 DEF Calls
<1>6. /\ r.call = "reconcile" /\ r.pc = "forget" /\ r.key = op[t].key /\ r.cell = op[t].cell
      /\ r.expired = op[t].expired /\ r.result = op[t].result
  BY <1>2, <1>3, <1>4 DEF Calls
<1>7. Moves(t, r)
  BY <1>3, <1>5 DEF Moves
<1>8. Shape(r) /\ r.result # "Noop"
  BY <1>1, <1>3, <1>6 DEF Shape, WithCell
<1>9. /\ ~Holds(op[t]) /\ ~Settling(op[t]) /\ Uncounts(op[t]) /\ ~Drops(op[t])
      /\ ~Holds(r) /\ ~Settling(r) /\ ~Uncounts(r) /\ ~Drops(r) /\ ~Asks(r)
      /\ Forgets(r)
  BY <1>3, <1>6 DEF Holds, Settling, Uncounts, Drops, Asks, Forgets
<1>10. Carries(r)'
  BY <1>6, <1>8, <1>9 DEF Carries, Holds, Settling
<1>11. \A u \in Threads : u # t /\ Holds(op[u]) => op[u].id \notin DOMAIN reservations'
  BY <1>1, <1>3 DEF Carried, Carries
<1>12. \A x \in r.expired : x \in DOMAIN charge /\ charge[x].settled
  BY <1>1, <1>6 DEF ExpiredSettled
<1>13. EntriesLive'
  BY <1>1, <1>3, <1>6, <1>7, <1>9, MoveEntries
<1>14. UnsettledHeld'
  BY <1>1, <1>3, <1>7, <1>9, MoveUnsettled
<1>15. ActiveExact' /\ active_reservations' \in Nat
  <2>1. /\ Cardinality(op[t].expired) \in Nat /\ Cardinality(r.expired) \in Nat
        /\ Cardinality(Active') + Cardinality(Reaped') + Cardinality(Forgotten')
             = active_reservations + Cardinality(r.expired) - Cardinality(op[t].expired) - 1
    BY <1>1, <1>3, <1>7, <1>9, MoveActiveCount
  <2>2. active_reservations \in Nat /\ active_reservations <= MaxActive /\ MaxActive \in Nat
    BY <1>1, ConfigAssumption DEF Types, ActiveExact, ValidConfig
  <2>3. /\ Cardinality(Active') \in Nat
        /\ Cardinality(Reaped') \in Nat /\ Cardinality(Forgotten') \in Nat
    BY <1>1, <1>3, <1>5, <1>7, MoveActiveCount, CountReaped, CountForgotten
  <2>4. active_reservations' = Cardinality(Active') + Cardinality(Reaped') + Cardinality(Forgotten')
    BY <1>3, <1>6, <2>1, <2>2
  <2> QED BY <1>3, <2>2, <2>3, <2>4 DEF ActiveExact
<1>16. KeysExact'
  BY <1>1, <1>3, <1>7, <1>9, MoveKeyCount
<1>17. reservations' \in Partial(Keys) /\ key_count' \in Nat
  BY <1>1, <1>3 DEF Types
<1> QED BY <1>3, <1>7, <1>8, <1>9, <1>10, <1>11, <1>12, <1>13, <1>14, <1>15, <1>16,
           <1>17, CallMove

\* reserve and cleanup take what they reaped off the counter in one fetch_sub.
LEMMA GiveBack ==
  ASSUME LedgerInv, NEW t \in Threads, NEW r, Moves(t, r), Shape(r), Carries(r),
         op[t].pc = "uncount", op[t].call \in {"reserve", "cleanup"},
         r.expired = {}, r.result # "Noop", Asks(r) => Asks(op[t]),
         ~Holds(r), ~Uncounts(r), ~Drops(r),
         active_reservations' = active_reservations - Cardinality(op[t].expired),
         UNCHANGED <<clock, keys, cells, reservations, next_id, key_count, charge>>
  PROVE  LedgerInv'
<1>1. /\ Types /\ Carried /\ EntriesLive /\ UnsettledHeld /\ ActiveExact /\ KeysExact
  BY DEF LedgerInv
<1>2. /\ reservations' = reservations /\ key_count' = key_count
      /\ keys' = keys /\ cells' = cells /\ charge' = charge
      /\ UNCHANGED <<clock, keys, cells, next_id, charge>>
  OBVIOUS
<1>3. ~Holds(op[t]) /\ ~Settling(op[t]) /\ ~Uncounts(op[t]) /\ ~Drops(op[t]) /\ ~Forgets(op[t])
  BY DEF Holds, Settling, Uncounts, Drops, Forgets
<1>4. Carries(r)'
  BY <1>2 DEF Carries, Holds, Settling
<1>5. \A u \in Threads : u # t /\ Holds(op[u]) => op[u].id \notin DOMAIN reservations'
  BY <1>1, <1>2 DEF Carried, Carries
<1>6. EntriesLive'
  BY <1>1, <1>2, <1>3, MoveEntries
<1>7. UnsettledHeld'
  BY <1>1, <1>2, <1>3, MoveUnsettled
<1>8. ActiveExact' /\ active_reservations' \in Nat
  <2>1. r \in Calls /\ op' = [op EXCEPT ![t] = r]
    BY DEF Moves
  <2>2. /\ Cardinality(op[t].expired) \in Nat /\ Cardinality(Active') \in Nat
        /\ Cardinality(Active') + Cardinality(Reaped') + Cardinality(Forgotten')
             = active_reservations + Cardinality(r.expired) - Cardinality(op[t].expired)
    BY <1>1, <1>2, <1>3, MoveActiveCount
  <2>3. Cardinality(Reaped') \in Nat /\ Cardinality(Forgotten') \in Nat
    BY <1>1, <2>1, CountReaped, CountForgotten
  <2>4. active_reservations \in Nat /\ active_reservations <= MaxActive /\ MaxActive \in Nat
    BY <1>1, ConfigAssumption DEF Types, ActiveExact, ValidConfig
  <2>5. Cardinality(r.expired) = 0
    BY FS_EmptySet
  <2>6. active_reservations' = Cardinality(Active') + Cardinality(Reaped') + Cardinality(Forgotten')
    BY <2>2, <2>4, <2>5
  <2> QED BY <2>2, <2>3, <2>4, <2>6 DEF ActiveExact
<1>9. KeysExact'
  BY <1>1, <1>2, <1>3, MoveKeyCount
<1>10. reservations' \in Partial(Keys) /\ key_count' \in Nat
  BY <1>1, <1>2 DEF Types
<1>11. \A x \in r.expired : x \in DOMAIN charge /\ charge[x].settled
  OBVIOUS
<1> QED BY <1>2, <1>3, <1>4, <1>5, <1>6, <1>7, <1>8, <1>9, <1>10, <1>11, CallMove

\* reserve then finds its window full, or asks for a reservation.
LEMMA StepReserveUncount ==
  ASSUME LedgerInv, NEW t \in Threads, ReserveUncount(t)
  PROVE  LedgerInv'
<1>1. Types /\ Shape(op[t]) /\ Carries(op[t])
  BY DEF LedgerInv, Shapes, Carried
<1>2. /\ op[t].call = "reserve" /\ op[t].pc = "uncount"
      /\ active_reservations' = active_reservations - Cardinality(op[t].expired)
      /\ UNCHANGED <<clock, keys, cells, reservations, next_id, key_count, charge>>
  BY DEF ReserveUncount
<1>3. op[t] \in Calls
  BY <1>1 DEF Types
<1>4. CASE Return(t, "WindowCapacity")
  <2>1. PICK r : r = Returned(op[t], "WindowCapacity")
    OBVIOUS
  <2>2. "WindowCapacity" \in Results
    BY DEF Results
  <2>3. /\ r \in Calls /\ r.pc = "done" /\ r.expired = {} /\ r.result = "WindowCapacity"
        /\ Shape(r) /\ ~Holds(r) /\ ~Asks(r) /\ ~Uncounts(r) /\ ~Drops(r)
    BY <1>3, <2>1, <2>2, ReturnedFacts
  <2>4. Moves(t, r)
    BY <1>4, <2>1, <2>3 DEF Moves, Return, Returned
  <2>5. Carries(r)
    BY <2>3 DEF Carries, ReserveGuard, CleanupGuard
  <2> QED BY <1>2, <2>3, <2>4, <2>5, GiveBack
<1>5. CASE op' = [op EXCEPT ![t].pc = "admit", ![t].expired = {}]
  <2>1. PICK r : r = [op[t] EXCEPT !.pc = "admit", !.expired = {}]
    OBVIOUS
  <2>2. op' = [op EXCEPT ![t] = r]
    BY <1>5, <2>1
  <2>3. r \in Calls
    BY <1>3, <2>1 DEF Calls
  <2>4. /\ r.call = "reserve" /\ r.pc = "admit" /\ r.key = op[t].key /\ r.cell = op[t].cell
        /\ r.tokens = op[t].tokens /\ r.expired = {} /\ r.result = op[t].result
    BY <1>2, <1>3, <2>1 DEF Calls
  <2>5. Shape(r) /\ r.result # "Noop"
    BY <1>1, <1>2, <2>4 DEF Shape, InReserve, WithCell
  <2>6. Asks(op[t]) /\ ~Holds(r) /\ ~Uncounts(r) /\ ~Drops(r)
    BY <1>2, <2>4 DEF Asks, InReserve, Holds, Settling, Uncounts, Drops
  <2>7. Carries(r)
    BY <1>1, <1>2, <2>4, <2>5, <2>6 DEF Carries, ReserveGuard
  <2>8. Moves(t, r)
    BY <2>2, <2>3 DEF Moves
  <2> QED BY <1>2, <2>4, <2>5, <2>6, <2>7, <2>8, GiveBack
<1> QED BY <1>4, <1>5 DEF ReserveUncount

\* The locals of a cleanup at its loop head.
AtNextKey(o) == [o EXCEPT !.pc = "next", !.key = None, !.cell = None, !.expired = {}]

\* A cleanup at its loop head holds nothing.
LEMMA NextKeyFacts ==
  ASSUME LedgerInv, NEW t \in Threads, op[t].call = "cleanup", op[t].pc # "done",
         NEW r, r = AtNextKey(op[t]), NextKey(t)
  PROVE  /\ Moves(t, r) /\ Shape(r) /\ Carries(r) /\ r.expired = {} /\ r.result # "Noop"
         /\ ~Holds(r) /\ ~Settling(r) /\ ~Asks(r) /\ ~Uncounts(r) /\ ~Drops(r)
<1>1. Types /\ Shape(op[t]) /\ op[t] \in Calls
  BY DEF LedgerInv, Shapes, Types
<1>2. r \in Calls
  BY <1>1 DEF AtNextKey, Calls
<1>3. /\ r.call = "cleanup" /\ r.pc = "next" /\ r.expired = {} /\ r.result = op[t].result
  BY <1>1 DEF AtNextKey, Calls
<1>4. Moves(t, r)
  BY <1>2 DEF Moves, NextKey, AtNextKey
<1>5. Shape(r) /\ r.result # "Noop"
  BY <1>1, <1>3 DEF Shape, WithCell
<1>6. ~Holds(r) /\ ~Settling(r) /\ ~Asks(r) /\ ~Uncounts(r) /\ ~Drops(r)
  BY <1>3 DEF Holds, Settling, Asks, Uncounts, Drops
<1>7. Carries(r)
  BY <1>3, <1>5, <1>6 DEF Carries, CleanupGuard
<1> QED BY <1>3, <1>4, <1>5, <1>6, <1>7

\* cleanup then goes for the key, when its state is empty, or to the next one.
LEMMA StepCleanupUncount ==
  ASSUME LedgerInv, NEW t \in Threads, CleanupUncount(t)
  PROVE  LedgerInv'
<1>1. Types /\ Shape(op[t])
  BY DEF LedgerInv, Shapes
<1>2. /\ op[t].call = "cleanup" /\ op[t].pc = "uncount"
      /\ active_reservations' = active_reservations - Cardinality(op[t].expired)
      /\ UNCHANGED <<clock, keys, cells, reservations, next_id, key_count, charge>>
  BY DEF CleanupUncount
<1>3. op[t] \in Calls
  BY <1>1 DEF Types
<1>4. CASE NextKey(t)
  <2>1. PICK r : r = AtNextKey(op[t])
    OBVIOUS
  <2>2. /\ Moves(t, r) /\ Shape(r) /\ Carries(r) /\ r.expired = {} /\ r.result # "Noop"
        /\ ~Holds(r) /\ ~Asks(r) /\ ~Uncounts(r) /\ ~Drops(r)
    BY <1>2, <1>4, <2>1, NextKeyFacts
  <2> QED BY <1>2, <2>2, GiveBack
<1>5. CASE op' = [op EXCEPT ![t].pc = "remove", ![t].expired = {}]
  <2>1. PICK r : r = [op[t] EXCEPT !.pc = "remove", !.expired = {}]
    OBVIOUS
  <2>2. op' = [op EXCEPT ![t] = r]
    BY <1>5, <2>1
  <2>3. r \in Calls
    BY <1>3, <2>1 DEF Calls
  <2>4. /\ r.call = "cleanup" /\ r.pc = "remove" /\ r.key = op[t].key /\ r.cell = op[t].cell
        /\ r.expired = {} /\ r.result = op[t].result
    BY <1>2, <1>3, <2>1 DEF Calls
  <2>5. Shape(r) /\ r.result # "Noop"
    BY <1>1, <1>2, <2>4 DEF Shape, WithCell
  <2>6. ~Asks(r) /\ ~Holds(r) /\ ~Uncounts(r) /\ ~Drops(r)
    BY <2>4 DEF Asks, Holds, Settling, Uncounts, Drops
  <2>7. Carries(r)
    BY <2>4, <2>5, <2>6 DEF Carries, CleanupGuard
  <2>8. Moves(t, r)
    BY <2>2, <2>3 DEF Moves
  <2> QED BY <1>2, <2>4, <2>5, <2>6, <2>7, <2>8, GiveBack
<1> QED BY <1>4, <1>5 DEF CleanupUncount

\* The id becomes reconcilable: nobody else holds it.
LEMMA StepReservePublish ==
  ASSUME LedgerInv, NEW t \in Threads, ReservePublish(t)
  PROVE  LedgerInv'
<1>1. /\ Types /\ Shape(op[t]) /\ Carried /\ Carries(op[t]) /\ HeldApart /\ EntriesLive
      /\ UnsettledHeld /\ ActiveExact /\ KeysExact
  BY DEF LedgerInv, Shapes, Carried
<1>2. /\ op[t].call = "reserve" /\ op[t].pc = "publish" /\ Return(t, "Admitted")
      /\ reservations' = Inserted(reservations, op[t].id, op[t].key)
      /\ active_reservations' = active_reservations /\ key_count' = key_count
      /\ keys' = keys /\ cells' = cells /\ charge' = charge
      /\ UNCHANGED <<clock, keys, cells, next_id, charge>>
  BY DEF ReservePublish
<1>3. op[t] \in Calls /\ "Admitted" \in Results
  BY <1>1 DEF Types, Results
<1>4. PICK r : r = Returned(op[t], "Admitted")
  OBVIOUS
<1>5. /\ r \in Calls /\ r.pc = "done" /\ r.expired = {} /\ r.result = "Admitted"
      /\ Shape(r) /\ ~Holds(r) /\ ~Settling(r) /\ ~Asks(r) /\ ~Uncounts(r) /\ ~Drops(r)
  BY <1>3, <1>4, ReturnedFacts
<1>6. Moves(t, r)
  BY <1>2, <1>4, <1>5 DEF Moves, Return, Returned
<1>7. Carries(r)'
  BY <1>5 DEF Carries, ReserveGuard, CleanupGuard, Holds, Settling
<1>8. /\ Holds(op[t]) /\ ~Settling(op[t]) /\ ~Uncounts(op[t]) /\ ~Drops(op[t])
      /\ op[t].expired = {} /\ op[t].key \in Keys
  BY <1>1, <1>2 DEF Holds, Settling, Uncounts, Drops, Shape, WithCell
<1>9. /\ op[t].id \in DOMAIN charge /\ charge[op[t].id].key = op[t].key
      /\ ~charge[op[t].id].settled
  BY <1>1, <1>2, <1>8 DEF Carries
<1>10. DOMAIN charge \in SUBSET Ids
  BY <1>1, PartialFacts DEF Types
<1>11. PICK id \in Ids : id = op[t].id
  BY <1>9, <1>10
<1>12. PICK k \in Keys : k = op[t].key
  BY <1>8
<1>13. reservations \in Partial(Keys) /\ reservations' = Inserted(reservations, id, k)
  BY <1>1, <1>2, <1>11, <1>12 DEF Types
<1>14. /\ reservations' \in Partial(Keys)
       /\ DOMAIN reservations' = DOMAIN reservations \cup {id}
       /\ reservations'[id] = k
       /\ \A x \in DOMAIN reservations : x # id => reservations'[x] = reservations[x]
  <2>1. reservations' \in Partial(Keys)
    BY <1>11, <1>12, <1>13, InsertedType
  <2> QED BY <1>13, <2>1 DEF Inserted
<1>15. \A u \in Threads : u # t /\ Holds(op[u]) => op[u].id \notin DOMAIN reservations'
  <2>1. \A u \in Threads : u # t /\ Holds(op[u]) => op[u].id \notin DOMAIN reservations
    BY <1>1 DEF Carried, Carries
  <2>2. \A u \in Threads : u # t /\ Holds(op[u]) => op[u].id # id
    BY <1>1, <1>8, <1>11 DEF HeldApart
  <2> QED BY <1>14, <2>1, <2>2
<1>16. EntriesLive'
  <2>1. op'[t] = r /\ \A u \in Threads : u # t => op'[u] = op[u]
    BY <1>1, <1>6, MoveFacts
  <2>2. ASSUME NEW x \in DOMAIN reservations'
        PROVE  /\ x \in DOMAIN charge /\ reservations'[x] = charge[x].key
               /\ charge[x].settled => \E u \in Threads : x \in op'[u].expired /\ Forgets(op'[u])
    <3>1. CASE x = id
      BY <1>9, <1>11, <1>12, <1>14, <3>1
    <3>2. CASE x # id
      <4>1. x \in DOMAIN reservations
        BY <1>14, <2>2, <3>2
      <4>2. charge[x].settled => \E u \in Threads : x \in op[u].expired /\ Forgets(op[u])
        BY <1>1, <4>1 DEF EntriesLive
      <4>3. charge[x].settled => \E u \in Threads : x \in op'[u].expired /\ Forgets(op'[u])
        BY <1>8, <2>1, <4>2
      <4> QED BY <1>1, <1>14, <3>2, <4>1, <4>3 DEF EntriesLive
    <3> QED BY <3>1, <3>2
  <2> QED BY <1>2, <2>2 DEF EntriesLive, Forgets
<1>17. UnsettledHeld'
  BY <1>1, <1>2, <1>6, <1>11, <1>14, MoveUnsettled
<1>18. ActiveExact'
  <2>1. Cardinality(Active') + Cardinality(Reaped') + Cardinality(Forgotten')
          = active_reservations + Cardinality(r.expired) - Cardinality(op[t].expired)
    BY <1>1, <1>2, <1>5, <1>6, <1>8, MoveActiveCount
  <2>2. Cardinality({}) = 0
    BY FS_EmptySet
  <2>3. active_reservations \in Nat
    BY <1>1 DEF Types
  <2> QED BY <1>1, <1>2, <1>5, <1>8, <2>1, <2>2, <2>3 DEF ActiveExact
<1>19. KeysExact'
  BY <1>1, <1>2, <1>5, <1>6, <1>8, MoveKeyCount
<1>20. active_reservations' \in Nat /\ key_count' \in Nat
  BY <1>1, <1>2 DEF Types
<1>21. \A x \in r.expired : x \in DOMAIN charge /\ charge[x].settled
  BY <1>5
<1> QED BY <1>2, <1>5, <1>6, <1>7, <1>8, <1>14, <1>15, <1>16, <1>17, <1>18, <1>19, <1>20,
           <1>21, CallMove

\* cleanup takes the key it removed off the counter.
LEMMA StepCleanupDropKey ==
  ASSUME LedgerInv, NEW t \in Threads, CleanupDropKey(t)
  PROVE  LedgerInv'
<1>1. /\ Types /\ Shape(op[t]) /\ Carried /\ EntriesLive /\ UnsettledHeld
      /\ ActiveExact /\ KeysExact
  BY DEF LedgerInv, Shapes
<1>2. /\ op[t].call = "cleanup" /\ op[t].pc = "dropkey" /\ NextKey(t)
      /\ key_count' = key_count - 1 /\ reservations' = reservations
      /\ active_reservations' = active_reservations
      /\ keys' = keys /\ cells' = cells /\ charge' = charge
      /\ UNCHANGED <<clock, keys, cells, next_id, charge>>
  BY DEF CleanupDropKey
<1>3. PICK r : r = AtNextKey(op[t])
  OBVIOUS
<1>4. /\ Moves(t, r) /\ Shape(r) /\ Carries(r) /\ r.expired = {} /\ r.result # "Noop"
      /\ ~Holds(r) /\ ~Settling(r) /\ ~Asks(r) /\ ~Uncounts(r) /\ ~Drops(r)
  BY <1>2, <1>3, NextKeyFacts
<1>5. /\ ~Holds(op[t]) /\ ~Settling(op[t]) /\ ~Uncounts(op[t]) /\ Drops(op[t])
      /\ op[t].expired = {}
  BY <1>1, <1>2 DEF Holds, Settling, Uncounts, Drops, Shape
<1>6. Carries(r)'
  BY <1>2, <1>4 DEF Carries, Holds, Settling
<1>7. \A u \in Threads : u # t /\ Holds(op[u]) => op[u].id \notin DOMAIN reservations'
  BY <1>1, <1>2 DEF Carried, Carries
<1>8. EntriesLive'
  BY <1>1, <1>2, <1>4, <1>5, MoveEntries
<1>9. UnsettledHeld'
  BY <1>1, <1>2, <1>4, <1>5, MoveUnsettled
<1>10. ActiveExact'
  <2>1. Cardinality(Active') + Cardinality(Reaped') + Cardinality(Forgotten')
          = active_reservations + Cardinality(r.expired) - Cardinality(op[t].expired)
    BY <1>1, <1>2, <1>4, <1>5, MoveActiveCount
  <2>2. Cardinality({}) = 0
    BY FS_EmptySet
  <2>3. active_reservations \in Nat
    BY <1>1 DEF Types
  <2> QED BY <1>1, <1>2, <1>4, <1>5, <2>1, <2>2, <2>3 DEF ActiveExact
<1>11. KeysExact' /\ key_count' \in Nat
  <2>1. r \in Calls /\ op' = [op EXCEPT ![t] = r]
    BY <1>4 DEF Moves
  <2>2. /\ Cardinality(Dropping) \in Nat /\ Cardinality(Dropping') \in Nat
        /\ Cardinality(Dropping') = Cardinality(Dropping) - 1
    BY <1>1, <1>4, <1>5, <2>1, CountDropping
  <2>3. PresentKeys' = PresentKeys /\ Cardinality(PresentKeys) \in Nat
    BY <1>2, CountKeys DEF PresentKeys
  <2>4. /\ key_count = Cardinality(PresentKeys) + Cardinality(Dropping)
        /\ key_count <= MaxKeys /\ key_count \in Nat /\ MaxKeys \in Nat
    BY <1>1, ConfigAssumption DEF KeysExact, Types, ValidConfig
  <2> QED BY <1>2, <2>2, <2>3, <2>4 DEF KeysExact
<1>12. reservations' \in Partial(Keys) /\ active_reservations' \in Nat
  BY <1>1, <1>2 DEF Types
<1>13. \A x \in r.expired : x \in DOMAIN charge /\ charge[x].settled
  BY <1>4
<1> QED BY <1>2, <1>4, <1>5, <1>6, <1>7, <1>8, <1>9, <1>10, <1>11, <1>12, <1>13, CallMove

-----------------------------------------------------------------------------
(* Steps that change the map of keys                                       *)

\* A fresh KeyState.
LEMMA EmptyStateFacts ==
  EmptyState \in KeyStates /\ DOMAIN EmptyState.active = {} /\ IsEmpty(EmptyState)
<1>1. NoEntries \in [{} -> ActiveReservations] /\ DOMAIN NoEntries = {}
  BY DEF NoEntries
<1>2. NoEntries \in Partial(ActiveReservations)
  BY <1>1, PartialIntro
<1> QED BY <1>1, <1>2 DEF EmptyState, KeyStates, IsEmpty

\* No cell is the absent one.
LEMMA CellsAreCells == None \notin Cells
<1>1. Cells \subseteq Nat
  <2>1. Cardinality(Keys) \in Nat /\ Cardinality(Threads) \in Nat
    BY DomainAssumption, FS_CardinalityType
  <2> QED BY <2>1 DEF Cells
<1> QED BY <1>1, DomainAssumption

\* A key enters the map with an Arc that nobody refers to.
LEMMA StepReserveInsert ==
  ASSUME LedgerInv, NEW t \in Threads, ReserveInsert(t)
  PROVE  LedgerInv'
<1>1. /\ Types /\ Shape(op[t]) /\ KeysApart /\ DetachedCellsEmpty /\ ActiveCharged
      /\ ChargedActive /\ Carried /\ KeysExact /\ ActiveExact
  BY DEF LedgerInv, Shapes
<1>2. PICK c \in Cells : /\ ~Referenced(c)
                         /\ keys' = [keys EXCEPT ![op[t].key] = c]
                         /\ cells' = [cells EXCEPT ![c] = EmptyState]
  BY DEF ReserveInsert
<1>3. PICK k : k = op[t].key
  OBVIOUS
<1>4. /\ op[t].call = "reserve" /\ op[t].pc = "lookup" /\ keys[k] = None
      /\ key_count < MaxKeys /\ key_count' = key_count + 1
      /\ clock' = clock /\ reservations' = reservations /\ next_id' = next_id
      /\ active_reservations' = active_reservations /\ op' = op /\ charge' = charge
  BY <1>3 DEF ReserveInsert
<1>5. k \in Keys
  BY <1>1, <1>3, <1>4 DEF Shape
<1>6. /\ keys'[k] = c /\ \A j \in Keys : j # k => keys'[j] = keys[j]
      /\ cells'[c] = EmptyState /\ \A d \in Cells : d # c => cells'[d] = cells[d]
  BY <1>1, <1>2, <1>3, <1>5 DEF Types
<1>7. \A j \in Keys : keys[j] # c
  BY <1>2 DEF Referenced
<1>8. IsEmpty(cells[c])
  BY <1>1, <1>2, <1>7 DEF DetachedCellsEmpty
<1>9. \A d \in Cells : DOMAIN cells'[d].active = DOMAIN cells[d].active
  BY <1>2, <1>6, <1>8, EmptyStateFacts DEF IsEmpty
<1>10. Types'
  <2>1. keys' \in [Keys -> Cells \cup {None}] /\ cells' \in [Cells -> KeyStates]
    BY <1>1, <1>2, EmptyStateFacts DEF Types
  <2> QED BY <1>1, <1>4, <2>1 DEF Types
<1>11. KeysApart'
  BY <1>1, <1>6, <1>7 DEF KeysApart
<1>12. DetachedCellsEmpty'
  <2>1. ASSUME NEW d \in Cells, \A j \in Keys : keys'[j] # d PROVE IsEmpty(cells'[d])
    <3>1. d # c
      BY <1>5, <1>6, <2>1
    <3>2. \A j \in Keys : keys[j] # d
      BY <1>4, <1>6, <2>1, CellsAreCells
    <3> QED BY <1>1, <1>6, <3>1, <3>2 DEF DetachedCellsEmpty
  <2> QED BY <2>1 DEF DetachedCellsEmpty, IsEmpty
<1>13. ActiveCharged'
  <2>1. ASSUME NEW d \in Cells, NEW id \in DOMAIN cells'[d].active
        PROVE  id \in DOMAIN charge /\ ~charge[id].settled /\ keys'[charge[id].key] = d
    <3>1. id \in DOMAIN charge /\ ~charge[id].settled /\ keys[charge[id].key] = d
      BY <1>1, <1>9, <2>1 DEF ActiveCharged
    <3>2. charge[id].key \in Keys
      BY <1>1, <3>1, ChargeFacts
    <3>3. charge[id].key # k
      BY <1>4, <3>1, CellsAreCells
    <3> QED BY <1>6, <3>1, <3>2, <3>3
  <2> QED BY <1>4, <2>1 DEF ActiveCharged
<1>14. ChargedActive'
  <2>1. ASSUME NEW id \in DOMAIN charge, ~charge[id].settled
        PROVE  /\ keys'[charge[id].key] # None
               /\ id \in DOMAIN cells'[keys'[charge[id].key]].active
    <3>1. charge[id].key \in Keys
      BY <1>1, ChargeFacts
    <3>2. keys[charge[id].key] # None /\ id \in DOMAIN cells[keys[charge[id].key]].active
      BY <1>1, <2>1 DEF ChargedActive
    <3>3. keys'[charge[id].key] = keys[charge[id].key] /\ keys[charge[id].key] \in Cells
      BY <1>1, <1>4, <1>6, <3>1, <3>2 DEF Types
    <3> QED BY <1>9, <3>2, <3>3
  <2> QED BY <1>4, <2>1 DEF ChargedActive
<1>15. Carried'
  <2>1. ASSUME NEW u \in Threads PROVE Carries(op[u])'
    <3>1. Carries(op[u]) /\ Shape(op[u]) /\ op[u] \in Calls
      BY <1>1 DEF Carried, LedgerInv, Shapes, Types
    <3>2. op[u].pc \in WithCell /\ keys[op[u].key] = op[u].cell => keys'[op[u].key] = op[u].cell
      BY <1>4, <1>6, <3>1, CellsAreCells DEF Shape
    <3>3. /\ op[u].call = "reserve" /\ op[u].pc \in ReserveGuard => keys'[op[u].key] = op[u].cell
          /\ op[u].call = "cleanup" /\ op[u].pc \in CleanupGuard => keys'[op[u].key] = op[u].cell
          /\ op[u].call = "reconcile" /\ op[u].pc = "lock" =>
               charge[op[u].id].settled \/ keys'[op[u].key] = op[u].cell
      BY <3>1, <3>2 DEF Carries, ReserveGuard, CleanupGuard, WithCell
    <3> QED BY <1>4, <3>1, <3>3 DEF Carries, Holds, Settling
  <2> QED BY <2>1 DEF Carried
<1>16. Shapes' /\ HeldApart' /\ IdsFresh' /\ EntriesLive' /\ UnsettledHeld' /\ ExpiredSettled'
       /\ NoopsJustified'
  <2>1. Shapes' /\ HeldApart' /\ EntriesLive' /\ UnsettledHeld' /\ ExpiredSettled'
        /\ NoopsJustified'
    BY <1>4 DEF LedgerInv, Shapes, Shape, HeldApart, Holds, Settling, EntriesLive, Forgets,
                UnsettledHeld, ExpiredSettled, NoopsJustified, Justified
  <2>2. Asking' = Asking
    BY <1>4 DEF Asking, Asks
  <2>3. IdsFresh'
    BY <1>4, <2>2 DEF LedgerInv, IdsFresh
  <2> QED BY <2>1, <2>3
<1>17. ActiveExact'
  <2>1. Active' = Active
    BY <1>9 DEF Active
  <2>2. Reaped' = Reaped /\ Forgotten' = Forgotten
    BY <1>4 DEF Reaped, Forgotten
  <2> QED BY <1>1, <1>4, <2>1, <2>2 DEF ActiveExact
<1>18. KeysExact'
  <2>1. Dropping' = Dropping
    BY <1>4 DEF Dropping, Drops
  <2>2. PresentKeys' = PresentKeys \cup {k} /\ k \notin PresentKeys
    BY <1>2, <1>4, <1>5, <1>6, CellsAreCells DEF PresentKeys
  <2>3. Cardinality(PresentKeys') = Cardinality(PresentKeys) + 1
    BY <2>2, CountKeys, FS_AddElement
  <2>4. IsFiniteSet(Dropping)
    <3>1. Dropping \subseteq Threads
      BY DEF Dropping
    <3> QED BY <3>1, FiniteSets, FS_Subset
  <2>5. Cardinality(Dropping) \in Nat /\ Cardinality(PresentKeys) \in Nat
    BY <2>4, CountKeys, FS_CardinalityType
  <2>6. key_count \in Nat /\ MaxKeys \in Nat
    BY <1>1, ConfigAssumption DEF Types, ValidConfig
  <2> QED BY <1>1, <1>4, <2>1, <2>3, <2>5, <2>6 DEF KeysExact
<1> QED BY <1>10, <1>11, <1>12, <1>13, <1>14, <1>15, <1>16, <1>17, <1>18 DEF LedgerInv

\* remove_if takes out a key that is empty and that no guard protects.
LEMMA StepCleanupRemove ==
  ASSUME LedgerInv, NEW t \in Threads, CleanupRemove(t)
  PROVE  LedgerInv'
<1>1. /\ Types /\ Shape(op[t]) /\ KeysApart /\ DetachedCellsEmpty /\ ActiveCharged
      /\ ChargedActive /\ Carried /\ HeldApart /\ IdsFresh /\ EntriesLive /\ UnsettledHeld
      /\ ExpiredSettled /\ NoopsJustified /\ KeysExact /\ ActiveExact /\ Shapes
  BY DEF LedgerInv, Shapes
<1>2. PICK k : k = op[t].key
  OBVIOUS
<1>3. PICK c : c = op[t].cell
  OBVIOUS
<1>4. /\ op[t].call = "cleanup" /\ op[t].pc = "remove" /\ ~SharedOn(k) /\ ~ExclusiveOn(k)
      /\ clock' = clock /\ reservations' = reservations /\ next_id' = next_id
      /\ active_reservations' = active_reservations /\ cells' = cells /\ charge' = charge
      /\ key_count' = key_count
  BY <1>2 DEF CleanupRemove
<1>5. k \in Keys /\ c \in Cells /\ op[t].expired = {} /\ op[t].result # "Noop"
  BY <1>1, <1>2, <1>3, <1>4 DEF Shape, WithCell
<1>6. ~Holds(op[t]) /\ ~Settling(op[t]) /\ ~Asks(op[t]) /\ ~Uncounts(op[t]) /\ ~Drops(op[t])
  BY <1>4 DEF Holds, Settling, Asks, Uncounts, Drops
<1>7. CASE ~(keys[k] = c /\ IsEmpty(cells[c]))
  <2>1. NextKey(t) /\ UNCHANGED keys
    BY <1>2, <1>3, <1>7 DEF CleanupRemove
  <2>2. PICK r : r = AtNextKey(op[t])
    OBVIOUS
  <2>3. /\ Moves(t, r) /\ Shape(r) /\ Carries(r) /\ r.expired = {} /\ r.result # "Noop"
        /\ ~Holds(r) /\ ~Settling(r) /\ ~Asks(r) /\ ~Uncounts(r) /\ ~Drops(r)
    BY <1>4, <2>1, <2>2, NextKeyFacts
  <2>4. UNCHANGED <<clock, keys, cells, reservations, next_id, key_count,
                    active_reservations, charge>>
    BY <1>4, <2>1
  <2> QED BY <1>5, <1>6, <2>3, <2>4, QuietMove
<1>8. CASE keys[k] = c /\ IsEmpty(cells[c])
  <2>1. PICK r : r = [op[t] EXCEPT !.pc = "dropkey"]
    OBVIOUS
  <2>2. keys' = [keys EXCEPT ![k] = None] /\ op' = [op EXCEPT ![t] = r]
    BY <1>2, <1>3, <1>8, <2>1 DEF CleanupRemove, Goto
  <2>3. op[t] \in Calls
    BY <1>1 DEF Types
  <2>4. r \in Calls
    BY <2>1, <2>3 DEF Calls
  <2>5. /\ r.call = "cleanup" /\ r.pc = "dropkey" /\ r.key = op[t].key /\ r.cell = op[t].cell
        /\ r.expired = op[t].expired /\ r.result = op[t].result
    BY <1>4, <2>1, <2>3 DEF Calls
  <2>6. Moves(t, r)
    BY <2>2, <2>4 DEF Moves
  <2>7. Shape(r)
    BY <1>1, <1>4, <1>5, <2>5 DEF Shape, WithCell
  <2>8. ~Holds(r) /\ ~Settling(r) /\ ~Asks(r) /\ ~Uncounts(r) /\ Drops(r)
    BY <2>5 DEF Holds, Settling, Asks, Uncounts, Drops
  <2>9. op'[t] = r /\ \A u \in Threads : u # t => op'[u] = op[u]
    BY <1>1, <2>6, MoveFacts
  <2>10. keys'[k] = None /\ \A j \in Keys : j # k => keys'[j] = keys[j]
    BY <1>1, <1>5, <2>2 DEF Types
  <2>11. DOMAIN cells[c].active = {}
    BY <1>8 DEF IsEmpty
  <2>12. Types'
    <3>1. op' \in [Threads -> Calls]
      BY <1>1, <2>6, MoveFacts
    <3>2. keys' \in [Keys -> Cells \cup {None}]
      BY <1>1, <2>2 DEF Types
    <3> QED BY <1>1, <1>4, <3>1, <3>2 DEF Types
  <2>13. Shapes'
    BY <1>1, <2>6, <2>7, MoveShapes
  <2>14. KeysApart'
    BY <1>1, <2>10 DEF KeysApart
  <2>15. DetachedCellsEmpty'
    <3>1. ASSUME NEW d \in Cells, \A j \in Keys : keys'[j] # d PROVE IsEmpty(cells[d])
      <4>1. CASE d = c
        BY <1>8, <4>1
      <4>2. CASE d # c
        <5>1. \A j \in Keys : keys[j] # d
          BY <1>8, <2>10, <3>1, <4>2
        <5> QED BY <1>1, <5>1 DEF DetachedCellsEmpty
      <4> QED BY <4>1, <4>2
    <3> QED BY <1>4, <3>1 DEF DetachedCellsEmpty, IsEmpty
  <2>16. \A id \in DOMAIN charge : ~charge[id].settled =>
           charge[id].key \in Keys /\ charge[id].key # k
    <3> SUFFICES ASSUME NEW id \in DOMAIN charge, ~charge[id].settled
                 PROVE  charge[id].key \in Keys /\ charge[id].key # k
      OBVIOUS
    <3>1. charge[id].key \in Keys
      BY <1>1, ChargeFacts
    <3>2. id \in DOMAIN cells[keys[charge[id].key]].active
      BY <1>1 DEF ChargedActive
    <3> QED BY <1>8, <2>11, <3>1, <3>2
  <2>17. ActiveCharged'
    <3>1. ASSUME NEW d \in Cells, NEW id \in DOMAIN cells[d].active
          PROVE  id \in DOMAIN charge /\ ~charge[id].settled /\ keys'[charge[id].key] = d
      <4>1. id \in DOMAIN charge /\ ~charge[id].settled /\ keys[charge[id].key] = d
        BY <1>1, <3>1 DEF ActiveCharged
      <4> QED BY <2>10, <2>16, <4>1
    <3> QED BY <1>4, <3>1 DEF ActiveCharged
  <2>18. ChargedActive'
    <3>1. ASSUME NEW id \in DOMAIN charge, ~charge[id].settled
          PROVE  /\ keys'[charge[id].key] # None
                 /\ id \in DOMAIN cells[keys'[charge[id].key]].active
      <4>1. keys'[charge[id].key] = keys[charge[id].key]
        BY <2>10, <2>16, <3>1
      <4> QED BY <1>1, <3>1, <4>1 DEF ChargedActive
    <3> QED BY <1>4, <3>1 DEF ChargedActive
  <2>19. Carried'
    <3>1. Carries(r)'
      BY <1>5, <2>5, <2>8 DEF Carries, CleanupGuard, Holds, Settling
    <3>2. ASSUME NEW u \in Threads, u # t PROVE Carries(op[u])'
      <4>1. Carries(op[u]) /\ op'[u] = op[u] /\ Shape(op[u])
        BY <1>1, <2>9, <3>2 DEF Carried, Shapes
      <4>2. op[u].call = "reserve" /\ op[u].pc \in ReserveGuard =>
              keys'[op[u].key] = op[u].cell
        <5>1. SUFFICES ASSUME op[u].call = "reserve", op[u].pc \in ReserveGuard
                       PROVE  keys'[op[u].key] = op[u].cell
          OBVIOUS
        <5>2. op[u].key \in Keys /\ op[u].key # k
          BY <1>4, <4>1, <5>1 DEF SharedOn, Guarded, Shape, ReserveGuard, WithCell
        <5> QED BY <2>10, <4>1, <5>1, <5>2 DEF Carries
      <4>3. op[u].call = "cleanup" /\ op[u].pc \in CleanupGuard =>
              keys'[op[u].key] = op[u].cell
        <5>1. SUFFICES ASSUME op[u].call = "cleanup", op[u].pc \in CleanupGuard
                       PROVE  keys'[op[u].key] = op[u].cell
          OBVIOUS
        <5>2. op[u].key \in Keys /\ op[u].key # k
          BY <1>4, <4>1, <5>1 DEF ExclusiveOn, Guarded, Shape, CleanupGuard, WithCell
        <5> QED BY <2>10, <4>1, <5>1, <5>2 DEF Carries
      <4>4. op[u].call = "reconcile" /\ op[u].pc = "lock" =>
              charge[op[u].id].settled \/ keys'[op[u].key] = op[u].cell
        <5>1. SUFFICES ASSUME op[u].call = "reconcile", op[u].pc = "lock",
                              ~charge[op[u].id].settled
                       PROVE  keys'[op[u].key] = op[u].cell
          OBVIOUS
        <5>2. op[u].id \in DOMAIN charge /\ charge[op[u].id].key = op[u].key
              /\ keys[op[u].key] = op[u].cell
          BY <4>1, <5>1 DEF Carries, Holds, Settling
        <5> QED BY <2>10, <2>16, <5>1, <5>2
      <4> QED BY <1>4, <4>1, <4>2, <4>3, <4>4 DEF Carries, Holds, Settling
    <3>3. Carries(op[t])'
      BY <2>9, <3>1 DEF Carries, Holds, Settling
    <3>4. \A u \in Threads : Carries(op[u])'
      BY <3>2, <3>3
    <3> QED BY <3>4 DEF Carried
  <2>20. HeldApart'
    BY <1>1, <2>6, <2>8, MoveHeld
  <2>21. IdsFresh'
    BY <1>1, <1>4, <2>6, <2>8, MoveIds
  <2>22. EntriesLive'
    BY <1>1, <1>4, <1>5, <2>6, MoveEntries
  <2>23. UnsettledHeld'
    BY <1>1, <1>4, <1>6, <2>6, MoveUnsettled
  <2>24. ExpiredSettled'
    BY <1>1, <1>4, <1>5, <2>5, <2>6, MoveExpired
  <2>25. NoopsJustified'
    BY <1>1, <1>4, <1>5, <1>6, <2>5, <2>6, MoveNoops
  <2>26. ActiveExact'
    <3>1. Cardinality(op[t].expired) \in Nat
          /\ Cardinality(Active') + Cardinality(Reaped') + Cardinality(Forgotten')
               = active_reservations + Cardinality(r.expired) - Cardinality(op[t].expired)
      BY <1>1, <1>4, <1>6, <2>6, <2>8, MoveActiveCount
    <3>2. active_reservations \in Nat
      BY <1>1 DEF Types
    <3> QED BY <1>1, <1>4, <2>5, <3>1, <3>2 DEF ActiveExact
  <2>27. KeysExact'
    <3>1. /\ Cardinality(Dropping) \in Nat
          /\ Cardinality(Dropping') = Cardinality(Dropping) + 1
      BY <1>1, <1>6, <2>2, <2>4, <2>8, CountDropping
    <3>2. PresentKeys' = PresentKeys \ {k} /\ k \in PresentKeys
      BY <1>5, <1>8, <2>10, CellsAreCells DEF PresentKeys
    <3>3. Cardinality(PresentKeys') = Cardinality(PresentKeys) - 1
      BY <3>2, CountKeys, FS_RemoveElement
    <3>4. Cardinality(PresentKeys) \in Nat
      BY CountKeys
    <3> QED BY <1>1, <1>4, <3>1, <3>3, <3>4 DEF KeysExact
  <2> QED BY <2>12, <2>13, <2>14, <2>15, <2>17, <2>18, <2>19, <2>20, <2>21, <2>22, <2>23,
             <2>24, <2>25, <2>26, <2>27 DEF LedgerInv
<1> QED BY <1>7, <1>8

-----------------------------------------------------------------------------
(* Steps that change a KeyState                                            *)

\* An admission: the id is new to every map, and the cell is the one in the map.
LEMMA StepReserveAdmit ==
  ASSUME LedgerInv, NEW t \in Threads, ReserveAdmit(t)
  PROVE  LedgerInv'
<1>1. /\ Types /\ Shape(op[t]) /\ Shapes /\ KeysApart /\ DetachedCellsEmpty /\ ActiveCharged
      /\ ChargedActive /\ Carried /\ Carries(op[t]) /\ HeldApart /\ IdsFresh /\ EntriesLive
      /\ UnsettledHeld /\ ExpiredSettled /\ NoopsJustified /\ KeysExact /\ ActiveExact
  BY DEF LedgerInv, Shapes, Carried
<1>2. PICK c : c = op[t].cell
  OBVIOUS
<1>3. PICK k : k = op[t].key
  OBVIOUS
<1>4. PICK v : v = [estimate |-> op[t].tokens, created_at_ms |-> op[t].now]
  OBVIOUS
<1>5. PICK w : w = [key |-> k, at |-> op[t].now, estimate |-> op[t].tokens,
                    tokens |-> op[t].tokens, settled |-> FALSE]
  OBVIOUS
<1>6. PICK n : n = next_id
  OBVIOUS
<1>7. PICK r : r = [op[t] EXCEPT !.pc = "publish", !.id = n]
  OBVIOUS
<1>8. /\ op[t].call = "reserve" /\ op[t].pc = "admit" /\ active_reservations < MaxActive
      /\ active_reservations' = active_reservations + 1 /\ next_id' = n + 1
      /\ cells' = [cells EXCEPT ![c].active = Inserted(@, n, v)]
      /\ op' = [op EXCEPT ![t] = r]
      /\ charge' = Inserted(charge, n, w)
      /\ clock' = clock /\ keys' = keys /\ reservations' = reservations
      /\ key_count' = key_count
  BY <1>2, <1>3, <1>4, <1>5, <1>6, <1>7 DEF ReserveAdmit
<1>9. /\ op[t] \in Calls /\ c \in Cells /\ k \in Keys /\ op[t].tokens \in Nat
      /\ op[t].now \in Nat /\ op[t].expired = {} /\ op[t].result # "Noop" /\ keys[k] = c
      /\ n \in 1..(MaxId + 1)
  BY <1>1, <1>2, <1>3, <1>6, <1>8
     DEF Types, Shape, WithCell, InReserve, Calls, Carries, ReserveGuard
<1>10. ~Holds(op[t]) /\ ~Settling(op[t]) /\ Asks(op[t]) /\ ~Uncounts(op[t]) /\ ~Drops(op[t])
  BY <1>8 DEF Holds, Settling, Asks, InReserve, Uncounts, Drops
<1>11. /\ r.call = "reserve" /\ r.pc = "publish" /\ r.id = n /\ r.key = k /\ r.cell = c
       /\ r.tokens = op[t].tokens /\ r.expired = {} /\ r.result = op[t].result
  BY <1>2, <1>3, <1>7, <1>8, <1>9 DEF Calls
<1>12. Holds(r) /\ ~Settling(r) /\ ~Asks(r) /\ ~Uncounts(r) /\ ~Drops(r)
  BY <1>11 DEF Holds, Settling, Asks, Uncounts, Drops
<1>13. n \in Ids /\ (n \in Ids => r \in Calls)
  <2>1. n <= MaxId
    <3>1. t \in Asking /\ Asking \subseteq Threads
      BY <1>10 DEF Asking
    <3>2. IsFiniteSet(Asking)
      BY <3>1, FiniteSets, FS_Subset
    <3>3. Cardinality(Asking) \in Nat /\ Cardinality(Asking) # 0
      BY <3>1, <3>2, FS_CardinalityType, FS_EmptySet
    <3>4. n + Cardinality(Asking) <= MaxId + 1 /\ MaxId \in Nat
      BY <1>1, <1>6, DomainAssumption DEF IdsFresh
    <3> QED BY <1>9, <3>3, <3>4
  <2>2. n \in Ids
    BY <1>9, <2>1, DomainAssumption DEF Ids
  <2> QED BY <1>7, <1>9, <2>2 DEF Calls
<1>14. Moves(t, r)
  BY <1>8, <1>13 DEF Moves
<1>15. op'[t] = r /\ \A u \in Threads : u # t => op'[u] = op[u]
  BY <1>1, <1>14, MoveFacts
<1>16. n \notin DOMAIN charge /\ n \notin DOMAIN reservations /\ n \notin DOMAIN cells[c].active
  <2>1. n \notin DOMAIN charge
    BY <1>1, <1>6, <1>9 DEF IdsFresh
  <2> QED BY <1>1, <1>9, <2>1 DEF EntriesLive, ActiveCharged
<1>17. /\ charge' \in Partial(Charges)
       /\ DOMAIN charge' = DOMAIN charge \cup {n} /\ charge'[n] = w
       /\ \A x \in DOMAIN charge : charge'[x] = charge[x]
  <2>1. w \in Charges
    BY <1>5, <1>9 DEF Charges
  <2>2. charge \in Partial(Charges)
    BY <1>1 DEF Types
  <2>3. Inserted(charge, n, w) \in Partial(Charges)
    BY <1>13, <2>1, <2>2, InsertedType
  <2> QED BY <1>8, <1>16, <2>3 DEF Inserted
<1>18. PICK s : s = [cells[c] EXCEPT !.active = Inserted(@, n, v)]
  OBVIOUS
<1>19. cells' = [cells EXCEPT ![c] = s]
  BY <1>8, <1>18
<1>20. cells[c] \in KeyStates
  BY <1>1, <1>9 DEF Types
<1>21. /\ s \in KeyStates /\ DOMAIN s.active = DOMAIN cells[c].active \cup {n}
       /\ s.settled = cells[c].settled
  <2>1. v \in ActiveReservations
    BY <1>4, <1>9 DEF ActiveReservations
  <2>2. cells[c].active \in Partial(ActiveReservations) /\ cells[c].settled \in Seq(Usages)
    BY <1>20 DEF KeyStates
  <2>3. PICK f : f = cells[c].active
    OBVIOUS
  <2>4. f \in Partial(ActiveReservations)
    BY <2>2, <2>3
  <2>5. Inserted(f, n, v) \in Partial(ActiveReservations)
    BY <1>13, <2>1, <2>4, InsertedType
  <2>6. DOMAIN Inserted(f, n, v) = DOMAIN f \cup {n}
    BY DEF Inserted
  <2>7. s = [settled |-> cells[c].settled, active |-> Inserted(f, n, v)]
    BY <1>18, <1>20, <2>3 DEF KeyStates
  <2> QED BY <2>2, <2>3, <2>5, <2>6, <2>7 DEF KeyStates
<1>22. cells'[c] = s /\ \A d \in Cells : d # c => cells'[d] = cells[d]
  BY <1>1, <1>9, <1>19 DEF Types
<1>23. Types'
  <2>1. op' \in [Threads -> Calls]
    BY <1>1, <1>14, MoveFacts
  <2>2. cells' \in [Cells -> KeyStates]
    BY <1>1, <1>19, <1>21 DEF Types
  <2>3. next_id' \in 1..(MaxId + 1) /\ active_reservations' \in Nat
    BY <1>1, <1>8, <1>9, <1>13, DomainAssumption DEF Types, Ids
  <2> QED BY <1>1, <1>8, <1>17, <2>1, <2>2, <2>3 DEF Types
<1>24. Shapes'
  <2>1. Shape(r)
    BY <1>9, <1>11, DomainAssumption DEF Shape
  <2> QED BY <1>1, <1>14, <2>1, MoveShapes
<1>25. KeysApart'
  BY <1>1, <1>8 DEF KeysApart
<1>26. DetachedCellsEmpty'
  BY <1>1, <1>8, <1>9, <1>22 DEF DetachedCellsEmpty, IsEmpty
<1>27. ActiveCharged'
  <2>1. ASSUME NEW d \in Cells, NEW x \in DOMAIN cells'[d].active
        PROVE  x \in DOMAIN charge' /\ ~charge'[x].settled /\ keys[charge'[x].key] = d
    <3>1. CASE x = n /\ d = c
      BY <1>5, <1>9, <1>17, <3>1
    <3>2. CASE ~(x = n /\ d = c)
      <4>1. x \in DOMAIN cells[d].active
        BY <1>21, <1>22, <2>1, <3>2
      <4>2. x \in DOMAIN charge /\ ~charge[x].settled /\ keys[charge[x].key] = d
        BY <1>1, <4>1 DEF ActiveCharged
      <4> QED BY <1>17, <4>2
    <3> QED BY <3>1, <3>2
  <2> QED BY <1>8, <2>1 DEF ActiveCharged
<1>28. ChargedActive'
  <2>1. ASSUME NEW x \in DOMAIN charge', ~charge'[x].settled
        PROVE  keys[charge'[x].key] # None /\ x \in DOMAIN cells'[keys[charge'[x].key]].active
    <3>1. CASE x = n
      BY <1>5, <1>9, <1>17, <1>21, <1>22, <3>1, CellsAreCells
    <3>2. CASE x # n
      <4>1. x \in DOMAIN charge /\ charge'[x] = charge[x]
        BY <1>17, <2>1, <3>2
      <4>2. keys[charge[x].key] # None /\ x \in DOMAIN cells[keys[charge[x].key]].active
        BY <1>1, <2>1, <4>1 DEF ChargedActive
      <4>3. charge[x].key \in Keys
        BY <1>1, <4>1, ChargeFacts
      <4>4. keys[charge[x].key] \in Cells
        BY <1>1, <4>2, <4>3 DEF Types
      <4> QED BY <1>21, <1>22, <4>1, <4>2, <4>4
    <3> QED BY <3>1, <3>2
  <2> QED BY <1>8, <2>1 DEF ChargedActive
<1>29. Carried'
  <2>1. Carries(r)'
    BY <1>5, <1>8, <1>9, <1>11, <1>12, <1>16, <1>17 DEF Carries, Holds, Settling
  <2>2. ASSUME NEW u \in Threads, u # t PROVE Carries(op[u])'
    <3>1. Carries(op[u]) /\ op'[u] = op[u]
      BY <1>1, <1>15, <2>2 DEF Carried
    <3>2. Holds(op[u]) => op[u].id \in DOMAIN charge /\ charge'[op[u].id] = charge[op[u].id]
      BY <1>17, <3>1 DEF Carries
    <3>3. op[u].result = "Noop" => op[u].id \in DOMAIN charge'
      BY <1>17, <3>1 DEF Carries
    <3> QED BY <1>8, <1>17, <3>1, <3>2, <3>3 DEF Carries, Holds, Settling
  <2>3. Carries(op[t])'
    BY <1>15, <2>1 DEF Carries, Holds, Settling
  <2>4. \A u \in Threads : Carries(op[u])'
    BY <2>2, <2>3
  <2> QED BY <2>4 DEF Carried
<1>30. HeldApart'
  <2>1. \A u \in Threads : u # t /\ Holds(op[u]) => op[u].id # r.id
    BY <1>1, <1>11, <1>16 DEF Carried, Carries
  <2> QED BY <1>1, <1>14, <2>1, MoveHeld
<1>31. IdsFresh'
  <2>1. r \in Calls
    BY <1>13
  <2>2. /\ Cardinality(Asking) \in Nat /\ Cardinality(Asking') \in Nat
        /\ Cardinality(Asking') = Cardinality(Asking) - 1
    BY <1>1, <1>8, <1>10, <1>12, <2>1, CountAsking
  <2>3. n + Cardinality(Asking) <= MaxId + 1 /\ MaxId \in Nat /\ n \in Nat
    BY <1>1, <1>6, <1>9, DomainAssumption DEF IdsFresh
  <2>4. next_id' + Cardinality(Asking') <= MaxId + 1
    BY <1>8, <2>2, <2>3
  <2>5. \A x \in DOMAIN charge' : x < next_id'
    <3>1. \A x \in DOMAIN charge : x < n /\ x \in Nat
      <4>1. \A x \in DOMAIN charge : x \in Ids
        BY <1>1, ChargeFacts
      <4> QED BY <1>1, <1>6, <4>1 DEF IdsFresh, Ids
    <3> QED BY <1>8, <1>17, <2>3, <3>1
  <2> QED BY <2>4, <2>5 DEF IdsFresh
<1>32. EntriesLive'
  <2>1. ASSUME NEW x \in DOMAIN reservations
        PROVE  /\ x \in DOMAIN charge' /\ reservations[x] = charge'[x].key
               /\ charge'[x].settled => \E u \in Threads : x \in op'[u].expired /\ Forgets(op'[u])
    <3>1. /\ x \in DOMAIN charge /\ reservations[x] = charge[x].key
          /\ charge[x].settled => \E u \in Threads : x \in op[u].expired /\ Forgets(op[u])
      BY <1>1, <2>1 DEF EntriesLive
    <3>2. charge[x].settled => \E u \in Threads : x \in op'[u].expired /\ Forgets(op'[u])
      BY <1>9, <1>15, <3>1
    <3> QED BY <1>17, <3>1, <3>2
  <2> QED BY <1>8, <2>1 DEF EntriesLive, Forgets
<1>33. UnsettledHeld'
  <2>1. ASSUME NEW x \in DOMAIN charge', ~charge'[x].settled, x \notin DOMAIN reservations
        PROVE  \E u \in Threads : Holds(op'[u]) /\ op'[u].id = x
    <3>1. CASE x = n
      BY <1>11, <1>12, <1>15, <3>1
    <3>2. CASE x # n
      <4>1. x \in DOMAIN charge /\ charge'[x] = charge[x]
        BY <1>17, <2>1, <3>2
      <4>2. PICK u \in Threads : Holds(op[u]) /\ op[u].id = x
        BY <1>1, <2>1, <4>1 DEF UnsettledHeld
      <4> QED BY <1>10, <1>15, <4>2
    <3> QED BY <3>1, <3>2
  <2> QED BY <1>8, <2>1 DEF UnsettledHeld, Holds, Settling
<1>34. ExpiredSettled'
  <2>1. ASSUME NEW u \in Threads, NEW x \in op'[u].expired
        PROVE  x \in DOMAIN charge' /\ charge'[x].settled
    <3>1. u # t /\ x \in op[u].expired
      BY <1>11, <1>15, <2>1
    <3> QED BY <1>1, <1>17, <3>1 DEF ExpiredSettled
  <2> QED BY <2>1 DEF ExpiredSettled
<1>35. NoopsJustified'
  <2>1. \A x \in DOMAIN charge : charge[x].settled => charge'[x].settled
    BY <1>17
  <2>2. r.result # "Noop"
    BY <1>9, <1>11
  <2> QED BY <1>1, <1>10, <1>14, <2>1, <2>2, MoveNoops
<1>36. ActiveExact'
  <2>1. \A d \in Cells : d # c => DOMAIN cells'[d].active = DOMAIN cells[d].active
    BY <1>22
  <2>2. /\ Cardinality(Active) \in Nat /\ Cardinality(Active') \in Nat
        /\ Cardinality(DOMAIN cells[c].active) \in Nat
        /\ Cardinality(Active') + Cardinality(DOMAIN cells[c].active)
             = Cardinality(Active) + Cardinality(DOMAIN cells'[c].active)
    BY <1>1, <1>9, <1>23, <2>1, CountActive
  <2>3. PICK E : E = DOMAIN cells[c].active
    OBVIOUS
  <2>4. E \subseteq Ids
    BY <1>20, <2>3, PartialFacts DEF KeyStates
  <2>5. IsFiniteSet(E)
    BY <2>4, FiniteSets, FS_Subset
  <2>6. Cardinality(E \cup {n}) = Cardinality(E) + 1
    BY <1>16, <2>3, <2>5, FS_AddElement
  <2>13. DOMAIN cells'[c].active = E \cup {n}
    BY <1>21, <1>22, <2>3
  <2>14. Cardinality(E) \in Nat
    BY <2>5, FS_CardinalityType
  <2>7. Cardinality(Active') = Cardinality(Active) + 1
    BY <2>2, <2>3, <2>6, <2>13, <2>14
  <2>8. r \in Calls
    BY <1>13
  <2>9. /\ Cardinality(Reaped) \in Nat /\ Cardinality(Reaped') \in Nat
        /\ Cardinality(Reaped') + Cardinality(op[t].expired)
             = Cardinality(Reaped) + Cardinality(r.expired)
        /\ Cardinality(op[t].expired) \in Nat
    BY <1>1, <1>8, <2>8, CountReaped
  <2>10. Cardinality(Reaped') = Cardinality(Reaped)
    BY <1>9, <1>11, <2>9
  <2>11. Cardinality(Forgotten') = Cardinality(Forgotten) /\ Cardinality(Forgotten) \in Nat
    BY <1>1, <1>8, <1>10, <1>12, <2>8, CountForgotten
  <2>12. MaxActive \in Nat /\ active_reservations \in Nat
    BY <1>1, ConfigAssumption DEF ValidConfig, Types
  <2> QED BY <1>1, <1>8, <2>2, <2>7, <2>9, <2>10, <2>11, <2>12 DEF ActiveExact
<1>37. KeysExact'
  BY <1>1, <1>8, <1>10, <1>12, <1>14, MoveKeyCount
<1> QED BY <1>23, <1>24, <1>25, <1>26, <1>27, <1>28, <1>29, <1>30, <1>31, <1>32, <1>33, <1>34,
           <1>35, <1>36, <1>37 DEF LedgerInv

\* What the history notes of a settlement: the ids in D, and no other.
LEMMA RecordFacts ==
  ASSUME Types, NEW D, NEW f, Record(D, f), \A id \in DOMAIN charge : f[id] \in Nat
  PROVE  /\ charge' \in Partial(Charges)
         /\ DOMAIN charge' = DOMAIN charge
         /\ \A id \in DOMAIN charge : /\ charge'[id].key = charge[id].key
                                      /\ id \in D => charge'[id].settled
                                      /\ id \notin D => charge'[id] = charge[id]
<1>1. PICK S : S = DOMAIN charge
  OBVIOUS
<1>2. charge \in Partial(Charges)
  BY DEF Types
<1>3. S \in SUBSET Ids /\ \A id \in S : charge[id] \in Charges
  BY <1>1, <1>2, PartialFacts
<1>4. charge' = [id \in S |->
                   IF id \in D
                   THEN [charge[id] EXCEPT !.tokens = f[id], !.settled = TRUE]
                   ELSE charge[id]]
  BY <1>1 DEF Record
<1>5. ASSUME NEW id \in S, id \in D
      PROVE  /\ charge'[id] \in Charges /\ charge'[id].settled
             /\ charge'[id].key = charge[id].key
  <2>1. charge'[id] = [charge[id] EXCEPT !.tokens = f[id], !.settled = TRUE]
    BY <1>4, <1>5
  <2>2. charge[id] \in Charges /\ f[id] \in Nat
    BY <1>1, <1>3, <1>5
  <2> QED BY <2>1, <2>2 DEF Charges
<1>6. ASSUME NEW id \in S, id \notin D PROVE charge'[id] = charge[id]
  BY <1>4, <1>6
<1>7. \A id \in S : charge'[id] \in Charges
  BY <1>3, <1>5, <1>6
<1>8. charge' \in [S -> Charges]
  <2>1. DOMAIN charge' = S /\ charge' = [id \in S |-> charge'[id]]
    BY <1>4
  <2> QED BY <1>7, <2>1
<1>9. charge' \in Partial(Charges)
  BY <1>3, <1>8, PartialIntro
<1>10. DOMAIN charge' = S
  BY <1>4
<1>11. \A id \in S : /\ charge'[id].key = charge[id].key
                     /\ id \in D => charge'[id].settled
                     /\ id \notin D => charge'[id] = charge[id]
  BY <1>5, <1>6
<1> QED BY <1>1, <1>9, <1>10, <1>11

\* What a reap under the mutex of c leaves in t's locals.
Reaps(t, c, r) ==
  /\ Moves(t, r)
  /\ c \in Cells /\ op[t].cell = c /\ op[t].pc = "lock" /\ ~Locked(c)
  /\ \E k \in Keys : keys[k] = c
  /\ r = [op[t] EXCEPT !.pc = "forget", !.cell = c, !.expired = r.expired]

\* A reap that takes the reservations in D out of c, settles them in the history and
\* leaves them to be forgotten keeps the invariant.  No thread between an admission
\* and its publication has one of them, since it would hold c's mutex.
LEMMA ReapStep ==
  ASSUME LedgerInv, NEW t \in Threads, NEW c, NEW r, Reaps(t, c, r),
         NEW D \in SUBSET DOMAIN cells[c].active, r.expired \subseteq D,
         \A id \in D : id \in r.expired \/ (Holds(op[t]) /\ id = op[t].id),
         Holds(op[t]) => op[t].id \in D,
         NEW s \in KeyStates, cells' = [cells EXCEPT ![c] = s],
         DOMAIN s.active = DOMAIN cells[c].active \ D,
         charge' \in Partial(Charges), DOMAIN charge' = DOMAIN charge,
         \A id \in DOMAIN charge : /\ charge'[id].key = charge[id].key
                                   /\ id \in D => charge'[id].settled
                                   /\ id \notin D => charge'[id] = charge[id],
         active_reservations' + Cardinality(D) = active_reservations + Cardinality(r.expired),
         active_reservations' \in Nat,
         UNCHANGED <<clock, keys, reservations, next_id, key_count>>
  PROVE  LedgerInv'
<1>1. /\ Types /\ Shape(op[t]) /\ Shapes /\ KeysApart /\ DetachedCellsEmpty /\ ActiveCharged
      /\ ChargedActive /\ Carried /\ Carries(op[t]) /\ HeldApart /\ IdsFresh /\ EntriesLive
      /\ UnsettledHeld /\ ExpiredSettled /\ NoopsJustified /\ KeysExact /\ ActiveExact
  BY DEF LedgerInv, Shapes, Carried
<1>2. /\ Moves(t, r) /\ c \in Cells /\ op[t].cell = c /\ op[t].pc = "lock" /\ ~Locked(c)
      /\ r = [op[t] EXCEPT !.pc = "forget", !.cell = c, !.expired = r.expired]
  BY DEF Reaps
<1>3. PICK kk \in Keys : keys[kk] = c
  BY DEF Reaps
<1>4. /\ clock' = clock /\ keys' = keys /\ reservations' = reservations /\ next_id' = next_id
      /\ key_count' = key_count
  OBVIOUS
<1>5. op'[t] = r /\ r \in Calls /\ \A u \in Threads : u # t => op'[u] = op[u]
  BY <1>1, <1>2, MoveFacts
<1>6. /\ op[t] \in Calls /\ op[t].expired = {} /\ op[t].result # "Noop" /\ op[t].key \in Keys
      /\ op[t].call # None
  BY <1>1, <1>2 DEF Types, Shape, WithCell
<1>7. /\ r.call = op[t].call /\ r.pc = "forget" /\ r.key = op[t].key /\ r.tokens = op[t].tokens
      /\ r.id = op[t].id /\ r.cell = c /\ r.result = op[t].result
  BY <1>2, <1>6 DEF Calls
<1>8. /\ ~Holds(r) /\ ~Settling(r) /\ (Asks(r) <=> Asks(op[t])) /\ ~Uncounts(r)
      /\ ~Uncounts(op[t]) /\ ~Drops(r) /\ ~Drops(op[t]) /\ Forgets(r)
      /\ (Settling(op[t]) => Holds(op[t]))
  BY <1>2, <1>7 DEF Holds, Settling, Asks, Uncounts, Drops, Forgets, InReserve
<1>9. /\ cells'[c] = s /\ \A d \in Cells : d # c => cells'[d] = cells[d]
  BY <1>1, <1>2 DEF Types
<1>10. \A x \in D : /\ x \in DOMAIN cells[c].active /\ x \in DOMAIN charge
                    /\ ~charge[x].settled /\ keys[charge[x].key] = c
  BY <1>1, <1>2 DEF ActiveCharged
<1>11. \A x \in DOMAIN charge : charge[x].settled => charge'[x].settled
  BY <1>10
<1>12. \A u \in Threads : op[u].pc = "publish" => op[u].id \notin D
  <2>1. ASSUME NEW u \in Threads, op[u].pc = "publish", op[u].id \in D PROVE FALSE
    <3>1. Carries(op[u]) /\ Shape(op[u])
      BY <1>1 DEF Carried, Shapes
    <3>2. /\ op[u].call = "reserve" /\ keys[op[u].key] = op[u].cell
          /\ charge[op[u].id].key = op[u].key
      BY <2>1, <3>1 DEF Shape, Carries, Holds, ReserveGuard
    <3>3. op[u].cell = c
      BY <1>10, <2>1, <3>2
    <3>4. Locked(c)
      BY <2>1, <3>3 DEF Locked, MutexHeld
    <3> QED BY <1>2, <3>4
  <2> QED BY <2>1
<1>13. Types'
  <2>1. op' \in [Threads -> Calls]
    BY <1>1, <1>2, MoveFacts
  <2>2. cells' \in [Cells -> KeyStates]
    BY <1>1 DEF Types
  <2> QED BY <1>1, <1>4, <2>1, <2>2 DEF Types
<1>14. Shapes'
  <2>1. Shape(r)
    BY <1>1, <1>2, <1>6, <1>7 DEF Shape, InReserve, WithCell
  <2> QED BY <1>1, <1>2, <2>1, MoveShapes
<1>15. KeysApart'
  BY <1>1, <1>4 DEF KeysApart
<1>16. DetachedCellsEmpty'
  BY <1>1, <1>3, <1>4, <1>9 DEF DetachedCellsEmpty, IsEmpty
<1>17. ActiveCharged'
  <2>1. ASSUME NEW d \in Cells, NEW x \in DOMAIN cells'[d].active
        PROVE  x \in DOMAIN charge' /\ ~charge'[x].settled /\ keys[charge'[x].key] = d
    <3>1. x \in DOMAIN cells[d].active /\ (d = c => x \notin D)
      BY <1>9, <2>1
    <3>2. x \in DOMAIN charge /\ ~charge[x].settled /\ keys[charge[x].key] = d
      BY <1>1, <3>1 DEF ActiveCharged
    <3>3. x \notin D
      BY <1>10, <3>1, <3>2
    <3> QED BY <3>2, <3>3
  <2> QED BY <1>4, <2>1 DEF ActiveCharged
<1>18. ChargedActive'
  <2>1. ASSUME NEW x \in DOMAIN charge', ~charge'[x].settled
        PROVE  keys[charge'[x].key] # None /\ x \in DOMAIN cells'[keys[charge'[x].key]].active
    <3>1. x \in DOMAIN charge /\ x \notin D /\ charge'[x] = charge[x] /\ ~charge[x].settled
      BY <2>1
    <3>2. keys[charge[x].key] # None /\ x \in DOMAIN cells[keys[charge[x].key]].active
      BY <1>1, <3>1 DEF ChargedActive
    <3>3. charge[x].key \in Keys
      BY <1>1, <3>1, ChargeFacts
    <3>4. keys[charge[x].key] \in Cells
      BY <1>1, <3>2, <3>3 DEF Types
    <3> QED BY <1>9, <3>1, <3>2, <3>4
  <2> QED BY <1>4, <2>1 DEF ChargedActive
<1>19. Carried'
  <2>1. Carries(r)'
    BY <1>1, <1>2, <1>4, <1>6, <1>7, <1>8
       DEF Carries, Holds, Settling, ReserveGuard, CleanupGuard
  <2>2. ASSUME NEW u \in Threads, u # t PROVE Carries(op[u])'
    <3>1. Carries(op[u]) /\ op'[u] = op[u]
      BY <1>1, <1>5, <2>2 DEF Carried
    <3>2. Holds(op[u]) => /\ op[u].id \in DOMAIN charge'
                          /\ charge'[op[u].id].key = charge[op[u].id].key
      BY <3>1 DEF Carries
    <3>3. op[u].pc = "publish" => charge'[op[u].id] = charge[op[u].id]
      BY <1>12, <3>1 DEF Carries, Holds
    <3>4. op[u].call = "reconcile" /\ op[u].pc = "lock" =>
            (charge[op[u].id].settled => charge'[op[u].id].settled)
      BY <1>11, <3>1 DEF Carries, Holds, Settling
    <3>5. op[u].result = "Noop" => op[u].id \in DOMAIN charge'
      BY <3>1 DEF Carries
    <3> QED BY <1>4, <3>1, <3>2, <3>3, <3>4, <3>5 DEF Carries, Holds, Settling
  <2>3. Carries(op[t])'
    BY <1>5, <2>1 DEF Carries, Holds, Settling
  <2>4. \A u \in Threads : Carries(op[u])'
    BY <2>2, <2>3
  <2> QED BY <2>4 DEF Carried
<1>20. HeldApart'
  BY <1>1, <1>2, <1>8, MoveHeld
<1>21. IdsFresh'
  BY <1>1, <1>2, <1>4, <1>8, MoveIds
<1>22. EntriesLive'
  <2>1. ASSUME NEW x \in DOMAIN reservations
        PROVE  /\ x \in DOMAIN charge' /\ reservations[x] = charge'[x].key
               /\ charge'[x].settled => \E u \in Threads : x \in op'[u].expired /\ Forgets(op'[u])
    <3>1. /\ x \in DOMAIN charge /\ reservations[x] = charge[x].key
          /\ charge[x].settled => \E u \in Threads : x \in op[u].expired /\ Forgets(op[u])
      BY <1>1, <2>1 DEF EntriesLive
    <3>2. charge[x].settled => \E u \in Threads : x \in op'[u].expired /\ Forgets(op'[u])
      BY <1>5, <1>6, <3>1
    <3>3. x \in D => x \in op'[t].expired /\ Forgets(op'[t])
      BY <1>1, <1>5, <1>8, <2>1 DEF Carries
    <3>4. charge'[x].settled => charge[x].settled \/ x \in D
      BY <3>1
    <3> QED BY <3>1, <3>2, <3>3, <3>4
  <2> QED BY <1>4, <2>1 DEF EntriesLive, Forgets
<1>23. UnsettledHeld'
  <2>1. ASSUME NEW x \in DOMAIN charge', ~charge'[x].settled, x \notin DOMAIN reservations
        PROVE  \E u \in Threads : Holds(op'[u]) /\ op'[u].id = x
    <3>1. x \in DOMAIN charge /\ x \notin D /\ ~charge[x].settled
      BY <2>1
    <3>2. PICK u \in Threads : Holds(op[u]) /\ op[u].id = x
      BY <1>1, <2>1, <3>1 DEF UnsettledHeld
    <3> QED BY <1>5, <3>1, <3>2
  <2> QED BY <1>4, <2>1 DEF UnsettledHeld, Holds, Settling
<1>24. ExpiredSettled'
  <2>1. ASSUME NEW u \in Threads, NEW x \in op'[u].expired
        PROVE  x \in DOMAIN charge' /\ charge'[x].settled
    <3>1. CASE u = t
      BY <1>5, <1>10, <2>1, <3>1
    <3>2. CASE u # t
      <4>1. x \in DOMAIN charge /\ charge[x].settled
        BY <1>1, <1>5, <2>1, <3>2 DEF ExpiredSettled
      <4> QED BY <1>11, <4>1
    <3> QED BY <3>1, <3>2
  <2> QED BY <2>1 DEF ExpiredSettled
<1>25. NoopsJustified'
  <2>1. r.result # "Noop"
    BY <1>6, <1>7
  <2>2. Settling(op[t]) => charge'[op[t].id].settled
    BY <1>8, <1>10
  <2> QED BY <1>1, <1>2, <1>11, <2>1, <2>2, MoveNoops
<1>26. ActiveExact'
  <2>1. \A d \in Cells : d # c => DOMAIN cells'[d].active = DOMAIN cells[d].active
    BY <1>9
  <2>2. PICK E : E = DOMAIN cells[c].active
    OBVIOUS
  <2>3. PICK F : F = DOMAIN cells'[c].active
    OBVIOUS
  <2>4. /\ Cardinality(Active) \in Nat /\ Cardinality(Active') \in Nat
        /\ Cardinality(E) \in Nat /\ Cardinality(F) \in Nat
        /\ Cardinality(Active') + Cardinality(E) = Cardinality(Active) + Cardinality(F)
    BY <1>1, <1>2, <1>13, <2>1, <2>2, <2>3, CountActive
  <2>5. E \subseteq Ids
    BY <1>1, <1>2, <2>2, PartialFacts DEF Types, KeyStates
  <2>6. IsFiniteSet(E)
    BY <2>5, FiniteSets, FS_Subset
  <2>7. D \subseteq E /\ F = E \ D
    BY <1>9, <2>2, <2>3
  <2>8. E \cap D = D
    BY <2>7
  <2>9. IsFiniteSet(D)
    BY <2>6, <2>7, FS_Subset
  <2>10. Cardinality(E \ D) = Cardinality(E) - Cardinality(E \cap D)
    BY <2>6, FS_Difference
  <2>11. Cardinality(D) \in Nat
    BY <2>9, FS_CardinalityType
  <2>21. Cardinality(F) = Cardinality(E) - Cardinality(D)
    BY <2>7, <2>8, <2>10
  <2>12. Cardinality(Active') + Cardinality(D) = Cardinality(Active)
    BY <2>4, <2>11, <2>21
  <2>13. op' = [op EXCEPT ![t] = r]
    BY <1>2 DEF Moves
  <2>14. /\ Cardinality(Reaped) \in Nat /\ Cardinality(Reaped') \in Nat
         /\ Cardinality(op[t].expired) \in Nat /\ Cardinality(r.expired) \in Nat
         /\ Cardinality(Reaped') + Cardinality(op[t].expired)
              = Cardinality(Reaped) + Cardinality(r.expired)
    BY <1>1, <1>5, <2>13, CountReaped
  <2>15. Cardinality(op[t].expired) = 0
    BY <1>6, FS_EmptySet
  <2>16. Cardinality(Forgotten') = Cardinality(Forgotten) /\ Cardinality(Forgotten) \in Nat
    BY <1>1, <1>5, <1>8, <2>13, CountForgotten
  <2>17. /\ active_reservations = Cardinality(Active) + Cardinality(Reaped) + Cardinality(Forgotten)
         /\ active_reservations <= MaxActive /\ MaxActive \in Nat /\ active_reservations \in Nat
    BY <1>1, ConfigAssumption DEF ActiveExact, ValidConfig, Types
  <2>18. Cardinality(r.expired) <= Cardinality(D)
    BY <2>9, FS_Subset
  <2>19. active_reservations' =
           Cardinality(Active') + Cardinality(Reaped') + Cardinality(Forgotten')
    BY <2>4, <2>11, <2>12, <2>14, <2>15, <2>16, <2>17
  <2>20. active_reservations' <= MaxActive
    BY <2>11, <2>14, <2>17, <2>18
  <2> QED BY <2>19, <2>20 DEF ActiveExact
<1>27. KeysExact'
  BY <1>1, <1>2, <1>4, <1>8, MoveKeyCount
<1> QED BY <1>13, <1>14, <1>15, <1>16, <1>17, <1>18, <1>19, <1>20, <1>21, <1>22, <1>23, <1>24,
           <1>25, <1>26, <1>27 DEF LedgerInv

\* reserve and cleanup reap a cell that their guard keeps in the map.
LEMMA GuardedReap ==
  ASSUME LedgerInv, NEW t \in Threads, NEW c, c = op[t].cell,
         op[t].call \in {"reserve", "cleanup"}, op[t].pc = "lock", ~Locked(c),
         ReapCell(t, c, cells[c]),
         Record(Expired(cells[c], op[t].now), [id \in DOMAIN charge |-> charge[id].estimate]),
         UNCHANGED <<clock, keys, reservations, next_id, key_count, active_reservations>>
  PROVE  LedgerInv'
<1>1. Types /\ Shape(op[t]) /\ Carries(op[t])
  BY DEF LedgerInv, Shapes, Carried
<1>2. /\ op[t] \in Calls /\ c \in Cells /\ op[t].key \in Keys /\ op[t].now \in Nat
      /\ keys[op[t].key] = c
  BY <1>1 DEF Types, Shape, WithCell, Calls, Carries, ReserveGuard, CleanupGuard
<1>3. ~Holds(op[t])
  BY DEF Holds, Settling
<1>4. PICK D : D = Expired(cells[c], op[t].now)
  OBVIOUS
<1>5. PICK s \in Reap(cells[c], op[t].now) :
        /\ cells' = [cells EXCEPT ![c] = s]
        /\ op' = [op EXCEPT ![t].pc = "forget", ![t].cell = c,
                            ![t].expired = Expired(cells[c], op[t].now)]
  BY DEF ReapCell
<1>6. PICK r : r = [op[t] EXCEPT !.pc = "forget", !.cell = c, !.expired = D]
  OBVIOUS
<1>7. op' = [op EXCEPT ![t] = r]
  BY <1>4, <1>5, <1>6
<1>8. cells[c] \in KeyStates
  BY <1>1, <1>2 DEF Types
<1>9. /\ s \in KeyStates /\ D \in SUBSET DOMAIN cells[c].active
      /\ DOMAIN s.active = DOMAIN cells[c].active \ D
  BY <1>2, <1>4, <1>5, <1>8, ReapFacts
<1>10. D \subseteq Ids
  BY <1>8, <1>9, PartialFacts DEF KeyStates
<1>11. r \in Calls /\ r.expired = D
  BY <1>2, <1>6, <1>10 DEF Calls
<1>12. Reaps(t, c, r)
  BY <1>2, <1>6, <1>7, <1>11 DEF Reaps, Moves
<1>13. PICK f : f = [id \in DOMAIN charge |-> charge[id].estimate]
  OBVIOUS
<1>14. \A id \in DOMAIN charge : f[id] \in Nat
  BY <1>1, <1>13, ChargeFacts DEF Charges
<1>15. Record(D, f)
  BY <1>4, <1>13
<1>16. /\ charge' \in Partial(Charges) /\ DOMAIN charge' = DOMAIN charge
       /\ \A id \in DOMAIN charge : /\ charge'[id].key = charge[id].key
                                    /\ id \in D => charge'[id].settled
                                    /\ id \notin D => charge'[id] = charge[id]
  BY <1>1, <1>14, <1>15, RecordFacts
<1>17. active_reservations' = active_reservations /\ active_reservations' \in Nat
  BY <1>1 DEF Types
<1>18. active_reservations' + Cardinality(D) = active_reservations + Cardinality(r.expired)
  BY <1>11, <1>17
<1>19. cells' = [cells EXCEPT ![c] = s]
  BY <1>5
<1>20. /\ r.expired \subseteq D /\ (Holds(op[t]) => op[t].id \in D)
       /\ \A id \in D : id \in r.expired \/ (Holds(op[t]) /\ id = op[t].id)
  BY <1>3, <1>11
<1>21. s \in KeyStates /\ UNCHANGED <<clock, keys, reservations, next_id, key_count>>
  BY <1>9
<1> QED BY <1>9, <1>12, <1>16, <1>17, <1>18, <1>19, <1>20, <1>21, ReapStep

\* reserve reaps its key before it looks for room.
LEMMA StepReserveLock ==
  ASSUME LedgerInv, NEW t \in Threads, ReserveLock(t)
  PROVE  LedgerInv'
  BY GuardedReap DEF ReserveLock

\* cleanup reaps each key it scans.
LEMMA StepCleanupLock ==
  ASSUME LedgerInv, NEW t \in Threads, CleanupLock(t)
  PROVE  LedgerInv'
  BY GuardedReap DEF CleanupLock

\* reconcile settles its id and reaps, or finds that a reap was there first.
LEMMA StepReconcileLock ==
  ASSUME LedgerInv, NEW t \in Threads, ReconcileLock(t)
  PROVE  LedgerInv'
<1>1. /\ Types /\ Shape(op[t]) /\ Carries(op[t]) /\ ActiveCharged /\ ChargedActive
      /\ ActiveExact
  BY DEF LedgerInv, Shapes, Carried
<1>2. PICK c : c = op[t].cell
  OBVIOUS
<1>3. PICK n : n = op[t].id
  OBVIOUS
<1>4. /\ op[t].call = "reconcile" /\ op[t].pc = "lock" /\ ~Locked(c)
      /\ UNCHANGED <<clock, keys, reservations, next_id, key_count>>
  BY <1>2 DEF ReconcileLock
<1>5. /\ op[t] \in Calls /\ c \in Cells /\ op[t].key \in Keys /\ op[t].now \in Nat
      /\ op[t].tokens \in Nat \cup {None}
      /\ op[t].expired = {} /\ ~Uncounts(op[t]) /\ ~Drops(op[t]) /\ Settling(op[t])
      /\ Holds(op[t])
  BY <1>1, <1>2, <1>4 DEF Types, Shape, WithCell, Calls, Uncounts, Drops, Holds, Settling
<1>6. /\ n \in DOMAIN charge /\ charge[n].key = op[t].key
      /\ charge[n].settled \/ keys[op[t].key] = c
  BY <1>1, <1>2, <1>3, <1>4, <1>5 DEF Carries
<1>7. CASE n \notin DOMAIN cells[c].active
  <2>1. charge[n].settled
    BY <1>1, <1>6, <1>7 DEF ChargedActive
  <2>2. Return(t, "Noop") /\ UNCHANGED <<cells, active_reservations, charge>>
    BY <1>2, <1>3, <1>7 DEF ReconcileLock
  <2>3. "Noop" \in Results
    BY DEF Results
  <2> QED BY <1>3, <1>4, <1>5, <2>1, <2>2, <2>3, Returns
<1>8. CASE n \in DOMAIN cells[c].active
  <2>1. PICK a : a = IF op[t].tokens = None THEN cells[c].active[n].estimate ELSE op[t].tokens
    OBVIOUS
  <2>2. PICK state : state = Settle(cells[c], n, a)
    OBVIOUS
  <2>3. PICK X : X = Expired(state, op[t].now)
    OBVIOUS
  <2>4. PICK f : f = [i \in DOMAIN charge |-> IF i = n THEN a ELSE charge[i].estimate]
    OBVIOUS
  <2>5. /\ active_reservations' = active_reservations - 1
        /\ ReapCell(t, c, state)
        /\ Record({n} \cup X, f)
    BY <1>2, <1>3, <1>8, <2>1, <2>2, <2>3, <2>4 DEF ReconcileLock
  <2>6. cells[c] \in KeyStates
    BY <1>1, <1>5 DEF Types
  <2>7. /\ cells[c].settled \in Seq(Usages) /\ cells[c].active \in Partial(ActiveReservations)
        /\ DOMAIN cells[c].active \in SUBSET Ids
        /\ \A i \in DOMAIN cells[c].active : cells[c].active[i] \in ActiveReservations
    BY <2>6, PartialFacts DEF KeyStates
  <2>8. a \in Nat
    BY <1>5, <1>8, <2>1, <2>7 DEF ActiveReservations
  <2>9. state \in KeyStates /\ DOMAIN state.active = DOMAIN cells[c].active \ {n}
    <3>1. PICK g : g = cells[c].active
      OBVIOUS
    <3>2. PICK S : S = DOMAIN g \ {n}
      OBVIOUS
    <3>3. PICK h : h = Restrict(g, S)
      OBVIOUS
    <3>4. g \in Partial(ActiveReservations) /\ S \in SUBSET DOMAIN g
      BY <2>7, <3>1, <3>2
    <3>5. h \in Partial(ActiveReservations) /\ DOMAIN h = S
      BY <3>3, <3>4, RestrictFacts
    <3>6. PICK w : w = [at_ms |-> cells[c].active[n].created_at_ms, tokens |-> a]
      OBVIOUS
    <3>7. w \in Usages
      BY <1>8, <2>7, <2>8, <3>6 DEF Usages, ActiveReservations
    <3>8. Append(cells[c].settled, w) \in Seq(Usages)
      BY <2>7, <3>7, AppendProperties
    <3>9. state = [settled |-> Append(cells[c].settled, w), active |-> h]
      BY <2>2, <3>1, <3>2, <3>3, <3>6 DEF Settle
    <3> QED BY <3>1, <3>2, <3>5, <3>8, <3>9 DEF KeyStates
  <2>10. PICK s \in Reap(state, op[t].now) :
           /\ cells' = [cells EXCEPT ![c] = s]
           /\ op' = [op EXCEPT ![t].pc = "forget", ![t].cell = c,
                               ![t].expired = Expired(state, op[t].now)]
    BY <2>5 DEF ReapCell
  <2>11. PICK r : r = [op[t] EXCEPT !.pc = "forget", !.cell = c, !.expired = X]
    OBVIOUS
  <2>12. op' = [op EXCEPT ![t] = r]
    BY <2>3, <2>10, <2>11
  <2>13. /\ s \in KeyStates /\ X \in SUBSET DOMAIN state.active
         /\ DOMAIN s.active = DOMAIN state.active \ X
    BY <1>5, <2>3, <2>9, <2>10, ReapFacts
  <2>14. X \subseteq Ids /\ n \notin X
    BY <2>7, <2>9, <2>13
  <2>15. r \in Calls /\ r.expired = X
    BY <1>5, <2>11, <2>14 DEF Calls
  <2>16. keys[op[t].key] = c
    BY <1>1, <1>5, <1>6, <1>8 DEF ActiveCharged
  <2>17. Reaps(t, c, r)
    BY <1>2, <1>4, <1>5, <2>11, <2>12, <2>15, <2>16 DEF Reaps, Moves
  <2>18. PICK D : D = {n} \cup X
    OBVIOUS
  <2>19. /\ D \in SUBSET DOMAIN cells[c].active /\ r.expired \subseteq D /\ n \in D
         /\ \A id \in D : id \in r.expired \/ (Holds(op[t]) /\ id = op[t].id)
         /\ DOMAIN s.active = DOMAIN cells[c].active \ D
    BY <1>3, <1>5, <1>8, <2>9, <2>13, <2>15, <2>18
  <2>20. \A id \in DOMAIN charge : f[id] \in Nat
    BY <1>1, <2>4, <2>8, ChargeFacts DEF Charges
  <2>21. Record(D, f)
    BY <2>5, <2>18
  <2>22. /\ charge' \in Partial(Charges) /\ DOMAIN charge' = DOMAIN charge
         /\ \A id \in DOMAIN charge : /\ charge'[id].key = charge[id].key
                                      /\ id \in D => charge'[id].settled
                                      /\ id \notin D => charge'[id] = charge[id]
    BY <1>1, <2>20, <2>21, RecordFacts
  <2>23. IsFiniteSet(X)
    BY <2>14, FiniteSets, FS_Subset
  <2>24. Cardinality(X) \in Nat /\ Cardinality(D) = Cardinality(X) + 1
    <3>1. D = X \cup {n}
      BY <2>18
    <3> QED BY <2>14, <2>23, <3>1, FS_CardinalityType, FS_AddElement
  <2>25. active_reservations \in Nat /\ active_reservations # 0
    <3>1. Active \subseteq Cells \X Ids
      BY DEF Active
    <3>2. IsFiniteSet(Cells \X Ids)
      BY FiniteSets, FS_Product
    <3>3. IsFiniteSet(Active)
      BY <3>1, <3>2, FS_Subset
    <3>4. <<c, n>> \in Active
      BY <1>5, <1>8, <2>7 DEF Active
    <3>5. Cardinality(Active) \in Nat /\ Cardinality(Active) # 0
      BY <3>3, <3>4, FS_CardinalityType, FS_EmptySet
    <3>6. op[t] \in Calls /\ op' = [op EXCEPT ![t] = r] /\ r \in Calls
      BY <1>5, <2>12, <2>15
    <3>7. Cardinality(Reaped) \in Nat /\ Cardinality(Forgotten) \in Nat
      BY <1>1, <3>6, CountReaped, CountForgotten
    <3> QED BY <1>1, <3>5, <3>7 DEF ActiveExact
  <2>26. /\ active_reservations' \in Nat
         /\ active_reservations' + Cardinality(D) = active_reservations + Cardinality(r.expired)
    BY <2>5, <2>15, <2>24, <2>25
  <2>27. cells' = [cells EXCEPT ![c] = s] /\ s \in KeyStates
    BY <2>10, <2>13
  <2> QED BY <1>3, <1>4, <2>17, <2>19, <2>22, <2>26, <2>27, ReapStep
<1> QED BY <1>7, <1>8

-----------------------------------------------------------------------------
(* The theorem                                                             *)

\* The ledger starts empty.
LEMMA InitLedger ==
  ASSUME Init
  PROVE  LedgerInv
<1>1. /\ clock = 0 /\ keys = [k \in Keys |-> None] /\ cells = [c \in Cells |-> EmptyState]
      /\ reservations = NoEntries /\ next_id = 1 /\ key_count = 0
      /\ active_reservations = 0 /\ op = [t \in Threads |-> NoCall] /\ charge = NoEntries
  BY DEF Init
<1>2. EmptyState \in KeyStates /\ IsEmpty(EmptyState) /\ DOMAIN EmptyState.active = {}
  BY EmptyStateFacts
<1>3. NoCall \in Calls
  BY DEF NoCall, Calls
<1>4. DOMAIN NoEntries = {} /\ \A T : NoEntries \in Partial(T)
  <2>1. DOMAIN NoEntries = {}
    BY DEF NoEntries
  <2>2. ASSUME NEW T PROVE NoEntries \in Partial(T)
    <3>1. NoEntries \in [{} -> T] /\ {} \in SUBSET Ids
      BY DEF NoEntries
    <3> QED BY <3>1, PartialIntro
  <2> QED BY <2>1, <2>2
<1>5. MaxId \in Nat /\ MaxClock \in Nat /\ MaxKeys \in Nat /\ MaxActive \in Nat
  BY ConfigAssumption, DomainAssumption DEF ValidConfig
<1>6. /\ NoCall.call = None /\ NoCall.pc = "idle" /\ NoCall.expired = {}
      /\ NoCall.result = None /\ NoCall.cell = None
      /\ None \notin {"reserve", "reconcile", "cleanup", "Noop"}
  BY DomainAssumption DEF NoCall
<1>7. Types
  BY <1>1, <1>2, <1>3, <1>4, <1>5 DEF Types
<1>8. Shapes
  <2>1. Shape(NoCall)
    BY <1>6 DEF Shape, InReserve, WithCell
  <2> QED BY <1>1, <2>1 DEF Shapes
<1>9. KeysApart /\ DetachedCellsEmpty
  BY <1>1, <1>2 DEF KeysApart, DetachedCellsEmpty
<1>10. ActiveCharged /\ ChargedActive
  BY <1>1, <1>2, <1>4 DEF ActiveCharged, ChargedActive
<1>11. ~Holds(NoCall) /\ ~Asks(NoCall) /\ ~Uncounts(NoCall) /\ ~Drops(NoCall)
  BY <1>6 DEF Holds, Settling, Asks, Uncounts, Drops
<1>12. Carried
  <2>1. Carries(NoCall)
    BY <1>6, <1>11 DEF Carries
  <2> QED BY <1>1, <2>1 DEF Carried
<1>13. HeldApart /\ EntriesLive /\ UnsettledHeld /\ ExpiredSettled
  BY <1>1, <1>4, <1>6, <1>11 DEF HeldApart, EntriesLive, UnsettledHeld, ExpiredSettled
<1>14. NoopsJustified
  BY <1>1, <1>6 DEF NoopsJustified, Justified
<1>15. Asking = {} /\ Forgotten = {} /\ Dropping = {}
  BY <1>1, <1>11 DEF Asking, Forgotten, Dropping, Uncounts
<1>16. Active = {}
  BY <1>1, <1>2 DEF Active
<1>17. Reaped = {}
  BY <1>1, <1>6 DEF Reaped
<1>18. PresentKeys = {}
  BY <1>1 DEF PresentKeys
<1>19. Cardinality({}) = 0
  BY FS_EmptySet
<1>20. IdsFresh
  BY <1>1, <1>4, <1>5, <1>15, <1>19 DEF IdsFresh
<1>21. ActiveExact /\ KeysExact
  BY <1>1, <1>5, <1>15, <1>16, <1>17, <1>18, <1>19 DEF ActiveExact, KeysExact
<1> QED BY <1>7, <1>8, <1>9, <1>10, <1>12, <1>13, <1>14, <1>20, <1>21 DEF LedgerInv

\* Every step of every thread, and of the clock, keeps the invariant.
LEMMA NextLedger ==
  ASSUME LedgerInv, [Next]_vars
  PROVE  LedgerInv'
<1>1. CASE Tick
  BY <1>1, StepTick
<1>2. ASSUME NEW t \in Threads, Begin(t) PROVE LedgerInv'
  <2>1. CASE \E k \in Keys, e \in Estimates : ReserveBegin(t, k, e)
    BY <2>1, StepReserveBegin
  <2>2. CASE \E id \in Issued, a \in Actuals \cup {None} : ReconcileTake(t, id, a)
    BY <2>2, StepReconcileTake
  <2>3. CASE CleanupBegin(t)
    BY <2>3, StepCleanupBegin
  <2> QED BY <1>2, <2>1, <2>2, <2>3 DEF Begin
<1>3. ASSUME NEW t \in Threads, Step(t) PROVE LedgerInv'
  <2>1. CASE ReserveLookup(t) \/ ReserveInsert(t) \/ ReserveKeyCapacity(t) \/ ReserveLock(t)
    BY <2>1, StepReserveLookup, StepReserveInsert, StepReserveKeyCapacity, StepReserveLock
  <2>2. CASE ReserveUncount(t) \/ ReserveAdmit(t) \/ ReserveCapacity(t) \/ ReservePublish(t)
    BY <2>2, StepReserveUncount, StepReserveAdmit, StepReserveCapacity, StepReservePublish
  <2>3. CASE Forget(t)
    BY <2>3, StepForget
  <2>4. CASE ReconcileLookup(t) \/ ReconcileLock(t)
    BY <2>4, StepReconcileLookup, StepReconcileLock
  <2>5. CASE \E id \in Ids : ReconcileForget(t, id)
    BY <2>5, StepReconcileForget
  <2>6. CASE ReconcileUncount(t) \/ ReconcileUnlock(t)
    BY <2>6, StepReconcileUncount, StepReconcileUnlock
  <2>7. CASE \E k \in Keys : CleanupNext(t, k)
    BY <2>7, StepCleanupNext
  <2>8. CASE CleanupLock(t) \/ CleanupUncount(t) \/ CleanupRemove(t)
    BY <2>8, StepCleanupLock, StepCleanupUncount, StepCleanupRemove
  <2>9. CASE CleanupDropKey(t) \/ CleanupEnd(t) \/ Leave(t)
    BY <2>9, StepCleanupDropKey, StepCleanupEnd, StepLeave
  <2> QED BY <1>3, <2>1, <2>2, <2>3, <2>4, <2>5, <2>6, <2>7, <2>8, <2>9 DEF Step
<1>4. CASE UNCHANGED vars
  <2>1. /\ clock' = clock /\ keys' = keys /\ cells' = cells /\ reservations' = reservations
        /\ next_id' = next_id /\ key_count' = key_count
        /\ active_reservations' = active_reservations /\ op' = op /\ charge' = charge
    BY <1>4 DEF vars
  <2>2. Types' /\ Shapes' /\ KeysApart' /\ DetachedCellsEmpty' /\ ActiveCharged'
    BY <2>1 DEF LedgerInv, Types, Shapes, Shape, KeysApart, DetachedCellsEmpty, IsEmpty,
                ActiveCharged
  <2>3. ChargedActive' /\ Carried' /\ HeldApart' /\ EntriesLive'
    BY <2>1 DEF LedgerInv, ChargedActive, Carried, Carries, HeldApart, Holds, Settling,
                EntriesLive, Forgets
  <2>4. UnsettledHeld' /\ ExpiredSettled' /\ NoopsJustified'
    BY <2>1 DEF LedgerInv, UnsettledHeld, Holds, Settling, ExpiredSettled, NoopsJustified,
                Justified
  <2>5. Asking' = Asking /\ Active' = Active /\ Reaped' = Reaped /\ Forgotten' = Forgotten
        /\ PresentKeys' = PresentKeys /\ Dropping' = Dropping
    BY <2>1 DEF Asking, Asks, Active, Reaped, Forgotten, PresentKeys, Dropping, Drops
  <2>6. IdsFresh' /\ ActiveExact' /\ KeysExact'
    BY <2>1, <2>5 DEF LedgerInv, IdsFresh, ActiveExact, KeysExact
  <2> QED BY <2>2, <2>3, <2>4, <2>6 DEF LedgerInv
<1> QED BY <1>1, <1>2, <1>3, <1>4 DEF Next

\* The invariant says what the run checks.
LEMMA LedgerBookkeeping ==
  ASSUME LedgerInv
  PROVE  Bookkeeping
<1>1. /\ Types /\ Shapes /\ DetachedCellsEmpty /\ ActiveCharged /\ ChargedActive
      /\ EntriesLive /\ UnsettledHeld /\ NoopsJustified /\ ActiveExact /\ KeysExact
  BY DEF LedgerInv
<1>2. \A T : \A f \in Partial(T) : PartialFunction(f, T)
  BY PartialFacts DEF PartialFunction
<1>3. TypeOK
  <2>1. DOMAIN cells = Cells /\ \A c \in Cells : cells[c] \in KeyStates
    BY <1>1 DEF Types
  <2>2. \A c \in Cells : /\ cells[c].settled \in Seq(Usages)
                         /\ PartialFunction(cells[c].active, ActiveReservations)
    BY <1>2, <2>1 DEF KeyStates
  <2>3. PartialFunction(reservations, Keys) /\ PartialFunction(charge, Charges)
    BY <1>1, <1>2 DEF Types
  <2> QED BY <1>1, <2>1, <2>2, <2>3 DEF Types, TypeOK
<1>4. CountersExact
  <2>1. Cardinality(PresentKeys) \in Nat
    BY CountKeys
  <2>2. Dropping = {t \in Threads : op[t].pc = "dropkey"}
    BY DEF Dropping, Drops
  <2>3. Dropping \subseteq Threads /\ Forgotten \subseteq Threads
    BY DEF Dropping, Forgotten
  <2>4. Cardinality(Dropping) \in Nat /\ Cardinality(Forgotten) \in Nat
    BY <2>3, FiniteSets, FS_Subset, FS_CardinalityType
  <2>5. IsFiniteSet(Cells \X Ids) /\ IsFiniteSet(Threads \X Ids)
    BY FiniteSets, FS_Product
  <2>6. Active \subseteq Cells \X Ids /\ Reaped \subseteq Threads \X Ids
    BY DEF Active, Reaped
  <2>7. IsFiniteSet(Active) /\ IsFiniteSet(Reaped)
    BY <2>5, <2>6, FS_Subset
  <2>8. Cardinality(Active) \in Nat /\ Cardinality(Reaped) \in Nat
    BY <2>7, FS_CardinalityType
  <2>9. MaxActive \in Nat /\ MaxKeys \in Nat
    BY ConfigAssumption DEF ValidConfig
  <2>10. Cardinality(Active) <= MaxActive
    BY <1>1, <2>4, <2>8, <2>9 DEF ActiveExact
  <2>11. Cardinality(PresentKeys) <= MaxKeys
    BY <1>1, <2>1, <2>4, <2>9 DEF KeysExact
  <2> QED BY <1>1, <2>2, <2>10, <2>11 DEF ActiveExact, KeysExact, CountersExact
<1>5. ReservationsTracked
  <2>1. ASSUME NEW id \in DOMAIN reservations
        PROVE  \/ \E k \in Keys : /\ k = reservations[id] /\ keys[k] # None
                                  /\ id \in DOMAIN cells[keys[k]].active
               \/ \E t \in Threads : /\ id \in op[t].expired
                                     /\ (op[t].pc = "forget" \/ op[t].call = "reconcile")
    <3>1. /\ id \in DOMAIN charge /\ reservations[id] = charge[id].key
          /\ charge[id].settled => \E t \in Threads : id \in op[t].expired /\ Forgets(op[t])
      BY <1>1, <2>1 DEF EntriesLive
    <3>2. CASE charge[id].settled
      BY <3>1, <3>2 DEF Forgets
    <3>3. CASE ~charge[id].settled
      <4>1. charge[id].key \in Keys
        BY <1>1, <3>1, ChargeFacts
      <4> QED BY <1>1, <3>1, <3>3, <4>1 DEF ChargedActive
    <3> QED BY <3>2, <3>3
  <2>2. ASSUME NEW c \in Cells, NEW id \in DOMAIN cells[c].active, id \notin DOMAIN reservations
        PROVE  \E t \in Threads : op[t].id = id /\ op[t].pc \in {"publish", "lookup", "lock"}
    <3>1. id \in DOMAIN charge /\ ~charge[id].settled
      BY <1>1, <2>2 DEF ActiveCharged
    <3> QED BY <1>1, <2>2, <3>1 DEF UnsettledHeld, Holds, Settling
  <2> QED BY <2>1, <2>2 DEF ReservationsTracked
<1>6. NoopMeansSettled
  BY <1>1 DEF NoopsJustified, Justified, Settling, NoopMeansSettled
<1> QED BY <1>1, <1>3, <1>4, <1>5, <1>6 DEF Bookkeeping

\* Whatever reserve, reconcile and cleanup calls of however many threads interleave:
\* both atomics count exactly what the maps hold up to the decrements under way, so
\* max_active_reservations and max_keys bound the maps themselves; an id is
\* reconcilable exactly while its reservation is active or in one call's hands; no
\* usage is kept in a KeyState the map has dropped; and a Noop drops no cost.
THEOREM BookkeepingStaysExact == Spec => []Bookkeeping
<1>1. Init => LedgerInv
  BY InitLedger
<1>2. LedgerInv /\ [Next]_vars => LedgerInv'
  BY NextLedger
<1>3. LedgerInv => Bookkeeping
  BY LedgerBookkeeping
<1> QED BY <1>1, <1>2, <1>3, PTL DEF Spec

-----------------------------------------------------------------------------
(* Usage                                                                   *)

\* The queue of settled usage that admissions on k read.
Queue(k) == IF keys[k] = None THEN <<>> ELSE cells[keys[k]].settled

\* The queue q of a key k is explained by the history ch: entry i is the settled
\* admission m[i], and a settled admission that is not in q has left every window.
Explains(ch, now, k, q, m) ==
  /\ m \in [1..Len(q) -> DOMAIN ch]
  /\ \A i, j \in 1..Len(q) : m[i] = m[j] => i = j
  /\ \A i \in 1..Len(q) : /\ ch[m[i]].key = k /\ ch[m[i]].settled
                          /\ ch[m[i]].at = q[i].at_ms /\ ch[m[i]].tokens = q[i].tokens
  /\ \A id \in DOMAIN ch :
       ch[id].key = k /\ ch[id].settled /\ (\A i \in 1..Len(q) : m[i] # id) =>
         now - ch[id].at >= MaxWindow

Explainable(ch, now, k, q) == \E m : Explains(ch, now, k, q, m)

\* A finite set of numbers has a greatest one.
LEMMA GreatestExists ==
  ASSUME NEW S, IsFiniteSet(S), \A x \in S : x \in Nat
  PROVE  S # {} => \E x \in S : \A y \in S : y <= x
<1>1. PICK B : B = {T \in SUBSET S : T # {} /\ ~\E x \in T : \A y \in T : y <= x}
  OBVIOUS
<1>2. ASSUME B # {} PROVE FALSE
  <2>1. B \subseteq SUBSET S
    BY <1>1
  <2>2. PICK T \in B : \A R \in B : R \subseteq T => R = T
    BY <1>2, <2>1, SmallestExists
  <2>3. T \in SUBSET S /\ T # {} /\ ~\E x \in T : \A y \in T : y <= x
    BY <1>1, <2>2
  <2>4. PICK x \in T : TRUE
    BY <2>3
  <2>5. PICK R : R = T \ {x}
    OBVIOUS
  <2>6. R # T /\ R \subseteq T /\ R \in SUBSET S
    BY <2>3, <2>4, <2>5
  <2>7. R \notin B
    BY <2>2, <2>6
  <2>8. CASE R = {}
    <3>1. T = {x} /\ x \in Nat
      BY <2>3, <2>4, <2>5, <2>8
    <3>2. \E z \in T : \A y \in T : y <= z
      BY <3>1
    <3> QED BY <2>3, <3>2
  <2>9. CASE R # {}
    <3>1. \E z \in R : \A y \in R : y <= z
      BY <1>1, <2>6, <2>7, <2>9
    <3>2. PICK z \in R : \A y \in R : y <= z
      BY <3>1
    <3>3. z \in Nat /\ x \in Nat /\ \A y \in T : y \in Nat
      BY <2>3, <2>4, <2>6, <3>2
    <3>4. CASE x <= z
      <4>1. \A y \in T : y <= z
        BY <2>5, <3>2, <3>4
      <4> QED BY <2>3, <2>6, <3>2, <4>1
    <3>5. CASE ~(x <= z)
      <4>1. \A y \in T : y <= x
        BY <2>5, <2>6, <3>2, <3>3, <3>5
      <4> QED BY <2>3, <2>4, <4>1
    <3> QED BY <3>4, <3>5
  <2> QED BY <2>8, <2>9
<1>3. S \notin B
  BY <1>2
<1> QED BY <1>1, <1>3

\* MaxWindow is the longest window of the rule.
LEMMA MaxWindowFacts ==
  /\ MaxWindow \in Nat
  /\ \A b \in Budgets : b.window_ms \in Nat /\ b.window_ms <= MaxWindow
<1>1. PICK W : W = {b.window_ms : b \in Budgets}
  OBVIOUS
<1>2. IsFiniteSet(Budgets) /\ Budgets # {} /\ \A b \in Budgets : b.window_ms \in Nat
  BY ConfigAssumption DEF ValidConfig
<1>3. PICK f : f = [b \in Budgets |-> b.window_ms]
  OBVIOUS
<1>4. f \in Surjection(Budgets, W)
  <2>1. f \in [Budgets -> W]
    BY <1>1, <1>3
  <2>2. \A w \in W : \E b \in Budgets : f[b] = w
    BY <1>1, <1>3
  <2> QED BY <2>1, <2>2 DEF Surjection
<1>5. IsFiniteSet(W)
  BY <1>2, <1>4, FS_Surjection
<1>6. W \subseteq Nat /\ W # {}
  BY <1>1, <1>2
<1>7. PICK n \in W : \A y \in W : y <= n
  BY <1>5, <1>6, GreatestExists
<1>8. \A y \in W : n >= y
  BY <1>6, <1>7
<1>9. MaxWindow = CHOOSE x \in W : \A y \in W : x >= y
  BY <1>1 DEF MaxWindow, Max
<1>10. MaxWindow \in W /\ \A y \in W : MaxWindow >= y
  BY <1>7, <1>8, <1>9
<1> QED BY <1>1, <1>2, <1>6, <1>10

\* What a longer queue holds.
LEMMA ConcatUsages ==
  ASSUME NEW q \in Seq(Usages), NEW p \in Seq(Usages)
  PROVE  /\ q \o p \in Seq(Usages) /\ Len(q \o p) = Len(q) + Len(p)
         /\ \A i \in 1..(Len(q) + Len(p)) :
              (q \o p)[i] = IF i <= Len(q) THEN q[i] ELSE p[i - Len(q)]
  BY ConcatProperties

\* The history dh is ch with the admissions in D, all of the key k, settled.
Settles(ch, dh, k, D) ==
  /\ DOMAIN dh = DOMAIN ch /\ D \in SUBSET DOMAIN ch
  /\ \A id \in D : ch[id].key = k /\ ~ch[id].settled
  /\ \A id \in DOMAIN ch : /\ dh[id].key = ch[id].key /\ dh[id].at = ch[id].at
                           /\ id \in D => dh[id].settled
                           /\ id \notin D => dh[id] = ch[id]

\* The usage p lists what the admissions in D cost by the history dh, each once, in
\* the order of `order`.
Lists(p, n, order, D, dh) ==
  /\ Len(p) = n /\ order \in [1..n -> D]
  /\ \A i, j \in 1..n : i # j => order[i] # order[j]
  /\ \A id \in D : \E i \in 1..n : order[i] = id
  /\ \A i \in 1..n : p[i].at_ms = dh[order[i]].at /\ p[i].tokens = dh[order[i]].tokens

\* A history that settles the admissions in D explains the queue with their usage
\* added.
LEMMA ExplainMore ==
  ASSUME NEW ch \in Partial(Charges), NEW dh \in Partial(Charges),
         NEW now \in Nat, NEW k, NEW q \in Seq(Usages), NEW m, Explains(ch, now, k, q, m),
         NEW D, Settles(ch, dh, k, D),
         NEW n \in Nat, NEW order, NEW p \in Seq(Usages), Lists(p, n, order, D, dh)
  PROVE  \E e : Explains(dh, now, k, q \o p, e)
<1> SUFFICES ASSUME DOMAIN dh = DOMAIN ch, D \in SUBSET DOMAIN ch,
                    \A id \in D : ch[id].key = k /\ ~ch[id].settled,
                    \A id \in DOMAIN ch : /\ dh[id].key = ch[id].key /\ dh[id].at = ch[id].at
                                          /\ id \in D => dh[id].settled
                                          /\ id \notin D => dh[id] = ch[id],
                    order \in [1..n -> D],
                    \A i, j \in 1..n : i # j => order[i] # order[j],
                    \A id \in D : \E i \in 1..n : order[i] = id,
                    Len(p) = n,
                    \A i \in 1..n : /\ p[i].at_ms = dh[order[i]].at
                                    /\ p[i].tokens = dh[order[i]].tokens
             PROVE  \E e : Explains(dh, now, k, q \o p, e)
  BY DEF Settles, Lists
<1>1. PICK w : w = q \o p
  OBVIOUS
<1>2. PICK l \in Nat : l = Len(q)
  OBVIOUS
<1>3. /\ w \in Seq(Usages) /\ Len(w) = l + n
      /\ \A i \in 1..(l + n) : w[i] = IF i <= l THEN q[i] ELSE p[i - l]
  <2>1. /\ q \o p \in Seq(Usages) /\ Len(q \o p) = Len(q) + Len(p)
        /\ \A i \in 1..(Len(q) + Len(p)) :
             (q \o p)[i] = IF i <= Len(q) THEN q[i] ELSE p[i - Len(q)]
    BY ConcatUsages
  <2>2. Len(p) = n
    OBVIOUS
  <2> QED BY <1>1, <1>2, <2>1, <2>2
<1>4. PICK e : e = [i \in 1..(l + n) |-> IF i <= l THEN m[i] ELSE order[i - l]]
  OBVIOUS
<1>5. /\ m \in [1..l -> DOMAIN ch]
      /\ \A i, j \in 1..l : m[i] = m[j] => i = j
      /\ \A i \in 1..l : /\ ch[m[i]].key = k /\ ch[m[i]].settled
                         /\ ch[m[i]].at = q[i].at_ms /\ ch[m[i]].tokens = q[i].tokens
      /\ \A id \in DOMAIN ch :
           ch[id].key = k /\ ch[id].settled /\ (\A i \in 1..l : m[i] # id) =>
             now - ch[id].at >= MaxWindow
  BY <1>2 DEF Explains
<1>6. \A i \in 1..l : i \in 1..(l + n) /\ e[i] = m[i] /\ w[i] = q[i]
                      /\ m[i] \in DOMAIN ch /\ m[i] \notin D /\ dh[m[i]] = ch[m[i]]
  <2>1. ASSUME NEW i \in 1..l PROVE i \in 1..(l + n) /\ i <= l
    BY <1>2
  <2>2. \A i \in 1..l : m[i] \in DOMAIN ch /\ m[i] \notin D
    BY <1>5
  <2>3. \A i \in 1..l : e[i] = m[i] /\ w[i] = q[i]
    BY <1>3, <1>4, <2>1
  <2> QED BY <2>1, <2>2, <2>3
<1>7. \A i \in 1..(l + n) : i \notin 1..l =>
        /\ i - l \in 1..n /\ e[i] = order[i - l] /\ w[i] = p[i - l] /\ order[i - l] \in D
        /\ e[i] \in DOMAIN ch
  <2>1. ASSUME NEW i \in 1..(l + n), i \notin 1..l PROVE i - l \in 1..n /\ ~(i <= l)
    BY <1>2, <2>1
  <2>2. \A i \in 1..n : order[i] \in D /\ order[i] \in DOMAIN ch
    OBVIOUS
  <2> QED BY <1>3, <1>4, <2>1, <2>2
<1>8. \A i \in 1..n : i + l \in 1..(l + n) /\ e[i + l] = order[i]
  BY <1>2, <1>4
<1>9. e \in [1..(l + n) -> DOMAIN dh]
  BY <1>4, <1>6, <1>7
<1>10. ASSUME NEW i \in 1..(l + n), NEW j \in 1..(l + n), e[i] = e[j] PROVE i = j
  <2>1. CASE i \in 1..l /\ j \in 1..l
    BY <1>5, <1>6, <1>10, <2>1
  <2>2. CASE i \notin 1..l /\ j \notin 1..l
    <3>1. i - l = j - l
      BY <1>7, <1>10, <2>2
    <3> QED BY <1>2, <3>1
  <2>3. CASE ~(i \in 1..l <=> j \in 1..l)
    <3>1. \A x \in 1..l : e[x] \notin D
      BY <1>6
    <3>2. \A x \in 1..(l + n) : x \notin 1..l => e[x] \in D
      BY <1>7
    <3> QED BY <1>10, <2>3, <3>1, <3>2
  <2> QED BY <2>1, <2>2, <2>3
<1>11. ASSUME NEW i \in 1..(l + n)
       PROVE  /\ dh[e[i]].key = k /\ dh[e[i]].settled
              /\ dh[e[i]].at = w[i].at_ms /\ dh[e[i]].tokens = w[i].tokens
  <2>1. CASE i \in 1..l
    BY <1>5, <1>6, <2>1
  <2>2. CASE i \notin 1..l
    BY <1>7, <1>11, <2>2
  <2> QED BY <2>1, <2>2
<1>12. ASSUME NEW id \in DOMAIN dh, dh[id].key = k, dh[id].settled,
              \A i \in 1..(l + n) : e[i] # id
       PROVE  now - dh[id].at >= MaxWindow
  <2>1. id \notin D
    BY <1>8, <1>12
  <2>2. dh[id] = ch[id] /\ id \in DOMAIN ch
    BY <1>12, <2>1
  <2>3. \A i \in 1..l : m[i] # id
    BY <1>6, <1>12
  <2> QED BY <1>5, <1>12, <2>2, <2>3
<1>13. Explains(dh, now, k, w, e)
  BY <1>3, <1>9, <1>10, <1>11, <1>12 DEF Explains
<1> QED BY <1>1, <1>13

\* What leaves the queue at `now` has left every window.
LEMMA ExplainPop ==
  ASSUME NEW ch \in Partial(Charges), NEW clk \in Nat, NEW now \in Nat, now <= clk, NEW k,
         NEW q \in Seq(Usages), NEW m, Explains(ch, clk, k, q, m)
  PROVE  \E e : Explains(ch, clk, k, PopExpired(q, now), e)
<1>1. PICK live : live = {i \in DOMAIN q : SatSub(now, q[i].at_ms) < MaxWindow}
  OBVIOUS
<1>2. PopExpired(q, now) = IF live = {} THEN <<>> ELSE SubSeq(q, Min(live), Len(q))
  BY <1>1 DEF PopExpired
<1>3. PICK l \in Nat : l = Len(q)
  OBVIOUS
<1>4. DOMAIN q = 1..l /\ \A i \in 1..l : q[i] \in Usages /\ q[i].at_ms \in Nat
  <2>1. DOMAIN q = 1..Len(q) /\ \A i \in 1..Len(q) : q[i] \in Usages
    OBVIOUS
  <2>2. \A u \in Usages : u.at_ms \in Nat
    BY DEF Usages
  <2> QED BY <1>3, <2>1, <2>2
<1>5. /\ m \in [1..l -> DOMAIN ch]
      /\ \A i, j \in 1..l : m[i] = m[j] => i = j
      /\ \A i \in 1..l : /\ ch[m[i]].key = k /\ ch[m[i]].settled
                         /\ ch[m[i]].at = q[i].at_ms /\ ch[m[i]].tokens = q[i].tokens
      /\ \A id \in DOMAIN ch :
           ch[id].key = k /\ ch[id].settled /\ (\A i \in 1..l : m[i] # id) =>
             clk - ch[id].at >= MaxWindow
  BY <1>3 DEF Explains
<1>6. \A i \in 1..l : i \notin live => clk - ch[m[i]].at >= MaxWindow
  <2>1. ASSUME NEW i \in 1..l, i \notin live PROVE clk - q[i].at_ms >= MaxWindow
    <3>1. ~(SatSub(now, q[i].at_ms) < MaxWindow) /\ q[i].at_ms \in Nat
      BY <1>1, <1>4, <2>1
    <3>2. MaxWindow \in Nat /\ MaxWindow > 0
      <4>1. PICK b \in Budgets : TRUE
        BY ConfigAssumption DEF ValidConfig
      <4>2. b.window_ms \in Nat \ {0}
        BY ConfigAssumption DEF ValidConfig
      <4> QED BY <4>1, <4>2, MaxWindowFacts
    <3> QED BY <3>1, <3>2 DEF SatSub
  <2> QED BY <1>5, <2>1
<1>7. CASE live = {}
  <2>1. PICK e : e = [i \in 1..0 |-> 0]
    OBVIOUS
  <2>2. PICK w : w = PopExpired(q, now)
    OBVIOUS
  <2>3. w = <<>> /\ Len(w) = 0 /\ 1..Len(w) = {}
    BY <1>2, <1>7, <2>2
  <2>4. e \in [1..Len(w) -> DOMAIN ch]
    BY <2>1, <2>3
  <2>5. \A id \in DOMAIN ch : ch[id].key = k /\ ch[id].settled => clk - ch[id].at >= MaxWindow
    BY <1>5, <1>6, <1>7
  <2>6. Explains(ch, clk, k, w, e)
    BY <2>3, <2>4, <2>5 DEF Explains
  <2> QED BY <2>2, <2>6
<1>8. CASE live # {}
  <2>1. live \subseteq Nat /\ live \subseteq 1..l
    BY <1>1, <1>4
  <2>2. \E x \in live : \A y \in live : x <= y
    BY <1>8, <2>1, LeastExists
  <2>3. PICK d : d = Min(live)
    OBVIOUS
  <2>4. d \in live /\ \A y \in live : d <= y
    BY <2>2, <2>3 DEF Min
  <2>5. d \in 1..l
    BY <2>1, <2>4
  <2>6. PICK w : w = SubSeq(q, d, l)
    OBVIOUS
  <2>7. \A i \in d..l : q[i] \in Usages
    BY <1>4, <2>5
  <2>8. /\ Len(w) = l - d + 1 /\ \A i \in 1..(l - d + 1) : w[i] = q[d + i - 1]
    BY <2>5, <2>6, <2>7, SubSeqProperties
  <2>9. PICK n : n = l - d + 1
    OBVIOUS
  <2>10. n \in Nat
    BY <2>5, <2>9
  <2>11. PICK e : e = [i \in 1..n |-> m[d + i - 1]]
    OBVIOUS
  <2>12. \A i \in 1..n : /\ d + i - 1 \in 1..l /\ e[i] = m[d + i - 1] /\ w[i] = q[d + i - 1]
                         /\ m[d + i - 1] \in DOMAIN ch
    BY <1>5, <2>5, <2>8, <2>9, <2>11
  <2>13. e \in [1..n -> DOMAIN ch]
    BY <2>11, <2>12
  <2>14. ASSUME NEW i \in 1..n, NEW j \in 1..n, e[i] = e[j] PROVE i = j
    <3>1. d + i - 1 = d + j - 1
      BY <1>5, <2>12, <2>14
    <3> QED BY <2>5, <3>1
  <2>15. ASSUME NEW i \in 1..n
         PROVE  /\ ch[e[i]].key = k /\ ch[e[i]].settled
                /\ ch[e[i]].at = w[i].at_ms /\ ch[e[i]].tokens = w[i].tokens
    BY <1>5, <2>12
  <2>16. ASSUME NEW id \in DOMAIN ch, ch[id].key = k, ch[id].settled,
                \A i \in 1..n : e[i] # id
         PROVE  clk - ch[id].at >= MaxWindow
    <3>1. CASE \E i \in 1..l : m[i] = id
      <4>1. PICK i \in 1..l : m[i] = id
        BY <3>1
      <4>2. i < d
        <5>1. ASSUME ~(i < d) PROVE FALSE
          <6>1. i - d + 1 \in 1..n /\ d + (i - d + 1) - 1 = i
            BY <2>5, <2>9, <4>1, <5>1
          <6>2. e[i - d + 1] = m[d + (i - d + 1) - 1]
            BY <2>11, <6>1
          <6> QED BY <2>16, <4>1, <6>1, <6>2
        <5> QED BY <5>1
      <4>3. i \notin live
        BY <2>4, <2>5, <4>1, <4>2
      <4> QED BY <1>6, <4>1, <4>3
    <3>2. CASE ~(\E i \in 1..l : m[i] = id)
      BY <1>5, <2>16, <3>2
    <3> QED BY <3>1, <3>2
  <2>17. Len(w) = n
    BY <2>8, <2>9
  <2>18. Explains(ch, clk, k, w, e)
    BY <2>13, <2>14, <2>15, <2>16, <2>17 DEF Explains
  <2> QED BY <1>2, <1>3, <1>8, <2>3, <2>6, <2>18
<1> QED BY <1>7, <1>8

\* A call reads its clock before it acts on it.
ClocksSane ==
  /\ \A t \in Threads : op[t].now <= clock
  /\ \A id \in DOMAIN charge : charge[id].at <= clock

\* next_id numbers the admissions without gaps.
IdsDense == DOMAIN charge = 1..(next_id - 1)

\* A reservation holds what its admission cost, and an admission costs its estimate
\* until it is settled.
TermsKept ==
  /\ \A c \in Cells : \A id \in DOMAIN cells[c].active :
       /\ cells[c].active[id].created_at_ms = charge[id].at
       /\ cells[c].active[id].estimate = charge[id].estimate
  /\ \A id \in DOMAIN charge : ~charge[id].settled => charge[id].tokens = charge[id].estimate

Explained == \A k \in Keys : Explainable(charge, clock, k, Queue(k))

\* What the callers asked for.
AskedFor(o) ==
  /\ o.call = "reserve" /\ o.pc \in InReserve => o.tokens \in Estimates \ {0}
  /\ Settling(o) => o.tokens \in Actuals \cup {None}

Asked == \A t \in Threads : AskedFor(op[t])

\* A KeyState's mutex is held by one thread at a time.
MutexApart ==
  \A t, u \in Threads :
    op[t].pc \in MutexHeld /\ op[u].pc \in MutexHeld /\ op[t].cell = op[u].cell => t = u

\* The room that a reserve saw is still there when it takes it: the mutex is held
\* from the look to the admission.
RoomKept ==
  \A t \in Threads :
    op[t].pc = "admit" => ~Exhausted(cells[op[t].cell], op[t].tokens, op[t].now)

UsageInv ==
  /\ ClocksSane /\ IdsDense /\ TermsKept /\ Explained /\ Asked /\ MutexApart /\ RoomKept

\* The settled usage that counts at `now`.
Live(q, now, w) == {i \in DOMAIN q : SatSub(now, q[i].at_ms) < w}

\* What a queue is, for the sums over it.
LEMMA QueueFacts ==
  ASSUME NEW q \in Seq(Usages)
  PROVE  /\ Len(q) \in Nat /\ DOMAIN q = 1..Len(q) /\ IsFiniteSet(DOMAIN q)
         /\ \A i \in DOMAIN q : q[i].at_ms \in Nat /\ q[i].tokens \in Nat
<1>1. PICK n \in Nat : n = Len(q)
  OBVIOUS
<1>2. DOMAIN q = 1..n /\ \A i \in 1..n : q[i] \in Usages
  BY <1>1
<1>3. IsFiniteSet(1..n)
  BY FS_Interval
<1>4. \A u \in Usages : u.at_ms \in Nat /\ u.tokens \in Nat
  BY DEF Usages
<1> QED BY <1>1, <1>2, <1>3, <1>4

\* An older clock counts no less.
LEMMA OlderCountsMore ==
  ASSUME NEW q \in Seq(Usages), NEW now \in Nat, NEW clk \in Nat, now <= clk, NEW w \in Nat
  PROVE  /\ SettledUsage(q, clk, w) \in Nat /\ SettledUsage(q, now, w) \in Nat
         /\ SettledUsage(q, clk, w) <= SettledUsage(q, now, w)
<1>1. PICK h : h = [i \in DOMAIN q |-> q[i].tokens]
  OBVIOUS
<1>2. PICK S : S = Live(q, now, w)
  OBVIOUS
<1>3. PICK P : P = Live(q, clk, w)
  OBVIOUS
<1>4. SettledUsage(q, clk, w) = SumFunctionOnSet(h, P)
      /\ SettledUsage(q, now, w) = SumFunctionOnSet(h, S)
  BY <1>1, <1>2, <1>3 DEF SettledUsage, Live
<1>5. /\ IsFiniteSet(DOMAIN q)
      /\ \A i \in DOMAIN q : q[i].at_ms \in Nat /\ q[i].tokens \in Nat
  BY QueueFacts
<1>6. S \subseteq DOMAIN q /\ P \subseteq S
  BY <1>2, <1>3, <1>5 DEF Live, SatSub
<1>7. IsFiniteSet(S)
  BY <1>5, <1>6, FS_Subset
<1>8. \A i \in S : h[i] \in Nat
  BY <1>1, <1>5, <1>6
<1>9. /\ SumFunctionOnSet(h, P) \in Nat /\ SumFunctionOnSet(h, S) \in Nat
      /\ SumFunctionOnSet(h, P) <= SumFunctionOnSet(h, S)
  BY <1>6, <1>7, <1>8, SumPart
<1> QED BY <1>4, <1>9

\* The history's terms are numbers.
LEMMA HistoryTypes ==
  ASSUME Types
  PROVE  /\ IsFiniteSet(DOMAIN charge) /\ clock \in Nat
         /\ \A id \in DOMAIN charge :
              /\ charge[id].key \in Keys /\ charge[id].at \in Nat
              /\ charge[id].estimate \in Nat /\ charge[id].tokens \in Nat
<1>1. DOMAIN charge \subseteq Ids
  BY ChargeFacts
<1>2. \A id \in DOMAIN charge : charge[id] \in Charges
  BY ChargeFacts
<1>3. \A v \in Charges : v.key \in Keys /\ v.at \in Nat /\ v.estimate \in Nat /\ v.tokens \in Nat
  BY DEF Charges
<1>4. clock \in Nat
  BY DomainAssumption DEF Types
<1> QED BY <1>1, <1>2, <1>3, <1>4, FiniteSets, FS_Subset

\* What a key's KeyState is.
LEMMA QueueType ==
  ASSUME Types, NEW k \in Keys
  PROVE  Queue(k) \in Seq(Usages)
  BY DEF Types, KeyStates, Queue

\* The promise sums as the ledger does.
LEMMA PromiseSums ==
  ASSUME NEW f, NEW S
  PROVE  Promise!SumFunctionOnSet(f, S) = SumFunctionOnSet(f, S)
  BY DEF SumFunctionOnSet, FoldFunctionOnSet, MapThenFoldSet,
         Promise!SumFunctionOnSet, Promise!FoldFunctionOnSet, Promise!MapThenFoldSet

\* What was admitted on k and counts in a window is what the KeyState sums to.
LEMMA ChargedIsUsage ==
  ASSUME LedgerInv, UsageInv, NEW k \in Keys, NEW w \in Nat, w <= MaxWindow
  PROVE  Promise!Charged(k, w) = IF keys[k] = None THEN 0
                                 ELSE UsageInWindow(cells[keys[k]], clock, w)
<1>1. /\ Types /\ ActiveCharged /\ ChargedActive /\ ClocksSane /\ TermsKept /\ Explained
      /\ KeysApart
  BY DEF LedgerInv, UsageInv
<1>2. /\ IsFiniteSet(DOMAIN charge) /\ clock \in Nat /\ MaxWindow \in Nat
      /\ \A id \in DOMAIN charge :
           /\ charge[id].key \in Keys /\ charge[id].at \in Nat
           /\ charge[id].estimate \in Nat /\ charge[id].tokens \in Nat
           /\ charge[id].at <= clock
  BY <1>1, HistoryTypes, MaxWindowFacts DEF ClocksSane
<1>3. PICK q : q = Queue(k)
  OBVIOUS
<1>4. q \in Seq(Usages)
  BY <1>1, <1>3, QueueType
<1>5. /\ Len(q) \in Nat /\ DOMAIN q = 1..Len(q) /\ IsFiniteSet(DOMAIN q)
      /\ \A i \in DOMAIN q : q[i].at_ms \in Nat /\ q[i].tokens \in Nat
  BY <1>4, QueueFacts
<1>6. PICK m : Explains(charge, clock, k, q, m)
  BY <1>1, <1>3 DEF Explained, Explainable
<1>7. PICK tok : tok = [id \in DOMAIN charge |-> charge[id].tokens]
  OBVIOUS
<1>8. PICK C : C = {id \in DOMAIN charge : /\ charge[id].key = k
                                           /\ charge[id].settled => clock - charge[id].at < w}
  OBVIOUS
<1>9. Promise!Charged(k, w) = SumFunctionOnSet(tok, C)
  <2>1. Promise!Counted(k, w) = C
    BY <1>8 DEF Promise!Counted
  <2> QED BY <1>7, <2>1, PromiseSums DEF Promise!Charged
<1>10. PICK P : P = {id \in DOMAIN charge : charge[id].key = k /\ ~charge[id].settled}
  OBVIOUS
<1>11. PICK R : R = {id \in DOMAIN charge : /\ charge[id].key = k /\ charge[id].settled
                                            /\ clock - charge[id].at < w}
  OBVIOUS
<1>12. P \in SUBSET C /\ R = C \ P /\ C \subseteq DOMAIN charge
  BY <1>8, <1>10, <1>11
<1>13. IsFiniteSet(C) /\ IsFiniteSet(P) /\ \A id \in DOMAIN charge : tok[id] \in Nat
  BY <1>2, <1>7, <1>12, FS_Subset
<1>14. /\ SumFunctionOnSet(tok, P) \in Nat /\ SumFunctionOnSet(tok, R) \in Nat
       /\ SumFunctionOnSet(tok, C) = SumFunctionOnSet(tok, P) + SumFunctionOnSet(tok, R)
  <2>1. \A id \in C : tok[id] \in Nat
    BY <1>12, <1>13
  <2> QED BY <1>12, <1>13, <2>1, SumSplit
<1>15. PICK I : I = Live(q, clock, w)
  OBVIOUS
<1>16. PICK h : h = [i \in DOMAIN q |-> q[i].tokens]
  OBVIOUS
<1>17. /\ \A i \in DOMAIN q : /\ m[i] \in DOMAIN charge /\ charge[m[i]].key = k
                              /\ charge[m[i]].settled /\ charge[m[i]].at = q[i].at_ms
                              /\ charge[m[i]].tokens = q[i].tokens
       /\ \A i, j \in DOMAIN q : m[i] = m[j] => i = j
       /\ \A id \in DOMAIN charge :
            charge[id].key = k /\ charge[id].settled /\ (\A i \in DOMAIN q : m[i] # id) =>
              clock - charge[id].at >= MaxWindow
  BY <1>5, <1>6 DEF Explains
<1>18. R = {m[i] : i \in I}
  <2>1. ASSUME NEW id \in R PROVE id \in {m[i] : i \in I}
    <3>1. /\ id \in DOMAIN charge /\ charge[id].key = k /\ charge[id].settled
          /\ clock - charge[id].at < w
      BY <1>11, <2>1
    <3>2. charge[id].at \in Nat /\ charge[id].at <= clock
      BY <1>2, <3>1
    <3>3. ~(clock - charge[id].at >= MaxWindow)
      BY <1>2, <3>1, <3>2
    <3>4. PICK i \in DOMAIN q : m[i] = id
      BY <1>17, <3>1, <3>3
    <3>5. q[i].at_ms = charge[id].at
      BY <1>17, <3>4
    <3>6. SatSub(clock, q[i].at_ms) < w
      BY <1>2, <3>1, <3>2, <3>5 DEF SatSub
    <3> QED BY <1>15, <3>4, <3>6 DEF Live
  <2>2. ASSUME NEW i \in I PROVE m[i] \in R
    <3>1. i \in DOMAIN q /\ SatSub(clock, q[i].at_ms) < w
      BY <1>15, <2>2 DEF Live
    <3>2. /\ m[i] \in DOMAIN charge /\ charge[m[i]].key = k
          /\ charge[m[i]].settled /\ charge[m[i]].at = q[i].at_ms
      BY <1>17, <3>1
    <3>3. charge[m[i]].at \in Nat /\ charge[m[i]].at <= clock
      BY <1>2, <3>2
    <3>4. clock - charge[m[i]].at < w
      BY <1>2, <3>1, <3>2, <3>3 DEF SatSub
    <3> QED BY <1>11, <3>2, <3>4
  <2> QED BY <2>1, <2>2
<1>19. SumFunctionOnSet(h, I) = SumFunctionOnSet(tok, {m[i] : i \in I})
  <2>1. I \subseteq DOMAIN q
    BY <1>15 DEF Live
  <2>2. IsFiniteSet(I)
    BY <1>5, <2>1, FS_Subset
  <2>3. \A i \in I : m[i] \in DOMAIN charge /\ tok[m[i]] \in Nat /\ h[i] = tok[m[i]]
    BY <1>7, <1>13, <1>16, <1>17, <2>1
  <2>4. \A i, j \in I : m[i] = m[j] => i = j
    BY <1>17, <2>1
  <2>5. PICK F : F = DOMAIN charge
    OBVIOUS
  <2>6. IsFiniteSet(F) /\ \A i \in I : m[i] \in F /\ tok[m[i]] \in Nat /\ h[i] = tok[m[i]]
    BY <1>2, <2>3, <2>5
  <2> QED BY <2>2, <2>4, <2>6, SumImage
<1>20. SettledUsage(q, clock, w) = SumFunctionOnSet(tok, R)
  BY <1>15, <1>16, <1>18, <1>19 DEF SettledUsage, Live
<1>21. CASE keys[k] = None
  <2>1. P = {}
    BY <1>1, <1>10, <1>21 DEF ChargedActive
  <2>2. q = <<>>
    BY <1>3, <1>21 DEF Queue
  <2>3. I = {}
    BY <1>15, <2>2 DEF Live
  <2>4. R = {}
    BY <1>18, <2>3
  <2>5. SumFunctionOnSet(tok, {}) = 0
    <3>1. \A id \in C : tok[id] \in Nat
      BY <1>12, <1>13
    <3> QED BY <1>13, <3>1, SumType
  <2> QED BY <1>9, <1>14, <1>21, <2>1, <2>4, <2>5
<1>22. CASE keys[k] # None
  <2>1. PICK c : c = keys[k]
    OBVIOUS
  <2>2. c \in Cells /\ q = cells[c].settled
    BY <1>1, <1>3, <1>22, <2>1 DEF Types, Queue
  <2>3. PICK a : a = cells[c].active
    OBVIOUS
  <2>4. DOMAIN a = P
    <3>1. ASSUME NEW id \in DOMAIN a PROVE id \in P
      <4>1. id \in DOMAIN charge /\ ~charge[id].settled /\ keys[charge[id].key] = keys[k]
        BY <1>1, <2>1, <2>2, <2>3, <3>1 DEF ActiveCharged
      <4>2. charge[id].key = k
        BY <1>1, <1>2, <1>22, <4>1 DEF KeysApart
      <4> QED BY <1>10, <4>1, <4>2
    <3>2. ASSUME NEW id \in P PROVE id \in DOMAIN a
      BY <1>1, <1>10, <2>1, <2>3, <3>2 DEF ChargedActive
    <3> QED BY <3>1, <3>2
  <2>5. PICK g : g = [id \in DOMAIN a |-> a[id].estimate]
    OBVIOUS
  <2>6. \A id \in P : tok[id] \in Nat /\ g[id] = tok[id]
    <3>1. ASSUME NEW id \in P PROVE g[id] = tok[id]
      <4>1. a[id].estimate = charge[id].estimate
        BY <1>1, <2>2, <2>3, <2>4, <3>1 DEF TermsKept
      <4>2. id \in DOMAIN charge /\ charge[id].tokens = charge[id].estimate
        BY <1>1, <1>10, <3>1 DEF TermsKept
      <4> QED BY <1>7, <2>4, <2>5, <3>1, <4>1, <4>2
    <3> QED BY <1>12, <1>13, <3>1
  <2>7. SumFunctionOnSet(tok, P) = SumFunctionOnSet(g, P)
    BY <1>13, <2>6, SumEqual
  <2>8. ActiveUsage(a) = SumFunctionOnSet(tok, P)
    BY <2>4, <2>5, <2>7 DEF ActiveUsage
  <2>9. UsageInWindow(cells[c], clock, w) = SettledUsage(q, clock, w) + ActiveUsage(a)
    BY <2>2, <2>3 DEF UsageInWindow
  <2> QED BY <1>9, <1>14, <1>20, <1>22, <2>1, <2>8, <2>9
<1> QED BY <1>21, <1>22

-----------------------------------------------------------------------------
(* Usage is kept: the calls                                                *)

\* The thread t moves, on a clock it has read, with the mutex it had, to an
\* admission only when there is room.
Steady(t) ==
  /\ \A u \in Threads : u # t => op'[u] = op[u]
  /\ op'[t].now \in {0, op[t].now, clock}
  /\ op'[t].pc \in MutexHeld => op[t].pc \in MutexHeld /\ op'[t].cell = op[t].cell
  /\ AskedFor(op[t])'
  /\ op'[t].pc = "admit" => ~Exhausted(cells[op'[t].cell], op'[t].tokens, op'[t].now)

\* What the calls rely on stands when one of them moves.
LEMMA SteadyCalls ==
  ASSUME LedgerInv, UsageInv, NEW t \in Threads, Steady(t), clock' = clock,
         \A u \in Threads : op'[u].pc = "admit" => cells'[op'[u].cell] = cells[op'[u].cell]
  PROVE  Asked' /\ MutexApart' /\ RoomKept' /\ \A u \in Threads : op'[u].now <= clock
<1>1. Types /\ ClocksSane /\ Asked /\ MutexApart /\ RoomKept
  BY DEF LedgerInv, UsageInv
<1>2. \A u \in Threads : u # t => op'[u] = op[u]
  BY DEF Steady
<1>3. Asked'
  <2>1. ASSUME NEW u \in Threads PROVE AskedFor(op[u])'
    <3>1. CASE u = t
      BY <3>1 DEF Steady
    <3>2. CASE u # t
      BY <1>1, <1>2, <3>2 DEF Asked, AskedFor, Settling
    <3> QED BY <3>1, <3>2
  <2> QED BY <2>1 DEF Asked
<1>4. MutexApart'
  <2>1. op'[t].pc \in MutexHeld => op[t].pc \in MutexHeld /\ op'[t].cell = op[t].cell
    BY DEF Steady
  <2> QED BY <1>1, <1>2, <2>1 DEF MutexApart
<1>5. RoomKept'
  <2>1. ASSUME NEW u \in Threads, op'[u].pc = "admit"
        PROVE  ~Exhausted(cells'[op'[u].cell], op'[u].tokens, op'[u].now)
    <3>1. cells'[op'[u].cell] = cells[op'[u].cell]
      BY <2>1
    <3>2. ~Exhausted(cells[op'[u].cell], op'[u].tokens, op'[u].now)
      <4>1. CASE u = t
        BY <2>1, <4>1 DEF Steady
      <4>2. CASE u # t
        BY <1>1, <1>2, <2>1, <4>2 DEF RoomKept
      <4> QED BY <4>1, <4>2
    <3> QED BY <3>1, <3>2
  <2> QED BY <2>1 DEF RoomKept
<1>6. clock \in Nat /\ op[t].now <= clock
  BY <1>1, DomainAssumption DEF Types, ClocksSane
<1>7. op'[t].now <= clock
  BY <1>6 DEF Steady
<1>8. \A u \in Threads : op'[u].now <= clock
  BY <1>1, <1>2, <1>7 DEF ClocksSane
<1> QED BY <1>3, <1>4, <1>5, <1>8

\* A step that leaves the KeyStates, the keys and the history alone.
LEMMA SteadyUsage ==
  ASSUME LedgerInv, UsageInv, NEW t \in Threads, Steady(t),
         UNCHANGED <<clock, keys, cells, next_id, charge>>
  PROVE  UsageInv'
<1>1. clock' = clock /\ keys' = keys /\ cells' = cells /\ next_id' = next_id /\ charge' = charge
  OBVIOUS
<1>2. Asked' /\ MutexApart' /\ RoomKept' /\ \A u \in Threads : op'[u].now <= clock
  BY <1>1, SteadyCalls
<1>3. ClocksSane'
  BY <1>1, <1>2 DEF UsageInv, ClocksSane
<1>4. IdsDense' /\ TermsKept'
  BY <1>1 DEF UsageInv, IdsDense, TermsKept
<1>5. Explained'
  <2>1. \A k \in Keys : Queue(k)' = Queue(k)
    BY <1>1 DEF Queue
  <2>2. ASSUME NEW k \in Keys PROVE \E m : Explains(charge', clock', k, Queue(k)', m)
    BY <1>1, <2>1 DEF UsageInv, Explained, Explainable
  <2> QED BY <2>2 DEF Explained, Explainable
<1> QED BY <1>2, <1>3, <1>4, <1>5 DEF UsageInv

\* A call that returns.
LEMMA SteadyReturn ==
  ASSUME LedgerInv, NEW t \in Threads, NEW result, Return(t, result)
  PROVE  Steady(t)
<1>1. Types
  BY DEF LedgerInv
<1>2. op'[t] = [NoCall EXCEPT !.call = op[t].call, !.pc = "done",
                              !.id = op[t].id, !.result = result]
      /\ \A u \in Threads : u # t => op'[u] = op[u]
  BY <1>1 DEF Return, Types
<1>3. op'[t].pc = "done" /\ op'[t].now = 0
  BY <1>2 DEF NoCall
<1> QED BY <1>2, <1>3 DEF Steady, MutexHeld, AskedFor, InReserve, Settling

\* The steps of a reserve before and after its KeyState changes.
LEMMA SteadyReserve ==
  ASSUME LedgerInv, UsageInv, NEW t \in Threads,
         \/ \E k \in Keys, e \in Estimates : ReserveBegin(t, k, e)
         \/ ReserveLookup(t) \/ ReserveUncount(t)
  PROVE  Steady(t)
<1>1. Types /\ AskedFor(op[t]) /\ op[t] \in Calls
  BY DEF LedgerInv, UsageInv, Asked, Types
<1>2. ASSUME NEW k \in Keys, NEW e \in Estimates, ReserveBegin(t, k, e) PROVE Steady(t)
  <2>1. \A u \in Threads : u # t => op'[u] = op[u]
    BY <1>1, <1>2 DEF ReserveBegin, Types
  <2>2. CASE e = 0
    <3>1. op'[t] = [NoCall EXCEPT !.call = "reserve", !.pc = "done", !.result = "InvalidKey"]
      BY <1>1, <1>2, <2>2 DEF ReserveBegin, Types
    <3>2. op'[t].pc = "done" /\ op'[t].now = 0
      BY <3>1 DEF NoCall
    <3> QED BY <2>1, <3>2 DEF Steady, MutexHeld, AskedFor, InReserve, Settling
  <2>3. CASE e # 0
    <3>1. op'[t] = [NoCall EXCEPT !.call = "reserve", !.pc = "lookup", !.key = k,
                                  !.tokens = e, !.now = clock]
      BY <1>1, <1>2, <2>3 DEF ReserveBegin, Types
    <3>2. op'[t].pc = "lookup" /\ op'[t].now = clock /\ op'[t].call = "reserve"
          /\ op'[t].tokens = e
      BY <3>1 DEF NoCall
    <3> QED BY <2>1, <2>3, <3>2 DEF Steady, MutexHeld, AskedFor, InReserve, Settling
  <2> QED BY <2>2, <2>3
<1>3. CASE ReserveLookup(t)
  <2>1. /\ \A u \in Threads : u # t => op'[u] = op[u]
        /\ op'[t] = [op[t] EXCEPT !.pc = "lock", !.cell = keys[op[t].key]]
        /\ op[t].call = "reserve" /\ op[t].pc = "lookup"
    BY <1>1, <1>3 DEF ReserveLookup, Types
  <2>2. /\ op'[t].pc = "lock" /\ op'[t].now = op[t].now /\ op'[t].call = "reserve"
        /\ op'[t].tokens = op[t].tokens
    BY <1>1, <2>1 DEF Calls
  <2> QED BY <1>1, <2>1, <2>2 DEF Steady, MutexHeld, AskedFor, InReserve, Settling
<1>4. CASE ReserveUncount(t)
  <2>1. CASE Exhausted(cells[op[t].cell], op[t].tokens, op[t].now)
    <3>1. Return(t, "WindowCapacity")
      BY <1>4, <2>1 DEF ReserveUncount
    <3> QED BY <3>1, SteadyReturn
  <2>2. CASE ~Exhausted(cells[op[t].cell], op[t].tokens, op[t].now)
    <3>1. /\ op' = [op EXCEPT ![t].pc = "admit", ![t].expired = {}]
          /\ op[t].call = "reserve" /\ op[t].pc = "uncount"
      BY <1>4, <2>2 DEF ReserveUncount
    <3>2. /\ \A u \in Threads : u # t => op'[u] = op[u]
          /\ op'[t] = [op[t] EXCEPT !.pc = "admit", !.expired = {}]
      BY <1>1, <3>1 DEF Types
    <3>7. op[t].call = "reserve"
      BY <3>1
    <3>3. /\ op'[t].pc = "admit" /\ op'[t].now = op[t].now /\ op'[t].call = "reserve"
          /\ op'[t].tokens = op[t].tokens /\ op'[t].cell = op[t].cell
      BY <1>1, <3>2, <3>7 DEF Calls
    <3>4. op'[t].tokens \in Estimates \ {0}
      BY <1>1, <3>1, <3>3 DEF AskedFor, InReserve
    <3>5. AskedFor(op[t])'
      BY <3>3, <3>4 DEF AskedFor, Settling
    <3>6. ~Exhausted(cells[op'[t].cell], op'[t].tokens, op'[t].now)
      BY <2>2, <3>3
    <3> QED BY <3>1, <3>2, <3>3, <3>5, <3>6 DEF Steady, MutexHeld
  <2> QED BY <2>1, <2>2
<1> QED BY <1>2, <1>3, <1>4

\* The steps of a reconcile that leave its KeyState alone, and the forgetting that
\* reserve and cleanup share.
LEMMA SteadyReconcile ==
  ASSUME LedgerInv, UsageInv, NEW t \in Threads,
         \/ \E id \in Issued, a \in Actuals \cup {None} : ReconcileTake(t, id, a)
         \/ ReconcileLookup(t) \/ ReconcileUncount(t) \/ Forget(t)
         \/ \E id \in Ids : ReconcileForget(t, id)
  PROVE  Steady(t)
<1>1. Types /\ AskedFor(op[t]) /\ op[t] \in Calls
  BY DEF LedgerInv, UsageInv, Asked, Types
<1>2. ASSUME NEW id \in Issued, NEW a \in Actuals \cup {None}, ReconcileTake(t, id, a)
      PROVE  Steady(t)
  <2>1. \A u \in Threads : u # t => op'[u] = op[u]
    BY <1>1, <1>2 DEF ReconcileTake, Types
  <2>2. CASE id \notin DOMAIN reservations
    <3>1. op'[t] = [NoCall EXCEPT !.call = "reconcile", !.pc = "done", !.id = id,
                                  !.result = "Noop"]
      BY <1>1, <1>2, <2>2 DEF ReconcileTake, Types
    <3>2. op'[t].pc = "done" /\ op'[t].now = 0
      BY <3>1 DEF NoCall
    <3> QED BY <2>1, <3>2 DEF Steady, MutexHeld, AskedFor, InReserve, Settling
  <2>3. CASE id \in DOMAIN reservations
    <3>1. op'[t] = [NoCall EXCEPT !.call = "reconcile", !.pc = "lookup", !.id = id,
                      !.key = reservations[id], !.tokens = a, !.now = clock]
      BY <1>1, <1>2, <2>3 DEF ReconcileTake, Types
    <3>2. op'[t].pc = "lookup" /\ op'[t].now = clock /\ op'[t].call = "reconcile"
          /\ op'[t].tokens = a
      BY <3>1 DEF NoCall
    <3> QED BY <2>1, <3>2 DEF Steady, MutexHeld, AskedFor, Settling
  <2> QED BY <2>2, <2>3
<1>3. CASE ReconcileLookup(t)
  <2>1. CASE keys[op[t].key] = None
    BY <1>3, <2>1, SteadyReturn DEF ReconcileLookup
  <2>2. CASE keys[op[t].key] # None
    <3>1. /\ \A u \in Threads : u # t => op'[u] = op[u]
          /\ op'[t] = [op[t] EXCEPT !.pc = "lock", !.cell = keys[op[t].key]]
          /\ op[t].call = "reconcile" /\ op[t].pc = "lookup"
      BY <1>1, <1>3, <2>2 DEF ReconcileLookup, Types
    <3>2. /\ op'[t].pc = "lock" /\ op'[t].now = op[t].now /\ op'[t].call = "reconcile"
          /\ op'[t].tokens = op[t].tokens
      BY <1>1, <3>1 DEF Calls
    <3> QED BY <1>1, <3>1, <3>2 DEF Steady, MutexHeld, AskedFor, Settling
  <2> QED BY <2>1, <2>2
<1>4. CASE ReconcileUncount(t)
  <2>1. /\ \A u \in Threads : u # t => op'[u] = op[u]
        /\ op'[t] = [op[t] EXCEPT !.pc = "forget"]
        /\ op[t].call = "reconcile" /\ op[t].pc = "uncount"
    BY <1>1, <1>4 DEF ReconcileUncount, Goto, Types
  <2>2. /\ op'[t].pc = "forget" /\ op'[t].now = op[t].now /\ op'[t].call = "reconcile"
        /\ op'[t].cell = op[t].cell
    BY <1>1, <2>1 DEF Calls
  <2> QED BY <2>1, <2>2 DEF Steady, MutexHeld, AskedFor, Settling
<1>5. CASE Forget(t)
  <2>1. /\ \A u \in Threads : u # t => op'[u] = op[u]
        /\ op'[t] = [op[t] EXCEPT !.pc = "uncount"]
        /\ op[t].pc = "forget"
    BY <1>1, <1>5 DEF Forget, Goto, Types
  <2>2. /\ op'[t].pc = "uncount" /\ op'[t].now = op[t].now /\ op'[t].call = op[t].call
        /\ op'[t].cell = op[t].cell /\ op'[t].tokens = op[t].tokens
    BY <1>1, <2>1 DEF Calls
  <2> QED BY <1>1, <2>1, <2>2 DEF Steady, MutexHeld, AskedFor, InReserve, Settling
<1>6. ASSUME NEW id \in Ids, ReconcileForget(t, id) PROVE Steady(t)
  <2>1. /\ \A u \in Threads : u # t => op'[u] = op[u]
        /\ op'[t] = [op[t] EXCEPT !.pc = "uncount", !.expired = @ \ {id}]
        /\ op[t].call = "reconcile" /\ op[t].pc = "forget"
    BY <1>1, <1>6 DEF ReconcileForget, Types
  <2>2. /\ op'[t].pc = "uncount" /\ op'[t].now = op[t].now /\ op'[t].call = "reconcile"
        /\ op'[t].cell = op[t].cell
    BY <1>1, <2>1 DEF Calls
  <2> QED BY <2>1, <2>2 DEF Steady, MutexHeld, AskedFor, Settling
<1> QED BY <1>2, <1>3, <1>4, <1>5, <1>6

\* cleanup goes on to its next key.
LEMMA SteadyNextKey ==
  ASSUME LedgerInv, NEW t \in Threads, NextKey(t)
  PROVE  Steady(t)
<1>1. Types /\ op[t] \in Calls
  BY DEF LedgerInv, Types
<1>2. /\ \A u \in Threads : u # t => op'[u] = op[u]
      /\ op'[t] = [op[t] EXCEPT !.pc = "next", !.key = None, !.cell = None, !.expired = {}]
  BY <1>1 DEF NextKey, Types
<1>3. op'[t].pc = "next" /\ op'[t].now = op[t].now
  BY <1>1, <1>2 DEF Calls
<1> QED BY <1>2, <1>3 DEF Steady, MutexHeld, AskedFor, InReserve, Settling

\* The steps of a cleanup that leave its KeyState and the keys alone.
LEMMA SteadyCleanup ==
  ASSUME LedgerInv, UsageInv, NEW t \in Threads,
         CleanupBegin(t) \/ CleanupUncount(t) \/ \E k \in Keys : CleanupNext(t, k)
  PROVE  Steady(t)
<1>1. Types /\ op[t] \in Calls
  BY DEF LedgerInv, Types
<1>2. CASE CleanupBegin(t)
  <2>1. PICK scan : op' = [op EXCEPT ![t] = [NoCall EXCEPT
                      !.call = "cleanup", !.pc = "next", !.todo = scan, !.now = clock]]
    BY <1>2 DEF CleanupBegin
  <2>2. /\ \A u \in Threads : u # t => op'[u] = op[u]
        /\ op'[t] = [NoCall EXCEPT !.call = "cleanup", !.pc = "next", !.todo = scan,
                                   !.now = clock]
    BY <1>1, <2>1 DEF Types
  <2>3. op'[t].pc = "next" /\ op'[t].now = clock
    BY <2>2 DEF NoCall
  <2> QED BY <2>2, <2>3 DEF Steady, MutexHeld, AskedFor, InReserve, Settling
<1>3. CASE CleanupUncount(t)
  <2>1. CASE IsEmpty(cells[op[t].cell])
    <3>1. /\ \A u \in Threads : u # t => op'[u] = op[u]
          /\ op'[t] = [op[t] EXCEPT !.pc = "remove", !.expired = {}]
      BY <1>1, <1>3, <2>1 DEF CleanupUncount, Types
    <3>2. op'[t].pc = "remove" /\ op'[t].now = op[t].now
      BY <1>1, <3>1 DEF Calls
    <3> QED BY <3>1, <3>2 DEF Steady, MutexHeld, AskedFor, InReserve, Settling
  <2>2. CASE ~IsEmpty(cells[op[t].cell])
    BY <1>3, <2>2, SteadyNextKey DEF CleanupUncount
  <2> QED BY <2>1, <2>2
<1>4. ASSUME NEW k \in Keys, CleanupNext(t, k) PROVE Steady(t)
  <2>1. \A u \in Threads : u # t => op'[u] = op[u]
    BY <1>1, <1>4 DEF CleanupNext, Types
  <2>2. CASE keys[k] = None
    <3>1. op'[t] = [op[t] EXCEPT !.todo = @ \ {k}] /\ op[t].pc = "next"
      BY <1>1, <1>4, <2>2 DEF CleanupNext, Types
    <3>2. op'[t].pc = "next" /\ op'[t].now = op[t].now
      BY <1>1, <3>1 DEF Calls
    <3> QED BY <2>1, <3>2 DEF Steady, MutexHeld, AskedFor, InReserve, Settling
  <2>3. CASE keys[k] # None
    <3>1. /\ op'[t] = [op[t] EXCEPT !.todo = @ \ {k}, !.pc = "lock", !.key = k,
                                    !.cell = keys[k]]
          /\ op[t].call = "cleanup"
      BY <1>1, <1>4, <2>3 DEF CleanupNext, Types
    <3>2. op'[t].pc = "lock" /\ op'[t].now = op[t].now /\ op'[t].call = "cleanup"
      BY <1>1, <3>1 DEF Calls
    <3> QED BY <2>1, <3>2 DEF Steady, MutexHeld, AskedFor, InReserve, Settling
  <2> QED BY <2>2, <2>3
<1> QED BY <1>2, <1>3, <1>4

\* A caller drops its result.
LEMMA SteadyLeave ==
  ASSUME LedgerInv, NEW t \in Threads, Leave(t)
  PROVE  Steady(t)
<1>1. Types
  BY DEF LedgerInv
<1>2. op'[t] = NoCall /\ \A u \in Threads : u # t => op'[u] = op[u]
  BY <1>1 DEF Leave, Types
<1>3. op'[t].pc = "idle" /\ op'[t].now = 0
  BY <1>2 DEF NoCall
<1> QED BY <1>2, <1>3 DEF Steady, MutexHeld, AskedFor, InReserve, Settling

-----------------------------------------------------------------------------
(* Usage is kept: the keys, the clock and the admissions                   *)

\* A step that leaves the history and the queues that admissions read alone.
LEMMA UsageKept ==
  ASSUME LedgerInv, UsageInv, NEW t \in Threads, Steady(t),
         clock' = clock, next_id' = next_id, charge' = charge,
         \A k \in Keys : Queue(k)' = Queue(k),
         \A c \in Cells : cells'[c] = cells[c] \/ DOMAIN cells'[c].active = {},
         \A u \in Threads : op'[u].pc = "admit" => cells'[op'[u].cell] = cells[op'[u].cell]
  PROVE  UsageInv'
<1>1. ClocksSane /\ IdsDense /\ TermsKept /\ Explained
  BY DEF UsageInv
<1>2. Asked' /\ MutexApart' /\ RoomKept' /\ \A u \in Threads : op'[u].now <= clock
  BY SteadyCalls
<1>3. ClocksSane' /\ IdsDense'
  BY <1>1, <1>2 DEF ClocksSane, IdsDense
<1>4. TermsKept'
  <2>1. ASSUME NEW c \in Cells, NEW id \in DOMAIN cells'[c].active
        PROVE  /\ cells'[c].active[id].created_at_ms = charge[id].at
               /\ cells'[c].active[id].estimate = charge[id].estimate
    <3>1. cells'[c] = cells[c]
      BY <2>1
    <3> QED BY <1>1, <2>1, <3>1 DEF TermsKept
  <2> QED BY <1>1, <2>1 DEF TermsKept
<1>5. Explained'
  <2>1. ASSUME NEW k \in Keys PROVE \E m : Explains(charge', clock', k, Queue(k)', m)
    BY <1>1 DEF Explained, Explainable
  <2> QED BY <2>1 DEF Explained, Explainable
<1> QED BY <1>2, <1>3, <1>4, <1>5 DEF UsageInv

\* Time passes: what has left every window stays out.
LEMMA UsageTick ==
  ASSUME LedgerInv, UsageInv, Tick
  PROVE  UsageInv'
<1>1. Types /\ ClocksSane /\ IdsDense /\ TermsKept /\ Explained /\ Asked /\ MutexApart /\ RoomKept
  BY DEF LedgerInv, UsageInv
<1>2. /\ clock' = clock + 1 /\ keys' = keys /\ cells' = cells /\ next_id' = next_id
      /\ op' = op /\ charge' = charge
  BY DEF Tick
<1>3. clock \in Nat /\ \A id \in DOMAIN charge : charge[id].at \in Nat
  BY <1>1, HistoryTypes
<1>4. \A u \in Threads : op[u].now \in Nat
  BY <1>1 DEF Types, Calls
<1>5. ClocksSane'
  BY <1>1, <1>2, <1>3, <1>4 DEF ClocksSane
<1>6. IdsDense' /\ TermsKept' /\ Asked' /\ MutexApart' /\ RoomKept'
  <2>1. IdsDense' /\ TermsKept'
    BY <1>1, <1>2 DEF IdsDense, TermsKept
  <2>2. Asked' /\ MutexApart'
    BY <1>1, <1>2 DEF Asked, AskedFor, Settling, MutexApart
  <2>3. RoomKept'
    BY <1>1, <1>2 DEF RoomKept
  <2> QED BY <2>1, <2>2, <2>3
<1>7. Explained'
  <2>1. ASSUME NEW k \in Keys PROVE \E m : Explains(charge', clock', k, Queue(k)', m)
    <3>1. PICK q : q = Queue(k)
      OBVIOUS
    <3>2. Queue(k)' = q
      BY <1>2, <3>1 DEF Queue
    <3>3. PICK m : Explains(charge, clock, k, q, m)
      BY <1>1, <3>1 DEF Explained, Explainable
    <3>4. MaxWindow \in Nat
      BY MaxWindowFacts
    <3>7. /\ m \in [1..Len(q) -> DOMAIN charge]
          /\ \A i, j \in 1..Len(q) : m[i] = m[j] => i = j
          /\ \A i \in 1..Len(q) :
               /\ charge[m[i]].key = k /\ charge[m[i]].settled
               /\ charge[m[i]].at = q[i].at_ms /\ charge[m[i]].tokens = q[i].tokens
          /\ \A id \in DOMAIN charge :
               charge[id].key = k /\ charge[id].settled /\ (\A i \in 1..Len(q) : m[i] # id) =>
                 clock - charge[id].at >= MaxWindow
      BY <3>3 DEF Explains
    <3>8. PICK clk : clk = clock + 1
      OBVIOUS
    <3>9. ASSUME NEW id \in DOMAIN charge, charge[id].key = k, charge[id].settled,
                 \A i \in 1..Len(q) : m[i] # id
          PROVE  clk - charge[id].at >= MaxWindow
      <4>1. clock - charge[id].at >= MaxWindow
        BY <3>7, <3>9
      <4>2. charge[id].at \in Nat
        BY <1>3
      <4> QED BY <1>3, <3>4, <3>8, <4>1, <4>2
    <3>10. Explains(charge, clk, k, q, m)
      BY <3>7, <3>9 DEF Explains
    <3>6. Explains(charge, clock + 1, k, q, m)
      BY <3>8, <3>10
    <3> QED BY <1>2, <3>2, <3>6
  <2> QED BY <2>1 DEF Explained, Explainable
<1> QED BY <1>5, <1>6, <1>7 DEF UsageInv

\* A key enters the map with no usage; nobody refers to the Arc it gets.
LEMMA UsageInsert ==
  ASSUME LedgerInv, UsageInv, NEW t \in Threads, ReserveInsert(t)
  PROVE  UsageInv'
<1>1. Types /\ Shape(op[t]) /\ Asked
  BY DEF LedgerInv, UsageInv, Shapes
<1>2. PICK k : k = op[t].key
  OBVIOUS
<1>3. PICK c \in Cells : /\ ~Referenced(c)
                         /\ keys' = [keys EXCEPT ![k] = c]
                         /\ cells' = [cells EXCEPT ![c] = EmptyState]
  BY <1>2 DEF ReserveInsert
<1>4. /\ op[t].call = "reserve" /\ op[t].pc = "lookup" /\ keys[k] = None
      /\ clock' = clock /\ next_id' = next_id /\ op' = op /\ charge' = charge
  BY <1>2 DEF ReserveInsert
<1>5. k \in Keys
  BY <1>1, <1>2, <1>4 DEF Shape
<1>6. /\ keys'[k] = c /\ \A j \in Keys : j # k => keys'[j] = keys[j]
      /\ cells'[c] = EmptyState /\ \A d \in Cells : d # c => cells'[d] = cells[d]
  BY <1>1, <1>3, <1>5 DEF Types
<1>7. (\A j \in Keys : keys[j] # c) /\ (\A u \in Threads : op[u].cell # c)
  BY <1>3 DEF Referenced
<1>8. \A j \in Keys : Queue(j)' = Queue(j)
  <2>1. Queue(k)' = Queue(k)
    BY <1>3, <1>4, <1>6, CellsAreCells DEF Queue, EmptyState
  <2>2. ASSUME NEW j \in Keys, j # k PROVE Queue(j)' = Queue(j)
    <3>1. keys'[j] = keys[j] /\ keys[j] # c /\ keys[j] \in Cells \cup {None}
      BY <1>1, <1>6, <1>7, <2>2 DEF Types
    <3> QED BY <1>6, <3>1 DEF Queue
  <2> QED BY <2>1, <2>2
<1>9. \A d \in Cells : cells'[d] = cells[d] \/ DOMAIN cells'[d].active = {}
  BY <1>6, EmptyStateFacts
<1>10. \A u \in Threads : op'[u].pc = "admit" => cells'[op'[u].cell] = cells[op'[u].cell]
  <2>1. ASSUME NEW u \in Threads, op[u].pc = "admit" PROVE op[u].cell \in Cells
    <3>1. Shape(op[u])
      BY DEF LedgerInv, Shapes
    <3> QED BY <2>1, <3>1 DEF Shape, WithCell
  <2> QED BY <1>4, <1>6, <1>7, <2>1
<1>11. Steady(t)
  <2>1. AskedFor(op[t])
    BY <1>1 DEF Asked
  <2> QED BY <1>4, <2>1 DEF Steady, MutexHeld, AskedFor, Settling
<1> QED BY <1>4, <1>8, <1>9, <1>10, <1>11, UsageKept

\* remove_if takes out a KeyState without usage.
LEMMA UsageRemove ==
  ASSUME LedgerInv, UsageInv, NEW t \in Threads, CleanupRemove(t)
  PROVE  UsageInv'
<1>1. Types /\ Shape(op[t]) /\ op[t] \in Calls
  BY DEF LedgerInv, Shapes, Types
<1>2. PICK k : k = op[t].key
  OBVIOUS
<1>3. PICK c : c = op[t].cell
  OBVIOUS
<1>4. /\ op[t].pc = "remove" /\ clock' = clock /\ next_id' = next_id /\ cells' = cells
      /\ charge' = charge
  BY DEF CleanupRemove
<1>5. k \in Keys /\ c \in Cells
  BY <1>1, <1>2, <1>3, <1>4 DEF Shape, WithCell
<1>6. CASE keys[k] = c /\ IsEmpty(cells[c])
  <2>1. keys' = [keys EXCEPT ![k] = None] /\ Goto(t, "dropkey")
    BY <1>2, <1>3, <1>6 DEF CleanupRemove
  <2>2. /\ \A u \in Threads : u # t => op'[u] = op[u]
        /\ op'[t] = [op[t] EXCEPT !.pc = "dropkey"]
    BY <1>1, <2>1 DEF Goto, Types
  <2>3. op'[t].pc = "dropkey" /\ op'[t].now = op[t].now
    BY <1>1, <2>2 DEF Calls
  <2>4. Steady(t)
    BY <2>2, <2>3 DEF Steady, MutexHeld, AskedFor, InReserve, Settling
  <2>5. keys'[k] = None /\ \A j \in Keys : j # k => keys'[j] = keys[j]
    BY <1>1, <1>5, <2>1 DEF Types
  <2>6. \A j \in Keys : Queue(j)' = Queue(j)
    <3>1. Queue(k)' = Queue(k)
      BY <1>4, <1>5, <1>6, <2>5, CellsAreCells DEF Queue, IsEmpty
    <3>2. \A j \in Keys : j # k => Queue(j)' = Queue(j)
      BY <1>4, <2>5 DEF Queue
    <3> QED BY <3>1, <3>2
  <2> QED BY <1>4, <2>4, <2>6, UsageKept
<1>7. CASE ~(keys[k] = c /\ IsEmpty(cells[c]))
  <2>1. NextKey(t) /\ keys' = keys
    BY <1>2, <1>3, <1>7 DEF CleanupRemove
  <2>2. Steady(t)
    BY <2>1, SteadyNextKey
  <2> QED BY <1>4, <2>1, <2>2, SteadyUsage
<1> QED BY <1>6, <1>7

\* An admission costs its estimate, counts from the reserve's clock reading, and takes
\* the number next_id.
LEMMA UsageAdmit ==
  ASSUME LedgerInv, UsageInv, NEW t \in Threads, ReserveAdmit(t)
  PROVE  UsageInv'
<1>1. /\ Types /\ Shape(op[t]) /\ Carries(op[t]) /\ ActiveCharged /\ IdsFresh
      /\ ClocksSane /\ IdsDense /\ TermsKept /\ Explained /\ Asked /\ MutexApart
  BY DEF LedgerInv, UsageInv, Shapes, Carried
<1>2. PICK c : c = op[t].cell
  OBVIOUS
<1>3. PICK k : k = op[t].key
  OBVIOUS
<1>4. PICK v : v = [estimate |-> op[t].tokens, created_at_ms |-> op[t].now]
  OBVIOUS
<1>5. PICK w : w = [key |-> k, at |-> op[t].now, estimate |-> op[t].tokens,
                    tokens |-> op[t].tokens, settled |-> FALSE]
  OBVIOUS
<1>6. PICK n : n = next_id
  OBVIOUS
<1>7. /\ op[t].call = "reserve" /\ op[t].pc = "admit" /\ next_id' = n + 1
      /\ cells' = [cells EXCEPT ![c].active = Inserted(@, n, v)]
      /\ op' = [op EXCEPT ![t].pc = "publish", ![t].id = n]
      /\ charge' = Inserted(charge, n, w)
      /\ clock' = clock /\ keys' = keys
  BY <1>2, <1>3, <1>4, <1>5, <1>6 DEF ReserveAdmit
<1>8. op[t] \in Calls /\ c \in Cells /\ n \in Nat /\ n >= 1
  BY <1>1, <1>2, <1>6, <1>7, DomainAssumption DEF Types, Shape, WithCell
<1>9. DOMAIN charge = 1..(n - 1) /\ n \notin DOMAIN charge
  BY <1>1, <1>6, <1>8 DEF IdsDense
<1>10. /\ DOMAIN charge' = DOMAIN charge \cup {n} /\ charge'[n] = w
       /\ \A id \in DOMAIN charge : charge'[id] = charge[id]
  BY <1>7, <1>9 DEF Inserted
<1>11. /\ \A d \in Cells : d # c => cells'[d] = cells[d]
       /\ cells'[c].active = Inserted(cells[c].active, n, v)
       /\ cells'[c].settled = cells[c].settled
  <2>1. cells[c] \in KeyStates /\ cells \in [Cells -> KeyStates]
    BY <1>1, <1>8 DEF Types
  <2>2. cells'[c] = [cells[c] EXCEPT !.active = Inserted(@, n, v)]
        /\ \A d \in Cells : d # c => cells'[d] = cells[d]
    BY <1>7, <1>8, <2>1
  <2> QED BY <2>1, <2>2 DEF KeyStates
<1>12. \A j \in Keys : Queue(j)' = Queue(j)
  <2>1. \A d \in Cells : cells'[d].settled = cells[d].settled
    BY <1>11
  <2>2. \A j \in Keys : keys[j] # None => keys[j] \in Cells
    BY <1>1 DEF Types
  <2> QED BY <1>7, <2>1, <2>2 DEF Queue
<1>13. /\ \A u \in Threads : u # t => op'[u] = op[u]
       /\ op'[t] = [op[t] EXCEPT !.pc = "publish", !.id = n]
  BY <1>1, <1>7 DEF Types
<1>14. op[t].call = "reserve" /\ op[t].pc = "admit"
  BY <1>7
<1>15. /\ op'[t].pc = "publish" /\ op'[t].now = op[t].now /\ op'[t].call = "reserve"
       /\ op'[t].tokens = op[t].tokens /\ op'[t].cell = op[t].cell
  BY <1>8, <1>13, <1>14 DEF Calls
<1>16. Steady(t)
  <2>1. op[t].tokens \in Estimates \ {0}
    BY <1>1, <1>14 DEF Asked, AskedFor, InReserve
  <2>2. AskedFor(op[t])'
    BY <1>15, <2>1 DEF AskedFor, Settling
  <2> QED BY <1>13, <1>14, <1>15, <2>2 DEF Steady, MutexHeld
<1>17. ASSUME NEW u \in Threads, op'[u].pc = "admit"
       PROVE  cells'[op'[u].cell] = cells[op'[u].cell]
  <2>1. u # t /\ op'[u] = op[u]
    BY <1>13, <1>15, <1>17
  <2>2. op[u].pc = "admit" /\ Shape(op[u])
    BY <1>17, <2>1 DEF LedgerInv, Shapes
  <2>3. op[u].cell # c
    BY <1>1, <1>2, <1>14, <2>1, <2>2 DEF MutexApart, MutexHeld
  <2>4. op[u].cell \in Cells
    BY <2>2 DEF Shape, WithCell
  <2> QED BY <1>11, <2>1, <2>3, <2>4
<1>18. Asked' /\ MutexApart' /\ RoomKept' /\ \A u \in Threads : op'[u].now <= clock
  BY <1>7, <1>16, <1>17, SteadyCalls
<1>19. w.at = op[t].now /\ w.estimate = op[t].tokens /\ w.tokens = op[t].tokens
       /\ ~w.settled /\ w.key = k
  BY <1>5
<1>20. ClocksSane'
  <2>1. ASSUME NEW id \in DOMAIN charge' PROVE charge'[id].at <= clock
    BY <1>1, <1>10, <1>19, <2>1 DEF ClocksSane
  <2> QED BY <1>7, <1>18, <2>1 DEF ClocksSane
<1>21. IdsDense'
  <2>1. (1..(n - 1)) \cup {n} = 1..n /\ n + 1 - 1 = n
    BY <1>8
  <2> QED BY <1>7, <1>9, <1>10, <2>1 DEF IdsDense
<1>22. TermsKept'
  <2>1. ASSUME NEW d \in Cells, NEW id \in DOMAIN cells[d].active
        PROVE  /\ cells[d].active[id].created_at_ms = charge'[id].at
               /\ cells[d].active[id].estimate = charge'[id].estimate
               /\ id # n
    <3>1. id \in DOMAIN charge
      BY <1>1, <2>1 DEF ActiveCharged
    <3> QED BY <1>1, <1>9, <1>10, <2>1, <3>1 DEF TermsKept
  <2>2. ASSUME NEW d \in Cells, NEW id \in DOMAIN cells'[d].active
        PROVE  /\ cells'[d].active[id].created_at_ms = charge'[id].at
               /\ cells'[d].active[id].estimate = charge'[id].estimate
    <3>1. CASE d # c
      BY <1>11, <2>1, <2>2, <3>1
    <3>2. CASE d = c
      <4>1. PICK g : g = cells[c].active
        OBVIOUS
      <4>2. cells'[c].active = [x \in DOMAIN g \cup {n} |-> IF x = n THEN v ELSE g[x]]
        BY <1>11, <4>1 DEF Inserted
      <4>3. id \in DOMAIN g \cup {n} /\ cells'[c].active[id] = IF id = n THEN v ELSE g[id]
        BY <2>2, <3>2, <4>2
      <4>4. CASE id = n
        <5>1. v.created_at_ms = op[t].now /\ v.estimate = op[t].tokens
          BY <1>4
        <5> QED BY <1>10, <1>19, <3>2, <4>3, <4>4, <5>1
      <4>5. CASE id # n
        <5>1. id \in DOMAIN cells[c].active /\ cells'[c].active[id] = cells[c].active[id]
          BY <4>1, <4>3, <4>5
        <5> QED BY <1>8, <2>1, <3>2, <5>1
      <4> QED BY <4>4, <4>5
    <3> QED BY <3>1, <3>2
  <2>3. ASSUME NEW id \in DOMAIN charge', ~charge'[id].settled
        PROVE  charge'[id].tokens = charge'[id].estimate
    BY <1>1, <1>10, <1>19, <2>3 DEF TermsKept
  <2> QED BY <2>2, <2>3 DEF TermsKept
<1>23. Explained'
  <2>1. ASSUME NEW j \in Keys PROVE \E m : Explains(charge', clock', j, Queue(j)', m)
    <3>1. PICK q : q = Queue(j)
      OBVIOUS
    <3>2. PICK m : Explains(charge, clock, j, q, m)
      BY <1>1, <3>1 DEF Explained, Explainable
    <3>3. PICK l : l = Len(q)
      OBVIOUS
    <3>4. /\ m \in [1..l -> DOMAIN charge]
          /\ \A i, x \in 1..l : m[i] = m[x] => i = x
          /\ \A i \in 1..l : /\ charge[m[i]].key = j /\ charge[m[i]].settled
                             /\ charge[m[i]].at = q[i].at_ms /\ charge[m[i]].tokens = q[i].tokens
          /\ \A id \in DOMAIN charge :
               charge[id].key = j /\ charge[id].settled /\ (\A i \in 1..l : m[i] # id) =>
                 clock - charge[id].at >= MaxWindow
      BY <3>2, <3>3 DEF Explains
    <3>5. m \in [1..l -> DOMAIN charge']
      BY <1>10, <3>4
    <3>6. \A i \in 1..l : charge'[m[i]] = charge[m[i]]
      BY <1>10, <3>4
    <3>7. \A id \in DOMAIN charge' :
            charge'[id].key = j /\ charge'[id].settled /\ (\A i \in 1..l : m[i] # id) =>
              clock - charge'[id].at >= MaxWindow
      BY <1>10, <1>19, <3>4
    <3>8. Explains(charge', clock, j, q, m)
      BY <3>3, <3>4, <3>5, <3>6, <3>7 DEF Explains
    <3> QED BY <1>7, <1>12, <3>1, <3>8
  <2> QED BY <2>1 DEF Explained, Explainable
<1> QED BY <1>18, <1>20, <1>21, <1>22, <1>23 DEF UsageInv

-----------------------------------------------------------------------------
(* Usage is kept: settling and reaping                                     *)

\* The order in which a reap charges the expired reservations names each once.
LEMMA OrderFacts ==
  ASSUME NEW S, IsFiniteSet(S), NEW order \in SetToSeqs(S)
  PROVE  \E n \in Nat : /\ order \in [1..n -> S]
                        /\ \A i, j \in 1..n : i # j => order[i] # order[j]
                        /\ \A x \in S : \E i \in 1..n : order[i] = x
<1>1. PICK n \in Nat : n = Cardinality(S)
  BY FS_CardinalityType
<1>2. order \in [1..n -> S] /\ \A i, j \in 1..n : i # j => order[i] # order[j]
  BY <1>1 DEF SetToSeqs
<1>3. PICK N : N = 1..n
  OBVIOUS
<1>4. IsFiniteSet(N) /\ Cardinality(N) = n
  <2>1. Cardinality(1..n) = IF 1 > n THEN 0 ELSE n - 1 + 1
    BY FS_Interval
  <2>2. IsFiniteSet(1..n)
    BY FS_Interval
  <2> QED BY <1>3, <2>1, <2>2
<1>5. order \in Injection(N, S)
  BY <1>2, <1>3 DEF Injection, IsInjective
<1>6. order \in Surjection(N, S)
  BY <1>1, <1>4, <1>5, FS_Injection
<1>7. \A x \in S : \E i \in 1..n : order[i] = x
  BY <1>3, <1>6 DEF Surjection
<1> QED BY <1>2, <1>7

\* The active reservations a are the unsettled admissions of k that ch tells of.
Known(a, ch, k) ==
  \A id \in DOMAIN a :
    /\ id \in DOMAIN ch /\ ch[id].key = k /\ ~ch[id].settled
    /\ a[id].created_at_ms = ch[id].at /\ a[id].estimate = ch[id].estimate

\* dh charges the admissions in D at their estimates.
AtEstimate(ch, dh, D) == \A id \in D : dh[id].tokens = ch[id].estimate

\* The queue after a reap is explained by the history that notes what the reap
\* settled.
LEMMA ReapExplained ==
  ASSUME NEW s \in KeyStates, NEW now \in Nat, NEW clk \in Nat, now <= clk,
         NEW r \in Reap(s, now), NEW k,
         NEW ch \in Partial(Charges), NEW dh \in Partial(Charges),
         Explainable(ch, clk, k, s.settled),
         Known(s.active, ch, k), NEW E, E = Expired(s, now),
         Settles(ch, dh, k, E), AtEstimate(ch, dh, E)
  PROVE  /\ Explainable(dh, clk, k, r.settled)
         /\ \A id \in DOMAIN r.active : r.active[id] = s.active[id]
<1>1. E = Expired(s, now)
  OBVIOUS
<1>2. E \in SUBSET DOMAIN s.active
  BY <1>1 DEF Expired
<1>3. s.settled \in Seq(Usages) /\ s.active \in Partial(ActiveReservations)
  BY DEF KeyStates
<1>4. /\ DOMAIN s.active \in SUBSET Ids
      /\ \A id \in DOMAIN s.active : s.active[id] \in ActiveReservations
  BY <1>3, PartialFacts
<1>5. PICK order \in SetToSeqs(E) :
        r = [settled |-> PopExpired(
                           s.settled \o
                             [i \in DOMAIN order |->
                                [at_ms  |-> s.active[order[i]].created_at_ms,
                                 tokens |-> s.active[order[i]].estimate]],
                           now),
             active  |-> Restrict(s.active, DOMAIN s.active \ E)]
  BY <1>1 DEF Reap
<1>6. E \subseteq Ids
  BY <1>2, <1>4
<1>7. IsFiniteSet(E)
  BY <1>6, FiniteSets, FS_Subset
<1>8. PICK n \in Nat : /\ order \in [1..n -> E]
                       /\ \A i, j \in 1..n : i # j => order[i] # order[j]
                       /\ \A x \in E : \E i \in 1..n : order[i] = x
  <2>1. order \in SetToSeqs(E)
    BY <1>5
  <2> QED BY <1>7, <2>1, OrderFacts
<1>9. PICK p : p = [i \in 1..n |-> [at_ms  |-> s.active[order[i]].created_at_ms,
                                    tokens |-> s.active[order[i]].estimate]]
  OBVIOUS
<1>10. \A i \in 1..n : [at_ms  |-> s.active[order[i]].created_at_ms,
                        tokens |-> s.active[order[i]].estimate] \in Usages
  BY <1>2, <1>4, <1>8 DEF Usages, ActiveReservations
<1>11. p \in [1..n -> Usages]
  BY <1>9, <1>10
<1>12. p \in Seq(Usages) /\ Len(p) = n
  BY <1>11
<1>13. DOMAIN order = 1..n
  BY <1>8
<1>14. PICK q : q = s.settled
  OBVIOUS
<1>15. r = [settled |-> PopExpired(q \o p, now),
            active |-> Restrict(s.active, DOMAIN s.active \ E)]
  BY <1>5, <1>9, <1>13, <1>14
<1>16. PICK m : Explains(ch, clk, k, q, m)
  BY <1>14 DEF Explainable
<1>17. /\ DOMAIN dh = DOMAIN ch
       /\ \A id \in DOMAIN ch : dh[id].at = ch[id].at
  BY DEF Settles
<1>18. \A i \in 1..n : p[i].at_ms = dh[order[i]].at /\ p[i].tokens = dh[order[i]].tokens
  <2>1. ASSUME NEW i \in 1..n
        PROVE  p[i].at_ms = dh[order[i]].at /\ p[i].tokens = dh[order[i]].tokens
    <3>1. order[i] \in E /\ order[i] \in DOMAIN s.active
      BY <1>2, <1>8
    <3>2. /\ p[i].at_ms = s.active[order[i]].created_at_ms
          /\ p[i].tokens = s.active[order[i]].estimate
      BY <1>9
    <3>3. /\ order[i] \in DOMAIN ch /\ s.active[order[i]].created_at_ms = ch[order[i]].at
          /\ s.active[order[i]].estimate = ch[order[i]].estimate
      BY <3>1 DEF Known
    <3>4. dh[order[i]].at = ch[order[i]].at /\ dh[order[i]].tokens = ch[order[i]].estimate
      BY <1>17, <3>1, <3>3 DEF AtEstimate
    <3> QED BY <3>2, <3>3, <3>4
  <2> QED BY <2>1
<1>20. q \in Seq(Usages)
  BY <1>3, <1>14
<1>21. \E e : Explains(dh, clk, k, q \o p, e)
  <2>1. Lists(p, n, order, E, dh)
    BY <1>8, <1>12, <1>18 DEF Lists
  <2> QED BY <1>12, <1>16, <1>20, <2>1, ExplainMore
<1>22. PICK w : w = q \o p
  OBVIOUS
<1>23. w \in Seq(Usages)
  BY <1>12, <1>20, <1>22, ConcatUsages
<1>24. PICK e : Explains(dh, clk, k, w, e)
  BY <1>21, <1>22
<1>25. \E x : Explains(dh, clk, k, PopExpired(w, now), x)
  BY <1>23, <1>24, ExplainPop
<1>26. r.settled = PopExpired(w, now)
  BY <1>15, <1>22
<1>27. \A id \in DOMAIN r.active : r.active[id] = s.active[id]
  <2>1. PICK S : S = DOMAIN s.active \ E
    OBVIOUS
  <2>2. S \in SUBSET DOMAIN s.active /\ r.active = Restrict(s.active, S)
    BY <1>15, <2>1
  <2>3. /\ DOMAIN Restrict(s.active, S) = S
        /\ \A x \in S : Restrict(s.active, S)[x] = s.active[x]
    BY <1>3, <2>2, RestrictFacts
  <2> QED BY <2>2, <2>3
<1> QED BY <1>25, <1>26, <1>27 DEF Explainable

\* What the history keeps of a settled admission, and what it notes.
LEMMA RecordTerms ==
  ASSUME Types, NEW D, NEW f, Record(D, f)
  PROVE  \A id \in DOMAIN charge :
           /\ charge'[id].at = charge[id].at /\ charge'[id].estimate = charge[id].estimate
           /\ id \in D => charge'[id].tokens = f[id]
<1>1. PICK S : S = DOMAIN charge
  OBVIOUS
<1>2. \A id \in S : charge[id] \in Charges
  BY <1>1, ChargeFacts
<1>3. charge' = [id \in S |->
                   IF id \in D
                   THEN [charge[id] EXCEPT !.tokens = f[id], !.settled = TRUE]
                   ELSE charge[id]]
  BY <1>1 DEF Record
<1>4. ASSUME NEW id \in S
      PROVE  /\ charge'[id].at = charge[id].at /\ charge'[id].estimate = charge[id].estimate
             /\ id \in D => charge'[id].tokens = f[id]
  <2>1. CASE id \in D
    <3>1. charge'[id] = [charge[id] EXCEPT !.tokens = f[id], !.settled = TRUE]
      BY <1>3, <2>1
    <3>2. charge[id] \in Charges
      BY <1>2
    <3> QED BY <3>1, <3>2 DEF Charges
  <2>2. CASE id \notin D
    BY <1>3, <2>2
  <2> QED BY <2>1, <2>2
<1> QED BY <1>1, <1>4

\* A step that settles the reservations in D, all on the key of c, under c's mutex.
LEMMA UsageReap ==
  ASSUME LedgerInv, UsageInv, NEW t \in Threads, NEW c, NEW r, Reaps(t, c, r),
         NEW k \in Keys, keys[k] = c, NEW D, D \subseteq DOMAIN cells[c].active,
         Settles(charge, charge', k, D),
         NEW s \in KeyStates, cells' = [cells EXCEPT ![c] = s],
         \A id \in DOMAIN s.active : /\ id \in DOMAIN cells[c].active /\ id \notin D
                                     /\ s.active[id] = cells[c].active[id],
         Explainable(charge', clock, k, s.settled),
         UNCHANGED <<clock, keys, next_id>>
  PROVE  UsageInv'
<1>1. /\ Types /\ KeysApart /\ ActiveCharged /\ Shapes /\ ClocksSane /\ IdsDense /\ TermsKept
      /\ Explained /\ Asked /\ MutexApart /\ RoomKept
  BY DEF LedgerInv, UsageInv
<1>2. /\ Moves(t, r) /\ c \in Cells /\ op[t].cell = c /\ op[t].pc = "lock" /\ ~Locked(c)
      /\ r = [op[t] EXCEPT !.pc = "forget", !.cell = c, !.expired = r.expired]
  BY DEF Reaps
<1>3. clock' = clock /\ keys' = keys /\ next_id' = next_id
  OBVIOUS
<1>4. op'[t] = r /\ \A u \in Threads : u # t => op'[u] = op[u]
  BY <1>1, <1>2, MoveFacts
<1>5. op[t] \in Calls
  BY <1>1 DEF Types
<1>6. /\ r.call = op[t].call /\ r.pc = "forget" /\ r.tokens = op[t].tokens /\ r.cell = c
      /\ r.now = op[t].now
  BY <1>2, <1>5 DEF Calls
<1>7. cells'[c] = s /\ \A d \in Cells : d # c => cells'[d] = cells[d]
  BY <1>1, <1>2 DEF Types
<1>8. /\ DOMAIN charge' = DOMAIN charge /\ D \in SUBSET DOMAIN charge
      /\ \A id \in D : charge[id].key = k /\ ~charge[id].settled
      /\ \A id \in DOMAIN charge : /\ charge'[id].key = charge[id].key
                                   /\ charge'[id].at = charge[id].at
                                   /\ id \in D => charge'[id].settled
                                   /\ id \notin D => charge'[id] = charge[id]
  BY DEF Settles
<1>9. ASSUME NEW u \in Threads, u # t, op[u].pc \in MutexHeld PROVE op[u].cell # c
  BY <1>2, <1>9 DEF Locked
<1>10. ClocksSane'
  <2>1. \A u \in Threads : op'[u].now <= clock
    BY <1>1, <1>4, <1>6 DEF ClocksSane
  <2>2. \A id \in DOMAIN charge' : charge'[id].at <= clock
    BY <1>1, <1>8 DEF ClocksSane
  <2> QED BY <1>3, <2>1, <2>2 DEF ClocksSane
<1>11. IdsDense'
  BY <1>1, <1>3, <1>8 DEF IdsDense
<1>12. TermsKept'
  <2>1. ASSUME NEW d \in Cells, NEW id \in DOMAIN cells'[d].active
        PROVE  /\ cells'[d].active[id].created_at_ms = charge'[id].at
               /\ cells'[d].active[id].estimate = charge'[id].estimate
    <3>1. /\ id \in DOMAIN cells[d].active /\ cells'[d].active[id] = cells[d].active[id]
          /\ id \notin D
      <4>1. CASE d = c
        BY <1>7, <2>1, <4>1
      <4>2. CASE d # c
        <5>1. cells'[d] = cells[d] /\ id \in DOMAIN cells[d].active
          BY <1>7, <2>1, <4>2
        <5>2. keys[charge[id].key] = d
          BY <1>1, <5>1 DEF ActiveCharged
        <5> QED BY <1>8, <4>2, <5>1, <5>2
      <4> QED BY <4>1, <4>2
    <3>2. id \in DOMAIN charge
      BY <1>1, <3>1 DEF ActiveCharged
    <3>3. charge'[id] = charge[id]
      BY <1>8, <3>1, <3>2
    <3> QED BY <1>1, <3>1, <3>3 DEF TermsKept
  <2>2. ASSUME NEW id \in DOMAIN charge', ~charge'[id].settled
        PROVE  charge'[id].tokens = charge'[id].estimate
    <3>1. id \in DOMAIN charge /\ charge'[id] = charge[id]
      BY <1>8, <2>2
    <3> QED BY <1>1, <2>2, <3>1 DEF TermsKept
  <2> QED BY <2>1, <2>2 DEF TermsKept
<1>13. Explained'
  <2>1. ASSUME NEW j \in Keys PROVE \E m : Explains(charge', clock', j, Queue(j)', m)
    <3>1. CASE j = k
      <4>1. Queue(k)' = s.settled
        BY <1>2, <1>3, <1>7, CellsAreCells DEF Queue
      <4> QED BY <1>3, <3>1, <4>1 DEF Explainable
    <3>2. CASE j # k
      <4>1. PICK q : q = Queue(j)
        OBVIOUS
      <4>2. keys[j] # c /\ keys[j] \in Cells \cup {None}
        BY <1>1, <1>2, <3>2, CellsAreCells DEF KeysApart, Types
      <4>3. Queue(j)' = q
        BY <1>3, <1>7, <4>1, <4>2 DEF Queue
      <4>4. PICK m : Explains(charge, clock, j, q, m)
        BY <1>1, <4>1 DEF Explained, Explainable
      <4>5. PICK l : l = Len(q)
        OBVIOUS
      <4>6. /\ m \in [1..l -> DOMAIN charge]
            /\ \A i, x \in 1..l : m[i] = m[x] => i = x
            /\ \A i \in 1..l : /\ charge[m[i]].key = j /\ charge[m[i]].settled
                               /\ charge[m[i]].at = q[i].at_ms
                               /\ charge[m[i]].tokens = q[i].tokens
            /\ \A id \in DOMAIN charge :
                 charge[id].key = j /\ charge[id].settled /\ (\A i \in 1..l : m[i] # id) =>
                   clock - charge[id].at >= MaxWindow
        BY <4>4, <4>5 DEF Explains
      <4>7. \A id \in DOMAIN charge : charge[id].key = j => charge'[id] = charge[id]
        BY <1>8, <3>2
      <4>8. \A i \in 1..l : charge'[m[i]] = charge[m[i]]
        BY <4>6, <4>7
      <4>9. \A id \in DOMAIN charge' : charge'[id].key = j => charge'[id] = charge[id]
        BY <1>8, <4>7
      <4>10. \A id \in DOMAIN charge' :
               charge'[id].key = j /\ charge'[id].settled /\ (\A i \in 1..l : m[i] # id) =>
                 clock - charge'[id].at >= MaxWindow
        BY <1>8, <4>6, <4>9
      <4>11. m \in [1..l -> DOMAIN charge']
        BY <1>8, <4>6
      <4>12. Explains(charge', clock, j, q, m)
        BY <4>5, <4>6, <4>8, <4>10, <4>11 DEF Explains
      <4> QED BY <1>3, <4>3, <4>12
    <3> QED BY <3>1, <3>2
  <2> QED BY <2>1 DEF Explained, Explainable
<1>14. Asked'
  <2>1. ASSUME NEW u \in Threads PROVE AskedFor(op[u])'
    <3>1. AskedFor(op[u])
      BY <1>1 DEF Asked
    <3>2. CASE u = t
      <4>1. /\ op'[t].call = op[t].call /\ op'[t].pc = "forget" /\ op'[t].tokens = op[t].tokens
            /\ op[t].pc = "lock"
        BY <1>2, <1>4, <1>6
      <4> QED BY <3>1, <3>2, <4>1 DEF AskedFor, InReserve, Settling
    <3>3. CASE u # t
      BY <1>4, <3>1, <3>3 DEF AskedFor, Settling
    <3> QED BY <3>2, <3>3
  <2> QED BY <2>1 DEF Asked
<1>15. MutexApart'
  <2>1. op'[t].cell = c
    BY <1>4, <1>6
  <2>2. \A u \in Threads : u # t /\ op'[u].pc \in MutexHeld => op'[u].cell # c
    BY <1>4, <1>9
  <2>3. ASSUME NEW x \in Threads, NEW u \in Threads, op'[x].pc \in MutexHeld,
               op'[u].pc \in MutexHeld, op'[x].cell = op'[u].cell
        PROVE  x = u
    <3>1. CASE x = t \/ u = t
      BY <2>1, <2>2, <2>3, <3>1
    <3>2. CASE x # t /\ u # t
      <4>1. op'[x] = op[x] /\ op'[u] = op[u]
        BY <1>4, <3>2
      <4> QED BY <1>1, <2>3, <4>1 DEF MutexApart
    <3> QED BY <3>1, <3>2
  <2> QED BY <2>3 DEF MutexApart
<1>16. RoomKept'
  <2>1. ASSUME NEW u \in Threads, op'[u].pc = "admit"
        PROVE  ~Exhausted(cells'[op'[u].cell], op'[u].tokens, op'[u].now)
    <3>1. u # t /\ op'[u] = op[u]
      BY <1>4, <1>6, <2>1
    <3>2. op[u].pc = "admit" /\ Shape(op[u])
      BY <1>1, <2>1, <3>1 DEF Shapes
    <3>3. op[u].cell \in Cells /\ op[u].cell # c
      BY <1>9, <3>1, <3>2 DEF Shape, WithCell, MutexHeld
    <3>4. cells'[op[u].cell] = cells[op[u].cell]
      BY <1>7, <3>3
    <3>5. ~Exhausted(cells[op[u].cell], op[u].tokens, op[u].now)
      BY <1>1, <3>2 DEF RoomKept
    <3> QED BY <3>1, <3>4, <3>5
  <2> QED BY <2>1 DEF RoomKept
<1> QED BY <1>10, <1>11, <1>12, <1>13, <1>14, <1>15, <1>16 DEF UsageInv

\* The reservations of a KeyState, and what the history says of them.
LEMMA ActiveTerms ==
  ASSUME LedgerInv, UsageInv, NEW k \in Keys, NEW c \in Cells, keys[k] = c
  PROVE  Known(cells[c].active, charge, k)
<1>1. Types /\ KeysApart /\ ActiveCharged /\ TermsKept
  BY DEF LedgerInv, UsageInv
<1>2. ASSUME NEW id \in DOMAIN cells[c].active
      PROVE  /\ id \in DOMAIN charge /\ charge[id].key = k /\ ~charge[id].settled
             /\ cells[c].active[id].created_at_ms = charge[id].at
             /\ cells[c].active[id].estimate = charge[id].estimate
  <2>1. id \in DOMAIN charge /\ ~charge[id].settled /\ keys[charge[id].key] = c
    BY <1>1, <1>2 DEF ActiveCharged
  <2>2. charge[id].key \in Keys
    BY <1>1, <2>1, ChargeFacts
  <2>3. charge[id].key = k
    BY <1>1, <2>1, <2>2, CellsAreCells DEF KeysApart
  <2> QED BY <1>1, <1>2, <2>1, <2>3 DEF TermsKept
<1> QED BY <1>2 DEF Known

\* reserve and cleanup settle what has timed out, at its estimate.
LEMMA UsageGuardedReap ==
  ASSUME LedgerInv, UsageInv, NEW t \in Threads, NEW c, c = op[t].cell,
         op[t].call \in {"reserve", "cleanup"}, op[t].pc = "lock", ~Locked(c),
         ReapCell(t, c, cells[c]),
         Record(Expired(cells[c], op[t].now), [id \in DOMAIN charge |-> charge[id].estimate]),
         UNCHANGED <<clock, keys, next_id>>
  PROVE  UsageInv'
<1>1. Types /\ Shape(op[t]) /\ Carries(op[t]) /\ ClocksSane /\ Explained
  BY DEF LedgerInv, UsageInv, Shapes, Carried
<1>2. PICK k : k = op[t].key
  OBVIOUS
<1>3. PICK now : now = op[t].now
  OBVIOUS
<1>4. /\ op[t] \in Calls /\ c \in Cells /\ k \in Keys /\ now \in Nat /\ now <= clock
      /\ clock \in Nat /\ keys[k] = c
  BY <1>1, <1>2, <1>3, HistoryTypes
     DEF Types, Shape, WithCell, Calls, Carries, ReserveGuard, CleanupGuard, ClocksSane
<1>5. PICK z : z = cells[c]
  OBVIOUS
<1>6. PICK D : D = Expired(z, now)
  OBVIOUS
<1>7. PICK s \in Reap(z, now) :
        /\ cells' = [cells EXCEPT ![c] = s]
        /\ op' = [op EXCEPT ![t].pc = "forget", ![t].cell = c, ![t].expired = D]
  BY <1>3, <1>5, <1>6 DEF ReapCell
<1>8. z \in KeyStates
  BY <1>1, <1>4, <1>5 DEF Types
<1>9. /\ s \in KeyStates /\ D \in SUBSET DOMAIN z.active
      /\ DOMAIN s.active = DOMAIN z.active \ D
  BY <1>4, <1>6, <1>7, <1>8, ReapFacts
<1>10. PICK r : r = [op[t] EXCEPT !.pc = "forget", !.cell = c, !.expired = D]
  OBVIOUS
<1>11. op' = [op EXCEPT ![t] = r]
  BY <1>7, <1>10
<1>12. D \subseteq Ids
  BY <1>8, <1>9, PartialFacts DEF KeyStates
<1>13. r \in Calls /\ r.expired = D
  BY <1>4, <1>10, <1>12 DEF Calls
<1>14. Reaps(t, c, r)
  BY <1>4, <1>10, <1>11, <1>13 DEF Reaps, Moves
<1>15. PICK f : f = [id \in DOMAIN charge |-> charge[id].estimate]
  OBVIOUS
<1>16. \A id \in DOMAIN charge : f[id] = charge[id].estimate /\ f[id] \in Nat
  BY <1>1, <1>15, HistoryTypes
<1>17. Record(D, f)
  BY <1>3, <1>5, <1>6, <1>15
<1>18. /\ charge' \in Partial(Charges) /\ DOMAIN charge' = DOMAIN charge
       /\ \A id \in DOMAIN charge : /\ charge'[id].key = charge[id].key
                                    /\ id \in D => charge'[id].settled
                                    /\ id \notin D => charge'[id] = charge[id]
  BY <1>1, <1>16, <1>17, RecordFacts
<1>19. \A id \in DOMAIN charge :
         /\ charge'[id].at = charge[id].at /\ charge'[id].estimate = charge[id].estimate
         /\ id \in D => charge'[id].tokens = f[id]
  BY <1>1, <1>17, RecordTerms
<1>20. Known(z.active, charge, k)
  BY <1>4, <1>5, ActiveTerms
<1>21. Settles(charge, charge', k, D) /\ AtEstimate(charge, charge', D)
  BY <1>9, <1>16, <1>18, <1>19, <1>20 DEF Settles, Known, AtEstimate
<1>22. /\ Explainable(charge', clock, k, s.settled)
       /\ \A id \in DOMAIN s.active : s.active[id] = z.active[id]
  <2>1. Explainable(charge, clock, k, z.settled)
    <3>1. Queue(k) = z.settled
      BY <1>4, <1>5, CellsAreCells DEF Queue
    <3> QED BY <1>1, <1>4, <3>1 DEF Explained, Explainable
  <2>2. charge \in Partial(Charges) /\ charge' \in Partial(Charges)
    BY <1>1, <1>18 DEF Types
  <2>3. s \in Reap(z, now)
    BY <1>7
  <2> QED BY <1>4, <1>6, <1>8, <1>20, <1>21, <2>1, <2>2, <2>3, ReapExplained
<1>23. /\ cells' = [cells EXCEPT ![c] = s] /\ D \subseteq DOMAIN cells[c].active
       /\ \A id \in DOMAIN s.active : /\ id \in DOMAIN cells[c].active /\ id \notin D
                                      /\ s.active[id] = cells[c].active[id]
  BY <1>5, <1>7, <1>9, <1>22
<1>24. s \in KeyStates /\ k \in Keys /\ keys[k] = c /\ UNCHANGED <<clock, keys, next_id>>
       /\ Explainable(charge', clock, k, s.settled)
  BY <1>4, <1>9, <1>22
<1> QED BY <1>14, <1>21, <1>23, <1>24, UsageReap

\* The history with one admission settled at its cost.
SettledOne(ch, n, a) ==
  [id \in DOMAIN ch |-> IF id = n THEN [ch[n] EXCEPT !.tokens = a, !.settled = TRUE]
                        ELSE ch[id]]

\* The history dh is ch with the admission n settled at a.
OneSettled(ch, dh, n, a) ==
  /\ DOMAIN dh = DOMAIN ch /\ \A id \in DOMAIN ch : id # n => dh[id] = ch[id]
  /\ dh[n].key = ch[n].key /\ dh[n].at = ch[n].at /\ dh[n].tokens = a /\ dh[n].settled

\* The KeyState y is z with the reservation n turned into usage of a.
BecameUsage(z, y, n, a) ==
  /\ DOMAIN y.active = DOMAIN z.active \ {n}
  /\ \A id \in DOMAIN z.active : id # n => y.active[id] = z.active[id]
  /\ \E w \in Usages : /\ w.at_ms = z.active[n].created_at_ms /\ w.tokens = a
                       /\ y.settled = z.settled \o <<w>>

\* Settling a reservation leaves a KeyState.
LEMMA SettleFacts ==
  ASSUME NEW z \in KeyStates, NEW n, n \in DOMAIN z.active, NEW a \in Nat,
         NEW y, y = Settle(z, n, a)
  PROVE  y \in KeyStates /\ BecameUsage(z, y, n, a)
<1>1. z.settled \in Seq(Usages) /\ z.active \in Partial(ActiveReservations)
  BY DEF KeyStates
<1>2. \A id \in DOMAIN z.active : z.active[id] \in ActiveReservations
  BY <1>1, PartialFacts
<1>3. PICK S : S = DOMAIN z.active \ {n}
  OBVIOUS
<1>4. PICK h : h = Restrict(z.active, S)
  OBVIOUS
<1>5. S \in SUBSET DOMAIN z.active
  BY <1>3
<1>6. h \in Partial(ActiveReservations) /\ DOMAIN h = S /\ \A x \in S : h[x] = z.active[x]
  BY <1>1, <1>4, <1>5, RestrictFacts
<1>7. PICK w : w = [at_ms |-> z.active[n].created_at_ms, tokens |-> a]
  OBVIOUS
<1>8. w \in Usages /\ w.at_ms = z.active[n].created_at_ms /\ w.tokens = a
  BY <1>2, <1>7 DEF Usages, ActiveReservations
<1>9. PICK q : q = z.settled
  OBVIOUS
<1>10. q \in Seq(Usages)
  BY <1>1, <1>9
<1>11. Append(q, w) \in Seq(Usages) /\ Append(q, w) = q \o <<w>>
  BY <1>8, <1>10, AppendProperties, AppendIsConcat
<1>12. y = [settled |-> Append(q, w), active |-> h]
  BY <1>3, <1>4, <1>7, <1>9 DEF Settle
<1>13. y \in KeyStates /\ y.settled = q \o <<w>> /\ y.active = h
  BY <1>6, <1>11, <1>12 DEF KeyStates
<1> QED BY <1>3, <1>6, <1>8, <1>9, <1>13 DEF BecameUsage

\* Noting one settled admission leaves a history.
LEMMA SettledOneFacts ==
  ASSUME NEW ch \in Partial(Charges), NEW n, n \in DOMAIN ch, NEW a \in Nat,
         NEW dh, dh = SettledOne(ch, n, a)
  PROVE  dh \in Partial(Charges) /\ OneSettled(ch, dh, n, a)
<1>1. DOMAIN ch \in SUBSET Ids /\ \A id \in DOMAIN ch : ch[id] \in Charges
  BY PartialFacts
<1>2. PICK v : v = [ch[n] EXCEPT !.tokens = a, !.settled = TRUE]
  OBVIOUS
<1>3. v \in Charges /\ v.key = ch[n].key /\ v.at = ch[n].at /\ v.tokens = a /\ v.settled
  <2>1. ch[n] \in Charges
    BY <1>1
  <2> QED BY <1>2, <2>1 DEF Charges
<1>4. PICK S : S = DOMAIN ch
  OBVIOUS
<1>5. dh = [id \in S |-> IF id = n THEN v ELSE ch[id]]
  BY <1>2, <1>4 DEF SettledOne
<1>6. dh \in [S -> Charges] /\ S \in SUBSET Ids
  BY <1>1, <1>3, <1>4, <1>5
<1>7. dh \in Partial(Charges)
  BY <1>6, PartialIntro
<1>8. DOMAIN dh = S /\ dh[n] = v /\ \A id \in S : id # n => dh[id] = ch[id]
  BY <1>4, <1>5
<1> QED BY <1>3, <1>4, <1>7, <1>8 DEF OneSettled

\* The KeyState after a reservation has become usage is explained by the history that
\* notes it.
LEMMA SettleExplained ==
  ASSUME NEW k, NEW clk \in Nat, NEW n, NEW a \in Nat,
         NEW z \in KeyStates, n \in DOMAIN z.active, NEW y, BecameUsage(z, y, n, a),
         NEW ch \in Partial(Charges), NEW dh \in Partial(Charges), OneSettled(ch, dh, n, a),
         Known(z.active, ch, k), Explainable(ch, clk, k, z.settled)
  PROVE  Known(y.active, dh, k) /\ Explainable(dh, clk, k, y.settled)
<1>1. /\ n \in DOMAIN ch /\ ch[n].key = k /\ ~ch[n].settled
      /\ z.active[n].created_at_ms = ch[n].at
  BY DEF Known
<1>2. /\ DOMAIN dh = DOMAIN ch /\ \A id \in DOMAIN ch : id # n => dh[id] = ch[id]
      /\ dh[n].key = ch[n].key /\ dh[n].at = ch[n].at /\ dh[n].tokens = a /\ dh[n].settled
  BY DEF OneSettled
<1>3. /\ DOMAIN y.active = DOMAIN z.active \ {n}
      /\ \A id \in DOMAIN z.active : id # n => y.active[id] = z.active[id]
  BY DEF BecameUsage
<1>4. PICK w \in Usages : /\ w.at_ms = z.active[n].created_at_ms /\ w.tokens = a
                          /\ y.settled = z.settled \o <<w>>
  BY DEF BecameUsage
<1>5. Known(y.active, dh, k)
  <2>1. ASSUME NEW id \in DOMAIN y.active
        PROVE  /\ id \in DOMAIN dh /\ dh[id] = ch[id] /\ y.active[id] = z.active[id]
               /\ id \in DOMAIN z.active
    BY <1>2, <1>3, <2>1 DEF Known
  <2> QED BY <2>1 DEF Known
<1>6. PICK D : D = {n}
  OBVIOUS
<1>7. Settles(ch, dh, k, D)
  BY <1>1, <1>2, <1>6 DEF Settles
<1>8. PICK p : p = <<w>>
  OBVIOUS
<1>9. p \in Seq(Usages) /\ Len(p) = 1 /\ p[1] = w
  BY <1>4, <1>8
<1>10. PICK one : one = 1
  OBVIOUS
<1>11. PICK order : order = [i \in 1..one |-> n]
  OBVIOUS
<1>12. one \in Nat /\ Lists(p, one, order, D, dh)
  <2>1. order \in [1..1 -> D] /\ order[1] = n
    BY <1>6, <1>10, <1>11
  <2>2. \A i, j \in 1..1 : i = j
    OBVIOUS
  <2>3. \A i \in 1..1 : p[i].at_ms = dh[order[i]].at /\ p[i].tokens = dh[order[i]].tokens
    BY <1>1, <1>2, <1>4, <1>9, <2>1
  <2> QED BY <1>6, <1>9, <1>10, <2>1, <2>2, <2>3 DEF Lists
<1>13. PICK q : q = z.settled
  OBVIOUS
<1>14. PICK m : Explains(ch, clk, k, q, m)
  BY <1>13 DEF Explainable
<1>15. q \in Seq(Usages)
  BY <1>13 DEF KeyStates
<1>16. \E e : Explains(dh, clk, k, q \o p, e)
  BY <1>7, <1>9, <1>12, <1>14, <1>15, ExplainMore
<1>17. Explainable(dh, clk, k, y.settled)
  BY <1>4, <1>8, <1>13, <1>16 DEF Explainable
<1> QED BY <1>5, <1>17

\* reconcile settles its id at the actual cost and what has timed out at its estimate.
LEMMA UsageReconcileLock ==
  ASSUME LedgerInv, UsageInv, NEW t \in Threads, ReconcileLock(t)
  PROVE  UsageInv'
<1>1. Types /\ Shape(op[t]) /\ Carries(op[t]) /\ ActiveCharged /\ ClocksSane /\ Explained
  BY DEF LedgerInv, UsageInv, Shapes, Carried
<1>2. PICK c : c = op[t].cell
  OBVIOUS
<1>3. PICK n : n = op[t].id
  OBVIOUS
<1>4. PICK k : k = op[t].key
  OBVIOUS
<1>5. PICK now : now = op[t].now
  OBVIOUS
<1>6. PICK z : z = cells[c]
  OBVIOUS
<1>7. /\ op[t].call = "reconcile" /\ op[t].pc = "lock" /\ ~Locked(c)
      /\ clock' = clock /\ keys' = keys /\ next_id' = next_id
  BY <1>2 DEF ReconcileLock
<1>8. /\ op[t] \in Calls /\ c \in Cells /\ k \in Keys /\ now \in Nat /\ now <= clock
      /\ clock \in Nat /\ op[t].tokens \in Nat \cup {None}
  BY <1>1, <1>2, <1>4, <1>5, <1>7, HistoryTypes
     DEF Types, Shape, WithCell, Calls, ClocksSane
<1>9. CASE n \notin DOMAIN z.active
  <2>1. Return(t, "Noop") /\ UNCHANGED <<cells, charge>>
    BY <1>2, <1>3, <1>6, <1>9 DEF ReconcileLock
  <2>2. Steady(t)
    BY <2>1, SteadyReturn
  <2> QED BY <1>7, <2>1, <2>2, SteadyUsage
<1>10. CASE n \in DOMAIN z.active
  <2>1. PICK a : a = IF op[t].tokens = None THEN z.active[n].estimate ELSE op[t].tokens
    OBVIOUS
  <2>2. PICK y : y = Settle(z, n, a)
    OBVIOUS
  <2>3. PICK X : X = Expired(y, now)
    OBVIOUS
  <2>4. PICK f : f = [i \in DOMAIN charge |-> IF i = n THEN a ELSE charge[i].estimate]
    OBVIOUS
  <2>5. PICK D : D = {n} \cup X
    OBVIOUS
  <2>6. ReapCell(t, c, y) /\ Record(D, f)
    BY <1>2, <1>3, <1>5, <1>6, <1>10, <2>1, <2>2, <2>3, <2>4, <2>5 DEF ReconcileLock
  <2>7. z \in KeyStates
    BY <1>1, <1>6, <1>8 DEF Types
  <2>8. \A i \in DOMAIN z.active : i \in Ids /\ z.active[i] \in ActiveReservations
    BY <2>7, PartialFacts DEF KeyStates
  <2>9. a \in Nat
    BY <1>8, <1>10, <2>1, <2>8 DEF ActiveReservations
  <2>10. /\ n \in DOMAIN charge /\ charge[n].key = k /\ keys[charge[n].key] = c
    BY <1>1, <1>3, <1>4, <1>6, <1>7, <1>8, <1>10 DEF Carries, Holds, Settling, ActiveCharged
  <2>11. keys[k] = c
    BY <2>10
  <2>12. Known(z.active, charge, k)
    BY <1>6, <1>8, <2>11, ActiveTerms
  <2>13. Explainable(charge, clock, k, z.settled)
    <3>1. Queue(k) = z.settled
      BY <1>6, <1>8, <2>11, CellsAreCells DEF Queue
    <3> QED BY <1>1, <1>8, <3>1 DEF Explained, Explainable
  <2>14. PICK dh : dh = SettledOne(charge, n, a)
    OBVIOUS
  <2>15. charge \in Partial(Charges)
    BY <1>1 DEF Types
  <2>16. /\ dh \in Partial(Charges) /\ y \in KeyStates
         /\ DOMAIN y.active = DOMAIN z.active \ {n}
         /\ \A id \in DOMAIN y.active : y.active[id] = z.active[id]
         /\ Known(y.active, dh, k)
         /\ Explainable(dh, clock, k, y.settled)
    <3>1. clock \in Nat /\ n \in DOMAIN z.active
      BY <1>8, <1>10
    <3>2. dh \in Partial(Charges) /\ OneSettled(charge, dh, n, a)
      BY <2>9, <2>10, <2>14, <2>15, SettledOneFacts
    <3>3. y \in KeyStates /\ BecameUsage(z, y, n, a)
      BY <2>2, <2>7, <2>9, <3>1, SettleFacts
    <3>4. Known(y.active, dh, k) /\ Explainable(dh, clock, k, y.settled)
      BY <2>7, <2>9, <2>12, <2>13, <2>15, <3>1, <3>2, <3>3, SettleExplained
    <3> QED BY <3>2, <3>3, <3>4 DEF BecameUsage
  <2>17. PICK s \in Reap(y, now) :
           /\ cells' = [cells EXCEPT ![c] = s]
           /\ op' = [op EXCEPT ![t].pc = "forget", ![t].cell = c, ![t].expired = X]
    BY <1>5, <2>3, <2>6 DEF ReapCell
  <2>18. /\ s \in KeyStates /\ X \in SUBSET DOMAIN y.active
         /\ DOMAIN s.active = DOMAIN y.active \ X
    BY <1>8, <2>3, <2>16, <2>17, ReapFacts
  <2>19. PICK r : r = [op[t] EXCEPT !.pc = "forget", !.cell = c, !.expired = X]
    OBVIOUS
  <2>20. op' = [op EXCEPT ![t] = r]
    BY <2>17, <2>19
  <2>21. X \subseteq Ids /\ n \notin X /\ D \subseteq DOMAIN z.active
    BY <1>10, <2>5, <2>8, <2>16, <2>18
  <2>22. r \in Calls /\ r.expired = X
    BY <1>8, <2>19, <2>21 DEF Calls
  <2>23. Reaps(t, c, r)
    BY <1>2, <1>7, <1>8, <2>11, <2>19, <2>20, <2>22 DEF Reaps, Moves
  <2>24. \A id \in DOMAIN charge : f[id] \in Nat /\ (id # n => f[id] = charge[id].estimate)
    BY <1>1, <2>4, <2>9, HistoryTypes
  <2>25. /\ charge' \in Partial(Charges) /\ DOMAIN charge' = DOMAIN charge
         /\ \A id \in DOMAIN charge : /\ charge'[id].key = charge[id].key
                                      /\ id \in D => charge'[id].settled
                                      /\ id \notin D => charge'[id] = charge[id]
    BY <1>1, <2>6, <2>24, RecordFacts
  <2>26. \A id \in DOMAIN charge :
           /\ charge'[id].at = charge[id].at /\ charge'[id].estimate = charge[id].estimate
           /\ id \in D => charge'[id].tokens = f[id]
    BY <1>1, <2>6, RecordTerms
  <2>27. Settles(charge, charge', k, D)
    <3>1. D \in SUBSET DOMAIN charge /\ \A id \in D : charge[id].key = k /\ ~charge[id].settled
      BY <2>12, <2>21 DEF Known
    <3> QED BY <2>25, <2>26, <3>1 DEF Settles
  <2>28. /\ DOMAIN dh = DOMAIN charge /\ \A id \in DOMAIN charge : id # n => dh[id] = charge[id]
         /\ charge'[n] = dh[n]
    <3>1. DOMAIN dh = DOMAIN charge /\ \A id \in DOMAIN charge : id # n => dh[id] = charge[id]
      BY <2>14 DEF SettledOne
    <3>2. dh[n] = [charge[n] EXCEPT !.tokens = a, !.settled = TRUE]
      BY <2>10, <2>14 DEF SettledOne
    <3>3. n \in D /\ f[n] = a
      BY <2>4, <2>5, <2>10
    <3>4. charge'[n] = [charge[n] EXCEPT !.tokens = f[n], !.settled = TRUE]
      BY <2>6, <2>10, <3>3 DEF Record
    <3> QED BY <3>1, <3>2, <3>3, <3>4
  <2>29. \A id \in X : id \in DOMAIN dh /\ dh[id].key = k /\ ~dh[id].settled
    BY <2>16, <2>18 DEF Known
  <2>30. Settles(dh, charge', k, X)
    <3>1. ASSUME NEW id \in DOMAIN dh
          PROVE  /\ charge'[id].key = dh[id].key /\ charge'[id].at = dh[id].at
                 /\ id \in X => charge'[id].settled
                 /\ id \notin X => charge'[id] = dh[id]
      <4>1. CASE id = n
        BY <2>21, <2>28, <4>1
      <4>2. CASE id # n
        <5>1. id \in DOMAIN charge /\ dh[id] = charge[id] /\ (id \in X <=> id \in D)
          BY <2>5, <2>28, <4>2
        <5> QED BY <2>25, <2>26, <5>1
      <4> QED BY <4>1, <4>2
    <3>2. DOMAIN charge' = DOMAIN dh /\ X \in SUBSET DOMAIN dh
      BY <2>25, <2>28, <2>29
    <3> QED BY <2>29, <3>1, <3>2 DEF Settles
  <2>31. AtEstimate(dh, charge', X)
    <3>1. ASSUME NEW id \in X PROVE charge'[id].tokens = dh[id].estimate
      <4>1. id # n /\ id \in D /\ id \in DOMAIN charge /\ dh[id] = charge[id]
        BY <2>5, <2>21, <2>28, <2>29
      <4> QED BY <2>24, <2>26, <4>1
    <3> QED BY <3>1 DEF AtEstimate
  <2>32. /\ Explainable(charge', clock, k, s.settled)
         /\ \A id \in DOMAIN s.active : s.active[id] = y.active[id]
    <3>1. s \in Reap(y, now) /\ charge' \in Partial(Charges)
      BY <2>17, <2>25
    <3>2. dh \in Partial(Charges) /\ y \in KeyStates /\ Known(y.active, dh, k)
      BY <2>16
    <3>3. Explainable(dh, clock, k, y.settled)
      BY <2>16
    <3> QED BY <1>8, <2>3, <2>30, <2>31, <3>1, <3>2, <3>3, ReapExplained
  <2>33. /\ cells' = [cells EXCEPT ![c] = s] /\ D \subseteq DOMAIN cells[c].active
         /\ \A id \in DOMAIN s.active : /\ id \in DOMAIN cells[c].active /\ id \notin D
                                        /\ s.active[id] = cells[c].active[id]
    BY <1>6, <2>5, <2>16, <2>17, <2>18, <2>21, <2>32
  <2>34. /\ s \in KeyStates /\ k \in Keys /\ keys[k] = c /\ UNCHANGED <<clock, keys, next_id>>
         /\ Explainable(charge', clock, k, s.settled)
    BY <1>7, <1>8, <2>11, <2>18, <2>32
  <2>35. LedgerInv /\ UsageInv
    OBVIOUS
  <2> QED BY <2>23, <2>27, <2>33, <2>34, <2>35, UsageReap, ZenonT(60)
<1> QED BY <1>9, <1>10

-----------------------------------------------------------------------------
(* Usage is kept                                                           *)

\* Nothing has been used at the start.
LEMMA InitUsage ==
  ASSUME Init
  PROVE  UsageInv
<1>1. /\ clock = 0 /\ keys = [k \in Keys |-> None] /\ cells = [c \in Cells |-> EmptyState]
      /\ next_id = 1 /\ op = [t \in Threads |-> NoCall] /\ charge = NoEntries
  BY DEF Init
<1>2. DOMAIN NoEntries = {} /\ DOMAIN EmptyState.active = {}
  BY EmptyStateFacts DEF NoEntries
<1>3. NoCall.pc = "idle" /\ NoCall.now = 0
  BY DEF NoCall
<1>4. ClocksSane /\ IdsDense /\ TermsKept
  <2>1. 1..(1 - 1) = {}
    OBVIOUS
  <2> QED BY <1>1, <1>2, <1>3, <2>1 DEF ClocksSane, IdsDense, TermsKept
<1>5. Asked /\ MutexApart /\ RoomKept
  BY <1>1, <1>3 DEF Asked, AskedFor, InReserve, Settling, MutexApart, MutexHeld, RoomKept
<1>6. Explained
  <2>1. ASSUME NEW k \in Keys PROVE \E m : Explains(charge, clock, k, Queue(k), m)
    <3>1. PICK q : q = Queue(k)
      OBVIOUS
    <3>2. q = <<>>
      BY <1>1, <3>1 DEF Queue
    <3>3. Len(q) = 0 /\ 1..Len(q) = {}
      BY <3>2
    <3>4. PICK m : m = [i \in {} |-> 0]
      OBVIOUS
    <3>5. m \in [1..Len(q) -> DOMAIN charge]
      BY <3>3, <3>4
    <3>6. Explains(charge, clock, k, q, m)
      BY <1>1, <1>2, <3>3, <3>5 DEF Explains
    <3> QED BY <3>1, <3>6
  <2> QED BY <2>1 DEF Explained, Explainable
<1> QED BY <1>4, <1>5, <1>6 DEF UsageInv

\* Every step keeps what the cells, the clocks and the history say of each other.
LEMMA NextUsage ==
  ASSUME LedgerInv, UsageInv, [Next]_vars
  PROVE  UsageInv'
<1>1. CASE Tick
  BY <1>1, UsageTick
<1>2. ASSUME NEW t \in Threads, Begin(t) PROVE UsageInv'
  <2>1. UNCHANGED <<clock, keys, cells, next_id, charge>>
    BY <1>2 DEF Begin, ReserveBegin, ReconcileTake, CleanupBegin
  <2>2. Steady(t)
    BY <1>2, SteadyReserve, SteadyReconcile, SteadyCleanup DEF Begin
  <2> QED BY <2>1, <2>2, SteadyUsage
<1>3. ASSUME NEW t \in Threads, Step(t) PROVE UsageInv'
  <2>1. CASE ReserveLookup(t) \/ ReserveUncount(t)
    <3>1. UNCHANGED <<clock, keys, cells, next_id, charge>>
      BY <2>1 DEF ReserveLookup, ReserveUncount
    <3> QED BY <2>1, <3>1, SteadyReserve, SteadyUsage
  <2>2. CASE ReserveInsert(t)
    BY <2>2, UsageInsert
  <2>3. CASE ReserveLock(t)
    BY <2>3, UsageGuardedReap DEF ReserveLock
  <2>4. CASE ReserveAdmit(t)
    BY <2>4, UsageAdmit
  <2>5. CASE \/ ReserveKeyCapacity(t) \/ ReserveCapacity(t) \/ ReservePublish(t)
             \/ ReconcileUnlock(t) \/ CleanupEnd(t)
    <3>1. UNCHANGED <<clock, keys, cells, next_id, charge>>
      BY <2>5 DEF ReserveKeyCapacity, ReserveCapacity, ReservePublish, ReconcileUnlock,
                  CleanupEnd
    <3>2. \E result : Return(t, result)
      BY <2>5 DEF ReserveKeyCapacity, ReserveCapacity, ReservePublish, ReconcileUnlock,
                  CleanupEnd
    <3>3. Steady(t)
      BY <3>2, SteadyReturn
    <3> QED BY <3>1, <3>3, SteadyUsage
  <2>6. CASE \/ ReconcileLookup(t) \/ ReconcileUncount(t) \/ Forget(t)
             \/ \E id \in Ids : ReconcileForget(t, id)
    <3>1. UNCHANGED <<clock, keys, cells, next_id, charge>>
      BY <2>6 DEF ReconcileLookup, ReconcileUncount, Forget, ReconcileForget
    <3>2. Steady(t)
      BY <2>6, SteadyReconcile
    <3> QED BY <3>1, <3>2, SteadyUsage
  <2>7. CASE ReconcileLock(t)
    BY <2>7, UsageReconcileLock
  <2>8. CASE CleanupUncount(t) \/ \E k \in Keys : CleanupNext(t, k)
    <3>1. UNCHANGED <<clock, keys, cells, next_id, charge>>
      BY <2>8 DEF CleanupUncount, CleanupNext
    <3>2. Steady(t)
      BY <2>8, SteadyCleanup
    <3> QED BY <3>1, <3>2, SteadyUsage
  <2>9. CASE CleanupLock(t)
    BY <2>9, UsageGuardedReap DEF CleanupLock
  <2>10. CASE CleanupRemove(t)
    BY <2>10, UsageRemove
  <2>11. CASE CleanupDropKey(t)
    <3>1. NextKey(t) /\ UNCHANGED <<clock, keys, cells, next_id, charge>>
      BY <2>11 DEF CleanupDropKey
    <3>2. Steady(t)
      BY <3>1, SteadyNextKey
    <3> QED BY <3>1, <3>2, SteadyUsage
  <2>12. CASE Leave(t)
    <3>1. UNCHANGED <<clock, keys, cells, next_id, charge>>
      BY <2>12 DEF Leave
    <3> QED BY <2>12, <3>1, SteadyLeave, SteadyUsage
  <2> QED BY <1>3, <2>1, <2>2, <2>3, <2>4, <2>5, <2>6, <2>7, <2>8, <2>9, <2>10, <2>11, <2>12
          DEF Step
<1>4. CASE UNCHANGED vars
  <2>1. /\ clock' = clock /\ keys' = keys /\ cells' = cells /\ next_id' = next_id
        /\ op' = op /\ charge' = charge
    BY <1>4 DEF vars
  <2>2. ClocksSane' /\ IdsDense' /\ TermsKept' /\ MutexApart' /\ RoomKept'
    BY <2>1 DEF UsageInv, ClocksSane, IdsDense, TermsKept, MutexApart, RoomKept
  <2>3. Asked'
    BY <2>1 DEF UsageInv, Asked, AskedFor, Settling
  <2>4. Explained'
    <3>1. \A k \in Keys : Queue(k)' = Queue(k)
      BY <2>1 DEF Queue
    <3>2. ASSUME NEW k \in Keys PROVE \E m : Explains(charge', clock', k, Queue(k)', m)
      BY <2>1, <3>1 DEF UsageInv, Explained, Explainable
    <3> QED BY <3>2 DEF Explained, Explainable
  <2> QED BY <2>2, <2>3, <2>4 DEF UsageInv
<1> QED BY <1>1, <1>2, <1>3, <1>4 DEF Next

-----------------------------------------------------------------------------
(* The promise                                                             *)

\* The promise counts and compares as the ledger does.
LEMMA PromiseCounts ==
  ASSUME NEW S
  PROVE  Promise!Cardinality(S) = Cardinality(S) /\ Promise!Min(S) = Min(S)
  BY DEF Promise!Cardinality, Cardinality, Promise!Min, Min

\* An admission that is unsettled is a reservation in one KeyState.
LEMMA ActiveBound ==
  ASSUME LedgerInv
  PROVE  /\ Cardinality(Promise!Active) \in Nat
         /\ Cardinality(Promise!Active) <= active_reservations
<1>1. Types /\ ChargedActive /\ ActiveExact
  BY DEF LedgerInv
<1>2. PICK P : P = {id \in DOMAIN charge : ~charge[id].settled}
  OBVIOUS
<1>3. Promise!Active = P
  BY <1>2 DEF Promise!Active
<1>4. PICK A : A = Active
  OBVIOUS
<1>5. IsFiniteSet(A)
  <2>1. A \subseteq Cells \X Ids
    BY <1>4 DEF Active
  <2>2. IsFiniteSet(Cells \X Ids)
    BY FiniteSets, FS_Product
  <2> QED BY <2>1, <2>2, FS_Subset
<1>6. PICK g : g = [id \in P |-> <<keys[charge[id].key], id>>]
  OBVIOUS
<1>7. ASSUME NEW id \in P PROVE g[id] \in A
  <2>1. id \in DOMAIN charge /\ ~charge[id].settled
    BY <1>2, <1>7
  <2>2. charge[id].key \in Keys /\ id \in Ids
    BY <1>1, <2>1, ChargeFacts
  <2>3. PICK c : c = keys[charge[id].key]
    OBVIOUS
  <2>4. c \in Cells /\ id \in DOMAIN cells[c].active
    BY <1>1, <2>1, <2>2, <2>3 DEF ChargedActive, Types
  <2>5. g[id] = <<c, id>>
    BY <1>6, <1>7, <2>3
  <2>6. <<c, id>> \in A
    BY <1>4, <2>2, <2>4 DEF Active
  <2> QED BY <2>5, <2>6
<1>8. g \in Injection(P, A)
  <2>1. g \in [P -> A]
    BY <1>6, <1>7
  <2>2. \A x, y \in P : g[x] = g[y] => x = y
    BY <1>6
  <2> QED BY <2>1, <2>2 DEF Injection, IsInjective
<1>9. IsFiniteSet(P) /\ Cardinality(P) <= Cardinality(A)
  BY <1>5, <1>8, FS_Injection
<1>10. Cardinality(P) \in Nat /\ Cardinality(A) \in Nat
  BY <1>5, <1>9, FS_CardinalityType
<1>11. Cardinality(Reaped) \in Nat /\ Cardinality(Forgotten) \in Nat
  <2>1. Reaped \subseteq Threads \X Ids /\ Forgotten \subseteq Threads
    BY DEF Reaped, Forgotten
  <2>2. IsFiniteSet(Threads \X Ids) /\ IsFiniteSet(Threads)
    BY FiniteSets, FS_Product
  <2>3. IsFiniteSet(Reaped) /\ IsFiniteSet(Forgotten)
    BY <2>1, <2>2, FS_Subset
  <2> QED BY <2>3, FS_CardinalityType
<1>12. active_reservations = Cardinality(A) + Cardinality(Reaped) + Cardinality(Forgotten)
  BY <1>1, <1>4 DEF ActiveExact
<1> QED BY <1>3, <1>9, <1>10, <1>11, <1>12

\* What a KeyState's reservations sum to is a number.
LEMMA ActiveUsageType ==
  ASSUME NEW g \in Partial(ActiveReservations)
  PROVE  ActiveUsage(g) \in Nat
<1>1. DOMAIN g \subseteq Ids /\ \A id \in DOMAIN g : g[id].estimate \in Nat
  <2>1. DOMAIN g \subseteq Ids /\ \A id \in DOMAIN g : g[id] \in ActiveReservations
    BY PartialFacts
  <2>2. \A v \in ActiveReservations : v.estimate \in Nat
    BY DEF ActiveReservations
  <2> QED BY <2>1, <2>2
<1>2. PICK S : S = DOMAIN g
  OBVIOUS
<1>3. IsFiniteSet(S)
  BY <1>1, <1>2, FiniteSets, FS_Subset
<1>4. PICK h : h = [id \in S |-> g[id].estimate]
  OBVIOUS
<1>5. \A id \in S : h[id] \in Nat
  BY <1>1, <1>2, <1>4
<1>6. SumFunctionOnSet(h, S) \in Nat
  BY <1>3, <1>5, SumType
<1> QED BY <1>2, <1>4, <1>6 DEF ActiveUsage

\* The room a reserve saw on its own clock is room by the promise's clock: an older
\* clock counts more.
LEMMA RoomPromised ==
  ASSUME LedgerInv, UsageInv, NEW t \in Threads, op[t].pc = "admit", NEW b \in Budgets
  PROVE  Promise!Charged(op[t].key, b.window_ms) + op[t].tokens <= b.capacity
<1>1. Types /\ Shape(op[t]) /\ Carries(op[t]) /\ ClocksSane /\ RoomKept
  BY DEF LedgerInv, UsageInv, Shapes, Carried
<1>2. PICK k : k = op[t].key
  OBVIOUS
<1>3. PICK c : c = op[t].cell
  OBVIOUS
<1>4. PICK w : w = b.window_ms
  OBVIOUS
<1>5. /\ op[t] \in Calls /\ c \in Cells /\ k \in Keys /\ op[t].tokens \in Nat
      /\ op[t].now \in Nat /\ op[t].now <= clock /\ clock \in Nat /\ keys[k] = c
  BY <1>1, <1>2, <1>3, HistoryTypes
     DEF Types, Shape, WithCell, InReserve, Calls, Carries, ReserveGuard, ClocksSane
<1>6. w \in Nat /\ w <= MaxWindow /\ b.capacity \in Nat
  BY <1>4, MaxWindowFacts, ConfigAssumption DEF ValidConfig
<1>7. c # None
  BY <1>5, CellsAreCells
<1>8. Promise!Charged(k, w) = UsageInWindow(cells[c], clock, w)
  <2>1. Promise!Charged(k, w) = IF keys[k] = None THEN 0
                                ELSE UsageInWindow(cells[keys[k]], clock, w)
    BY <1>5, <1>6, ChargedIsUsage
  <2> QED BY <1>5, <1>7, <2>1
<1>9. PICK q : q = cells[c].settled
  OBVIOUS
<1>10. PICK g : g = cells[c].active
  OBVIOUS
<1>11. q \in Seq(Usages) /\ g \in Partial(ActiveReservations)
  BY <1>1, <1>5, <1>9, <1>10 DEF Types, KeyStates
<1>12. ActiveUsage(g) \in Nat
  BY <1>11, ActiveUsageType
<1>13. PICK now : now = op[t].now
  OBVIOUS
<1>14. now \in Nat /\ now <= clock
  BY <1>5, <1>13
<1>15. /\ SettledUsage(q, clock, w) \in Nat /\ SettledUsage(q, now, w) \in Nat
       /\ SettledUsage(q, clock, w) <= SettledUsage(q, now, w)
  BY <1>5, <1>6, <1>11, <1>14, OlderCountsMore
<1>16. /\ UsageInWindow(cells[c], clock, w) = SettledUsage(q, clock, w) + ActiveUsage(g)
       /\ UsageInWindow(cells[c], now, w) = SettledUsage(q, now, w) + ActiveUsage(g)
  BY <1>9, <1>10 DEF UsageInWindow
<1>17. ~(UsageInWindow(cells[c], now, w) + op[t].tokens > b.capacity)
  BY <1>1, <1>3, <1>4, <1>13 DEF RoomKept, Exhausted
<1>18. Promise!Charged(k, w) + op[t].tokens <= b.capacity
  BY <1>5, <1>6, <1>8, <1>12, <1>15, <1>16, <1>17
<1> QED BY <1>2, <1>4, <1>18

\* An admission is one by the promise.
LEMMA RefineAdmit ==
  ASSUME LedgerInv, UsageInv, NEW t \in Threads, ReserveAdmit(t)
  PROVE  Promise!Next
<1>1. Types /\ Shape(op[t]) /\ ClocksSane /\ IdsDense /\ Asked
  BY DEF LedgerInv, UsageInv, Shapes
<1>2. PICK k : k = op[t].key
  OBVIOUS
<1>3. PICK e : e = op[t].tokens
  OBVIOUS
<1>4. PICK at : at = op[t].now
  OBVIOUS
<1>5. PICK n : n = next_id
  OBVIOUS
<1>6. /\ op[t].call = "reserve" /\ op[t].pc = "admit" /\ active_reservations < MaxActive
      /\ charge' = Inserted(charge, n, [key |-> k, at |-> at, estimate |-> e,
                                        tokens |-> e, settled |-> FALSE])
      /\ clock' = clock
  BY <1>2, <1>3, <1>4, <1>5 DEF ReserveAdmit
<1>7. /\ op[t] \in Calls /\ k \in Keys /\ at \in Nat /\ clock \in Nat /\ at <= clock
      /\ n \in Nat /\ n >= 1
  BY <1>1, <1>2, <1>4, <1>5, <1>6, HistoryTypes, DomainAssumption
     DEF Types, Shape, WithCell, Calls, ClocksSane
<1>8. e \in Estimates \ {0} /\ at \in 0..clock
  BY <1>1, <1>3, <1>6, <1>7 DEF Asked, AskedFor, InReserve
<1>9. \A b \in Budgets : Promise!Charged(k, b.window_ms) + e <= b.capacity
  BY <1>2, <1>3, <1>6, RoomPromised
<1>10. Promise!Cardinality(Promise!Active) < MaxActive
  <2>1. Promise!Cardinality(Promise!Active) = Cardinality(Promise!Active)
    BY PromiseCounts
  <2>2. active_reservations \in Nat /\ MaxActive \in Nat
    BY <1>1, ConfigAssumption DEF Types, ValidConfig
  <2>3. /\ Cardinality(Promise!Active) \in Nat
        /\ Cardinality(Promise!Active) <= active_reservations
    BY ActiveBound
  <2> QED BY <1>6, <2>1, <2>2, <2>3
<1>11. Promise!Cardinality(DOMAIN charge) + 1 = n
  <2>1. DOMAIN charge = 1..(n - 1)
    BY <1>1, <1>5 DEF IdsDense
  <2>2. PICK l : l = n - 1
    OBVIOUS
  <2>3. l \in Nat
    BY <1>7, <2>2
  <2>4. Cardinality(1..l) = IF 1 > l THEN 0 ELSE l - 1 + 1
    BY <2>3, FS_Interval
  <2>5. Cardinality(1..l) = l
    BY <2>3, <2>4
  <2> QED BY <1>7, <2>1, <2>2, <2>5, PromiseCounts
<1>12. charge' = [id \in DOMAIN charge \cup {n} |->
                    IF id = n
                    THEN [key |-> k, at |-> at, estimate |-> e, tokens |-> e,
                          settled |-> FALSE]
                    ELSE charge[id]]
  BY <1>6 DEF Inserted
<1>13. Promise!Admit(k, e, at)
  BY <1>6, <1>9, <1>10, <1>11, <1>12 DEF Promise!Admit
<1> QED BY <1>7, <1>8, <1>13 DEF Promise!Next

\* Some reservations may be settled, each of them timed out by the promise's clock.
TimedOut(ch, now, X) ==
  \A id \in X : id \in DOMAIN ch /\ ~ch[id].settled /\ now - ch[id].at >= ReservationTimeout

\* What a reap gives up on has timed out: the caller's clock is not ahead of the
\* promise's.
LEMMA ExpiredTimedOut ==
  ASSUME NEW y \in KeyStates, NEW now \in Nat, NEW clk \in Nat, now <= clk,
         NEW ch \in Partial(Charges), NEW k, Known(y.active, ch, k),
         NEW X, X = Expired(y, now)
  PROVE  TimedOut(ch, clk, X)
<1>1. ASSUME NEW id \in X
      PROVE  id \in DOMAIN ch /\ ~ch[id].settled /\ clk - ch[id].at >= ReservationTimeout
  <2>1. /\ id \in DOMAIN y.active
        /\ SatSub(now, y.active[id].created_at_ms) >= ReservationTimeout
    BY <1>1 DEF Expired
  <2>2. /\ id \in DOMAIN ch /\ ~ch[id].settled
        /\ y.active[id].created_at_ms = ch[id].at
    BY <2>1 DEF Known
  <2>3. ch[id] \in Charges
    BY <2>2, PartialFacts
  <2>4. PICK at : at = ch[id].at
    OBVIOUS
  <2>5. at \in Nat
    BY <2>3, <2>4 DEF Charges
  <2>6. SatSub(now, at) >= ReservationTimeout
    BY <2>1, <2>2, <2>4
  <2>7. ReservationTimeout \in Nat /\ ReservationTimeout >= 1
    BY ConfigAssumption DEF ValidConfig
  <2>8. clk - at >= ReservationTimeout
    BY <2>5, <2>6, <2>7 DEF SatSub
  <2> QED BY <2>2, <2>4, <2>8
<1> QED BY <1>1 DEF TimedOut

\* What the ledger's history notes is a settlement by the promise.
LEMMA RecordSettles ==
  ASSUME Types, TermsKept, NEW reported, NEW a, NEW timedout, NEW f, NEW D,
         D = reported \cup timedout, D # {}, D \subseteq Promise!Active,
         TimedOut(charge, clock, timedout),
         \A id \in reported : f[id] = a,
         \A id \in timedout : id \notin reported => f[id] = charge[id].estimate,
         Record(D, f), clock' = clock
  PROVE  Promise!Settle(reported, a, timedout)
<1>1. PICK S : S = DOMAIN charge
  OBVIOUS
<1>2. \A id \in S : charge[id] \in Charges
  BY <1>1, ChargeFacts
<1>3. \A id \in D : id \in S /\ ~charge[id].settled
  BY <1>1 DEF Promise!Active
<1>4. charge' = [id \in S |->
                   IF id \in D
                   THEN [charge[id] EXCEPT !.tokens = f[id], !.settled = TRUE]
                   ELSE charge[id]]
  BY <1>1 DEF Record
<1>5. ASSUME NEW id \in D
      PROVE  [charge[id] EXCEPT !.tokens = f[id], !.settled = TRUE]
               = [charge[id] EXCEPT
                    !.settled = TRUE,
                    !.tokens = IF id \in reported THEN a ELSE @]
  <2>1. charge[id] \in Charges /\ charge[id].tokens = charge[id].estimate
    BY <1>1, <1>2, <1>3, <1>5 DEF TermsKept
  <2>2. f[id] = IF id \in reported THEN a ELSE charge[id].tokens
    BY <1>5, <2>1
  <2>3. PICK v : v = charge[id]
    OBVIOUS
  <2>4. PICK x : x = f[id]
    OBVIOUS
  <2>5. PICK u : u = [v EXCEPT !.tokens = x, !.settled = TRUE]
    OBVIOUS
  <2>6. PICK w : w = [v EXCEPT !.settled = TRUE,
                               !.tokens = IF id \in reported THEN a ELSE @]
    OBVIOUS
  <2>7. v \in Charges
    BY <2>1, <2>3
  <2>8. u = [key |-> v.key, at |-> v.at, estimate |-> v.estimate, tokens |-> x,
             settled |-> TRUE]
    BY <2>5, <2>7 DEF Charges
  <2>9. w = [key |-> v.key, at |-> v.at, estimate |-> v.estimate,
             tokens |-> IF id \in reported THEN a ELSE v.tokens, settled |-> TRUE]
    BY <2>6, <2>7 DEF Charges
  <2>10. u = w
    BY <2>2, <2>3, <2>4, <2>8, <2>9
  <2> QED BY <2>3, <2>4, <2>5, <2>6, <2>10
<1>6. charge' = [id \in S |->
                   IF id \in D
                   THEN [charge[id] EXCEPT
                           !.settled = TRUE,
                           !.tokens = IF id \in reported THEN a ELSE @]
                   ELSE charge[id]]
  BY <1>4, <1>5
<1>7. \A id \in timedout : clock - charge[id].at >= ReservationTimeout
  BY DEF TimedOut
<1> QED BY <1>1, <1>6, <1>7 DEF Promise!Settle

\* A reap that gives up on nothing leaves the history alone.
LEMMA RecordNothing ==
  ASSUME Types, NEW D, D = {}, NEW f, Record(D, f)
  PROVE  charge' = charge
<1>1. charge \in [DOMAIN charge -> Charges]
  BY PartialFacts DEF Types
<1>2. charge' = [id \in DOMAIN charge |-> charge[id]]
  BY DEF Record
<1> QED BY <1>1, <1>2

\* A reap by reserve or cleanup settles what has timed out, if anything has.
LEMMA RefineGuardedReap ==
  ASSUME LedgerInv, UsageInv, NEW t \in Threads, NEW c, c = op[t].cell,
         op[t].call \in {"reserve", "cleanup"}, op[t].pc = "lock",
         Record(Expired(cells[c], op[t].now), [id \in DOMAIN charge |-> charge[id].estimate]),
         clock' = clock
  PROVE  Promise!Next \/ charge' = charge
<1>1. Types /\ Shape(op[t]) /\ Carries(op[t]) /\ ClocksSane /\ TermsKept
  BY DEF LedgerInv, UsageInv, Shapes, Carried
<1>2. PICK k : k = op[t].key
  OBVIOUS
<1>3. PICK now : now = op[t].now
  OBVIOUS
<1>4. /\ op[t] \in Calls /\ c \in Cells /\ k \in Keys /\ now \in Nat /\ now <= clock
      /\ clock \in Nat /\ keys[k] = c
  BY <1>1, <1>2, <1>3, HistoryTypes
     DEF Types, Shape, WithCell, Calls, Carries, ReserveGuard, CleanupGuard, ClocksSane
<1>5. PICK z : z = cells[c]
  OBVIOUS
<1>6. PICK D : D = Expired(z, now)
  OBVIOUS
<1>7. PICK f : f = [id \in DOMAIN charge |-> charge[id].estimate]
  OBVIOUS
<1>8. Record(D, f)
  BY <1>3, <1>5, <1>6, <1>7
<1>9. CASE D = {}
  BY <1>1, <1>8, <1>9, RecordNothing
<1>10. CASE D # {}
  <2>1. z \in KeyStates /\ charge \in Partial(Charges)
    BY <1>1, <1>4, <1>5 DEF Types
  <2>2. Known(z.active, charge, k)
    BY <1>4, <1>5, ActiveTerms
  <2>3. TimedOut(charge, clock, D)
    BY <1>4, <1>6, <2>1, <2>2, ExpiredTimedOut
  <2>4. D \in SUBSET Promise!Active
    BY <2>3 DEF TimedOut, Promise!Active
  <2>5. PICK none : none = {}
    OBVIOUS
  <2>6. D = none \cup D /\ \A id \in none : f[id] = 0
    BY <2>5
  <2>7. \A id \in D : id \notin none => f[id] = charge[id].estimate
    BY <1>7, <2>3 DEF TimedOut
  <2>8. Promise!Settle(none, 0, D)
    BY <1>1, <1>8, <1>10, <2>3, <2>4, <2>6, <2>7, RecordSettles
  <2> QED BY <2>4, <2>5, <2>8 DEF Promise!Next
<1> QED BY <1>9, <1>10

\* A reconcile settles its id at what the response cost, with what has timed out; one
\* that comes too late settles nothing.
LEMMA RefineReconcileLock ==
  ASSUME LedgerInv, UsageInv, NEW t \in Threads, ReconcileLock(t)
  PROVE  Promise!Next \/ charge' = charge
<1>1. /\ Types /\ Shape(op[t]) /\ Carries(op[t]) /\ ActiveCharged /\ ClocksSane /\ TermsKept
      /\ AskedFor(op[t])
  BY DEF LedgerInv, UsageInv, Shapes, Carried, Asked
<1>2. PICK c : c = op[t].cell
  OBVIOUS
<1>3. PICK n : n = op[t].id
  OBVIOUS
<1>4. PICK k : k = op[t].key
  OBVIOUS
<1>5. PICK now : now = op[t].now
  OBVIOUS
<1>6. PICK z : z = cells[c]
  OBVIOUS
<1>7. op[t].call = "reconcile" /\ op[t].pc = "lock" /\ clock' = clock
  BY DEF ReconcileLock
<1>8. /\ op[t] \in Calls /\ c \in Cells /\ k \in Keys /\ now \in Nat /\ now <= clock
      /\ clock \in Nat /\ op[t].tokens \in Nat \cup {None}
  BY <1>1, <1>2, <1>4, <1>5, <1>7, HistoryTypes
     DEF Types, Shape, WithCell, Calls, ClocksSane
<1>9. CASE n \notin DOMAIN z.active
  BY <1>2, <1>3, <1>6, <1>9 DEF ReconcileLock
<1>10. CASE n \in DOMAIN z.active
  <2>1. PICK a : a = IF op[t].tokens = None THEN z.active[n].estimate ELSE op[t].tokens
    OBVIOUS
  <2>2. PICK y : y = Settle(z, n, a)
    OBVIOUS
  <2>3. PICK X : X = Expired(y, now)
    OBVIOUS
  <2>4. PICK f : f = [i \in DOMAIN charge |-> IF i = n THEN a ELSE charge[i].estimate]
    OBVIOUS
  <2>5. PICK D : D = {n} \cup X
    OBVIOUS
  <2>6. Record(D, f)
    BY <1>2, <1>3, <1>5, <1>6, <1>10, <2>1, <2>2, <2>3, <2>4, <2>5 DEF ReconcileLock
  <2>7. z \in KeyStates /\ charge \in Partial(Charges)
    BY <1>1, <1>6, <1>8 DEF Types
  <2>8. \A i \in DOMAIN z.active : z.active[i] \in ActiveReservations
    BY <2>7, PartialFacts DEF KeyStates
  <2>9. a \in Nat
    BY <1>8, <1>10, <2>1, <2>8 DEF ActiveReservations
  <2>10. keys[k] = c
    BY <1>1, <1>3, <1>4, <1>6, <1>7, <1>8, <1>10 DEF Carries, Holds, Settling, ActiveCharged
  <2>11. Known(z.active, charge, k)
    BY <1>6, <1>8, <2>10, ActiveTerms
  <2>12. n \in DOMAIN charge /\ ~charge[n].settled /\ z.active[n].estimate = charge[n].estimate
    BY <1>10, <2>11 DEF Known
  <2>13. a \in Actuals \cup {charge[n].estimate}
    BY <1>1, <1>7, <2>1, <2>12 DEF AskedFor, Settling
  <2>14. y \in KeyStates /\ BecameUsage(z, y, n, a)
    BY <1>10, <2>2, <2>7, <2>9, SettleFacts
  <2>15. n \notin X /\ Known(y.active, charge, k)
    <3>1. DOMAIN y.active = DOMAIN z.active \ {n}
      BY <2>14 DEF BecameUsage
    <3>2. \A id \in DOMAIN y.active : id \in DOMAIN z.active /\ y.active[id] = z.active[id]
      BY <2>14 DEF BecameUsage
    <3> QED BY <2>3, <2>11, <3>1, <3>2 DEF Expired, Known
  <2>16. TimedOut(charge, clock, X)
    BY <1>8, <2>3, <2>7, <2>14, <2>15, ExpiredTimedOut
  <2>17. X \in SUBSET Promise!Active /\ n \in Promise!Active \ X
    BY <2>12, <2>15, <2>16 DEF TimedOut, Promise!Active
  <2>18. PICK one : one = {n}
    OBVIOUS
  <2>19. D = one \cup X /\ D # {} /\ D \subseteq Promise!Active
    BY <2>5, <2>17, <2>18
  <2>20. \A id \in one : f[id] = a
    BY <2>4, <2>12, <2>18
  <2>21. \A id \in X : id \notin one => f[id] = charge[id].estimate
    BY <2>4, <2>16, <2>18 DEF TimedOut
  <2>22. Promise!Settle(one, a, X)
    BY <1>1, <1>7, <2>6, <2>16, <2>19, <2>20, <2>21, RecordSettles
  <2> QED BY <2>13, <2>17, <2>18, <2>22 DEF Promise!Next
<1> QED BY <1>9, <1>10

\* The ledger starts as the promise does.
LEMMA RefineInit ==
  ASSUME Init
  PROVE  Promise!Init
  BY DEF Init, NoEntries, Promise!Init

\* Every step of every thread is a step of the promise, or invisible.
LEMMA RefineNext ==
  ASSUME LedgerInv, UsageInv, [Next]_vars
  PROVE  [Promise!Next]_<<clock, charge>>
<1> SUFFICES Promise!Next \/ (clock' = clock /\ charge' = charge)
  OBVIOUS
<1>1. CASE Tick
  BY <1>1 DEF Tick, Promise!Tick, Promise!Next
<1>2. ASSUME NEW t \in Threads, Begin(t)
      PROVE  clock' = clock /\ charge' = charge
  BY <1>2 DEF Begin, ReserveBegin, ReconcileTake, CleanupBegin
<1>3. ASSUME NEW t \in Threads, Step(t)
      PROVE  Promise!Next \/ (clock' = clock /\ charge' = charge)
  <2>1. CASE ReserveLock(t)
    <3>1. PICK c : c = op[t].cell
      OBVIOUS
    <3>2. /\ op[t].call = "reserve" /\ op[t].pc = "lock" /\ clock' = clock
          /\ Record(Expired(cells[c], op[t].now),
                    [id \in DOMAIN charge |-> charge[id].estimate])
      BY <2>1, <3>1 DEF ReserveLock
    <3> QED BY <3>1, <3>2, RefineGuardedReap
  <2>2. CASE CleanupLock(t)
    <3>1. PICK c : c = op[t].cell
      OBVIOUS
    <3>2. /\ op[t].call = "cleanup" /\ op[t].pc = "lock" /\ clock' = clock
          /\ Record(Expired(cells[c], op[t].now),
                    [id \in DOMAIN charge |-> charge[id].estimate])
      BY <2>2, <3>1 DEF CleanupLock
    <3> QED BY <3>1, <3>2, RefineGuardedReap
  <2>3. CASE ReconcileLock(t)
    <3>1. clock' = clock
      BY <2>3 DEF ReconcileLock
    <3> QED BY <2>3, <3>1, RefineReconcileLock
  <2>4. CASE ReserveAdmit(t)
    BY <2>4, RefineAdmit
  <2>5. CASE \/ ReserveLookup(t) \/ ReserveInsert(t) \/ ReserveKeyCapacity(t)
             \/ ReserveUncount(t) \/ ReserveCapacity(t) \/ ReservePublish(t) \/ Forget(t)
    BY <2>5 DEF ReserveLookup, ReserveInsert, ReserveKeyCapacity, ReserveUncount,
                ReserveCapacity, ReservePublish, Forget
  <2>6. CASE \/ ReconcileLookup(t) \/ (\E id \in Ids : ReconcileForget(t, id))
             \/ ReconcileUncount(t) \/ ReconcileUnlock(t)
    BY <2>6 DEF ReconcileLookup, ReconcileForget, ReconcileUncount, ReconcileUnlock
  <2>7. CASE \/ (\E k \in Keys : CleanupNext(t, k)) \/ CleanupUncount(t)
             \/ CleanupRemove(t) \/ CleanupDropKey(t) \/ CleanupEnd(t) \/ Leave(t)
    BY <2>7 DEF CleanupNext, CleanupUncount, CleanupRemove, CleanupDropKey, CleanupEnd, Leave
  <2> QED BY <1>3, <2>1, <2>2, <2>3, <2>4, <2>5, <2>6, <2>7 DEF Step
<1>4. CASE UNCHANGED vars
  BY <1>4 DEF vars
<1> QED BY <1>1, <1>2, <1>3, <1>4 DEF Next

-----------------------------------------------------------------------------
(* Never oversold                                                          *)

\* What the history ch says was admitted on k and counts at `now`, each admission at
\* the lower of its estimate and its cost.
LowCost(ch) == [id \in DOMAIN ch |-> Min({ch[id].estimate, ch[id].tokens})]
Counts(ch, now, k, w) ==
  {id \in DOMAIN ch : ch[id].key = k /\ (ch[id].settled => now - ch[id].at < w)}
Sold(ch, now, k, w) == SumFunctionOnSet(LowCost(ch), Counts(ch, now, k, w))

\* What was admitted fits every budget.
Fits == \A k \in Keys, b \in Budgets : Sold(charge, clock, k, b.window_ms) <= b.capacity

\* The lower of two numbers.
LEMMA MinFacts ==
  ASSUME NEW a \in Nat, NEW b \in Nat
  PROVE  Min({a, b}) \in Nat /\ Min({a, b}) <= a /\ Min({a, b}) <= b /\ Min({a, a}) = a
<1>1. PICK S : S = {a, b}
  OBVIOUS
<1>2. \E x \in S : \A y \in S : x <= y
  <2>1. CASE a <= b
    BY <1>1, <2>1
  <2>2. CASE b <= a
    BY <1>1, <2>2
  <2> QED BY <2>1, <2>2
<1>3. PICK m : m = CHOOSE x \in S : \A y \in S : x <= y
  OBVIOUS
<1>4. m \in S /\ \A y \in S : m <= y
  BY <1>2, <1>3
<1>5. Min(S) = m
  BY <1>3 DEF Min
<1>6. Min({a, a}) = a
  <2>1. Min({a, a}) = CHOOSE x \in {a, a} : \A y \in {a, a} : x <= y
    BY DEF Min
  <2>2. \E x \in {a, a} : \A y \in {a, a} : x <= y
    OBVIOUS
  <2> QED BY <2>1, <2>2
<1> QED BY <1>1, <1>4, <1>5, <1>6

\* What counts is finite, and its terms are numbers below the estimate and the cost.
LEMMA SoldFacts ==
  ASSUME NEW ch \in Partial(Charges), NEW now, NEW k, NEW w
  PROVE  /\ IsFiniteSet(Counts(ch, now, k, w)) /\ Counts(ch, now, k, w) \subseteq DOMAIN ch
         /\ \A id \in DOMAIN ch :
              /\ LowCost(ch)[id] \in Nat
              /\ LowCost(ch)[id] <= ch[id].estimate /\ LowCost(ch)[id] <= ch[id].tokens
              /\ ch[id].tokens = ch[id].estimate => LowCost(ch)[id] = ch[id].estimate
<1>1. DOMAIN ch \in SUBSET Ids /\ \A id \in DOMAIN ch : ch[id] \in Charges
  BY PartialFacts
<1>2. Counts(ch, now, k, w) \subseteq DOMAIN ch
  BY DEF Counts
<1>3. IsFiniteSet(Counts(ch, now, k, w))
  BY <1>1, <1>2, FiniteSets, FS_Subset
<1>4. ASSUME NEW id \in DOMAIN ch
      PROVE  /\ LowCost(ch)[id] \in Nat
             /\ LowCost(ch)[id] <= ch[id].estimate /\ LowCost(ch)[id] <= ch[id].tokens
             /\ ch[id].tokens = ch[id].estimate => LowCost(ch)[id] = ch[id].estimate
  <2>1. PICK a : a = ch[id].estimate
    OBVIOUS
  <2>2. PICK b : b = ch[id].tokens
    OBVIOUS
  <2>3. a \in Nat /\ b \in Nat
    BY <1>1, <2>1, <2>2 DEF Charges
  <2>4. LowCost(ch)[id] = Min({a, b})
    BY <2>1, <2>2 DEF LowCost
  <2> QED BY <2>1, <2>2, <2>3, <2>4, MinFacts
<1> QED BY <1>2, <1>3, <1>4

\* Fewer admissions that count, none of them dearer, cost no more.
LEMMA SoldLess ==
  ASSUME NEW ch \in Partial(Charges), NEW dh \in Partial(Charges), NEW now, NEW then,
         NEW k, NEW w, NEW cap \in Nat,
         Counts(dh, then, k, w) \subseteq Counts(ch, now, k, w),
         \A id \in Counts(dh, then, k, w) : LowCost(dh)[id] <= LowCost(ch)[id],
         Sold(ch, now, k, w) <= cap
  PROVE  Sold(dh, then, k, w) <= cap
<1>1. PICK S : S = Counts(ch, now, k, w)
  OBVIOUS
<1>2. PICK T : T = Counts(dh, then, k, w)
  OBVIOUS
<1>3. PICK f : f = LowCost(ch)
  OBVIOUS
<1>4. PICK g : g = LowCost(dh)
  OBVIOUS
<1>5. IsFiniteSet(S) /\ \A id \in S : f[id] \in Nat
  BY <1>1, <1>3, SoldFacts
<1>6. IsFiniteSet(T) /\ \A id \in T : g[id] \in Nat
  BY <1>2, <1>4, SoldFacts
<1>7. T \subseteq S /\ \A id \in T : g[id] <= f[id]
  BY <1>1, <1>2, <1>3, <1>4
<1>8. /\ SumFunctionOnSet(f, T) \in Nat /\ SumFunctionOnSet(f, S) \in Nat
      /\ SumFunctionOnSet(f, T) <= SumFunctionOnSet(f, S)
  BY <1>5, <1>7, SumPart
<1>9. SumFunctionOnSet(g, T) <= SumFunctionOnSet(f, T)
  BY <1>5, <1>6, <1>7, SumCompare
<1>10. SumFunctionOnSet(g, T) \in Nat
  BY <1>6, SumType
<1>11. SumFunctionOnSet(f, S) <= cap
  BY <1>1, <1>3 DEF Sold
<1>12. SumFunctionOnSet(g, T) <= cap
  BY <1>8, <1>9, <1>10, <1>11
<1> QED BY <1>2, <1>4, <1>12 DEF Sold

\* At the start nothing is sold.
LEMMA InitFits ==
  ASSUME Init
  PROVE  Fits
<1>1. charge = NoEntries
  BY DEF Init
<1>2. ASSUME NEW k \in Keys, NEW b \in Budgets
      PROVE  Sold(charge, clock, k, b.window_ms) <= b.capacity
  <2>1. Counts(charge, clock, k, b.window_ms) = {}
    BY <1>1 DEF Counts, NoEntries
  <2>2. PICK f : f = LowCost(charge)
    OBVIOUS
  <2>3. PICK none : none = {}
    OBVIOUS
  <2>4. IsFiniteSet(none) /\ \A x \in none : f[x] \in Nat
    BY <2>3, FS_EmptySet
  <2>5. SumFunctionOnSet(f, {}) = 0
    BY <2>4, SumType
  <2>6. b.capacity \in Nat
    BY ConfigAssumption DEF ValidConfig
  <2> QED BY <2>1, <2>2, <2>5, <2>6 DEF Sold
<1> QED BY <1>2 DEF Fits

\* The clock lets admissions leave their windows.
LEMMA FitsTick ==
  ASSUME Types, Types', Fits, charge' = charge, clock' >= clock
  PROVE  Fits'
<1>1. charge \in Partial(Charges) /\ clock \in Nat /\ clock' \in Nat
  BY DomainAssumption DEF Types
<1>2. PICK clk : clk = clock'
  OBVIOUS
<1>3. ASSUME NEW k \in Keys, NEW b \in Budgets
      PROVE  Sold(charge', clock', k, b.window_ms) <= b.capacity
  <2>1. PICK w : w = b.window_ms
    OBVIOUS
  <2>2. PICK cap : cap = b.capacity
    OBVIOUS
  <2>3. cap \in Nat /\ w \in Nat
    BY <2>1, <2>2, ConfigAssumption DEF ValidConfig
  <2>4. Counts(charge, clk, k, w) \subseteq Counts(charge, clock, k, w)
    <3>1. ASSUME NEW id \in Counts(charge, clk, k, w)
          PROVE  id \in Counts(charge, clock, k, w)
      <4>1. /\ id \in DOMAIN charge /\ charge[id].key = k
            /\ charge[id].settled => clk - charge[id].at < w
        BY <3>1 DEF Counts
      <4>2. charge[id].at \in Nat
        BY <4>1, HistoryTypes
      <4>3. charge[id].settled => clock - charge[id].at < w
        BY <1>1, <1>2, <2>3, <4>1, <4>2
      <4> QED BY <4>1, <4>3 DEF Counts
    <3> QED BY <3>1
  <2>5. \A id \in Counts(charge, clk, k, w) : LowCost(charge)[id] <= LowCost(charge)[id]
    BY <1>1, SoldFacts
  <2>6. Sold(charge, clock, k, w) <= cap
    BY <2>1, <2>2 DEF Fits
  <2>7. Sold(charge, clk, k, w) <= cap
    BY <1>1, <2>3, <2>4, <2>5, <2>6, SoldLess
  <2> QED BY <1>2, <2>1, <2>2, <2>7
<1> QED BY <1>3 DEF Fits

\* A settlement costs at least what counts of it.
LEMMA FitsSettle ==
  ASSUME Types, Types', TermsKept, Fits, NEW reported, NEW a, NEW timedout,
         Promise!Settle(reported, a, timedout)
  PROVE  Fits'
<1>1. charge \in Partial(Charges) /\ charge' \in Partial(Charges) /\ clock' = clock
  BY DEF Types, Promise!Settle
<1>2. PICK D : D = reported \cup timedout
  OBVIOUS
<1>3. PICK ch : ch = charge
  OBVIOUS
<1>4. PICK dh : dh = charge'
  OBVIOUS
<1>5. ch \in Partial(Charges) /\ dh \in Partial(Charges)
  BY <1>1, <1>3, <1>4
<1>6. D \subseteq {id \in DOMAIN ch : ~ch[id].settled}
  BY <1>2, <1>3 DEF Promise!Settle, Promise!Active
<1>7. dh = [id \in DOMAIN ch |->
              IF id \in D
              THEN [ch[id] EXCEPT !.settled = TRUE,
                                  !.tokens = IF id \in reported THEN a ELSE @]
              ELSE ch[id]]
  BY <1>2, <1>3, <1>4 DEF Promise!Settle
<1>8. \A id \in D : ch[id].tokens = ch[id].estimate
  BY <1>3, <1>6 DEF TermsKept
<1>9. DOMAIN dh = DOMAIN ch /\ \A id \in DOMAIN ch : id \notin D => dh[id] = ch[id]
  BY <1>7
<1>10. ASSUME NEW id \in D
       PROVE  dh[id].key = ch[id].key /\ dh[id].estimate = ch[id].estimate
  <2>1. id \in DOMAIN ch /\ ch[id] \in Charges
    BY <1>5, <1>6, <1>10, PartialFacts
  <2>2. dh[id] = [ch[id] EXCEPT !.settled = TRUE,
                                !.tokens = IF id \in reported THEN a ELSE @]
    BY <1>7, <1>10, <2>1
  <2> QED BY <2>1, <2>2 DEF Charges
<1>11. ASSUME NEW id \in DOMAIN ch PROVE LowCost(dh)[id] <= LowCost(ch)[id]
  <2>1. LowCost(dh)[id] \in Nat /\ LowCost(ch)[id] \in Nat
    BY <1>5, <1>9, <1>11, SoldFacts
  <2>2. CASE id \in D
    <3>1. LowCost(dh)[id] <= dh[id].estimate
      BY <1>5, <1>9, <1>11, SoldFacts
    <3>2. LowCost(ch)[id] = ch[id].estimate
      BY <1>5, <1>8, <1>11, <2>2, SoldFacts
    <3> QED BY <1>10, <2>2, <3>1, <3>2
  <2>3. CASE id \notin D
    <3>1. LowCost(dh)[id] = LowCost(ch)[id]
      BY <1>9, <1>11, <2>3 DEF LowCost
    <3> QED BY <2>1, <3>1
  <2> QED BY <2>2, <2>3
<1>12. ASSUME NEW k \in Keys, NEW b \in Budgets
       PROVE  Sold(charge', clock', k, b.window_ms) <= b.capacity
  <2>1. PICK w : w = b.window_ms
    OBVIOUS
  <2>2. PICK cap : cap = b.capacity
    OBVIOUS
  <2>3. cap \in Nat
    BY <2>2, ConfigAssumption DEF ValidConfig
  <2>4. Counts(dh, clock, k, w) \subseteq Counts(ch, clock, k, w)
    BY <1>6, <1>9, <1>10 DEF Counts
  <2>5. \A id \in Counts(dh, clock, k, w) : LowCost(dh)[id] <= LowCost(ch)[id]
    BY <1>9, <1>11 DEF Counts
  <2>6. Sold(ch, clock, k, w) <= cap
    BY <1>3, <2>1, <2>2 DEF Fits
  <2>7. Sold(dh, clock, k, w) <= cap
    BY <1>5, <2>3, <2>4, <2>5, <2>6, SoldLess
  <2> QED BY <1>1, <1>4, <2>1, <2>2, <2>7
<1> QED BY <1>12 DEF Fits

\* What counts costs at least what is sold.
LEMMA SoldBelowCharged ==
  ASSUME Types, NEW k, NEW w
  PROVE  /\ Sold(charge, clock, k, w) \in Nat /\ Promise!Charged(k, w) \in Nat
         /\ Sold(charge, clock, k, w) <= Promise!Charged(k, w)
<1>1. charge \in Partial(Charges)
  BY DEF Types
<1>2. PICK S : S = Counts(charge, clock, k, w)
  OBVIOUS
<1>3. PICK f : f = LowCost(charge)
  OBVIOUS
<1>4. PICK g : g = [id \in DOMAIN charge |-> charge[id].tokens]
  OBVIOUS
<1>5. /\ IsFiniteSet(S) /\ S \subseteq DOMAIN charge
      /\ \A id \in DOMAIN charge : f[id] \in Nat /\ f[id] <= charge[id].tokens
  BY <1>1, <1>2, <1>3, SoldFacts
<1>6. \A id \in DOMAIN charge : g[id] = charge[id].tokens /\ g[id] \in Nat
  BY <1>4, HistoryTypes
<1>7. \A id \in S : f[id] \in Nat /\ g[id] \in Nat /\ f[id] <= g[id]
  BY <1>5, <1>6
<1>8. SumFunctionOnSet(f, S) <= SumFunctionOnSet(g, S)
  BY <1>5, <1>7, SumCompare
<1>9. SumFunctionOnSet(f, S) \in Nat
  BY <1>5, <1>7, SumType
<1>10. SumFunctionOnSet(g, S) \in Nat
  BY <1>5, <1>7, SumType
<1>11. Promise!Counted(k, w) = S
  BY <1>2 DEF Promise!Counted, Counts
<1>12. Promise!Charged(k, w) = Promise!SumFunctionOnSet(g, S)
  BY <1>4, <1>11 DEF Promise!Charged
<1>13. Promise!Charged(k, w) = SumFunctionOnSet(g, S)
  BY <1>12, PromiseSums
<1>14. Sold(charge, clock, k, w) = SumFunctionOnSet(f, S)
  BY <1>2, <1>3 DEF Sold
<1> QED BY <1>8, <1>9, <1>10, <1>13, <1>14

\* The number of an admission is new.
LEMMA FreshId ==
  ASSUME Types, IdsDense
  PROVE  Promise!Cardinality(DOMAIN charge) + 1 \notin DOMAIN charge
<1>1. PICK l : l = next_id - 1
  OBVIOUS
<1>2. l \in Nat
  BY <1>1, DomainAssumption DEF Types
<1>3. DOMAIN charge = 1..l
  BY <1>1 DEF IdsDense
<1>4. Cardinality(1..l) = IF 1 > l THEN 0 ELSE l - 1 + 1
  BY <1>2, FS_Interval
<1>5. Cardinality(1..l) = l /\ l + 1 \notin 1..l
  BY <1>2, <1>4
<1> QED BY <1>3, <1>5, PromiseCounts

\* An admission that found room leaves nothing oversold.
LEMMA FitsAdmit ==
  ASSUME Types, Types', IdsDense, Fits, NEW key, NEW e \in Nat, NEW at,
         Promise!Admit(key, e, at)
  PROVE  Fits'
<1>1. PICK ch : ch = charge
  OBVIOUS
<1>2. PICK dh : dh = charge'
  OBVIOUS
<1>3. ch \in Partial(Charges) /\ dh \in Partial(Charges) /\ clock' = clock
  BY <1>1, <1>2 DEF Types, Promise!Admit
<1>4. PICK n : n = Promise!Cardinality(DOMAIN charge) + 1
  OBVIOUS
<1>5. n \notin DOMAIN ch
  BY <1>1, <1>4, FreshId
<1>6. PICK v : v = [key |-> key, at |-> at, estimate |-> e, tokens |-> e, settled |-> FALSE]
  OBVIOUS
<1>7. dh = [id \in DOMAIN ch \cup {n} |-> IF id = n THEN v ELSE ch[id]]
  BY <1>1, <1>2, <1>4, <1>6 DEF Promise!Admit
<1>8. \A b \in Budgets : Promise!Charged(key, b.window_ms) + e <= b.capacity
  BY DEF Promise!Admit
<1>9. /\ DOMAIN dh = DOMAIN ch \cup {n} /\ dh[n] = v
      /\ \A id \in DOMAIN ch : dh[id] = ch[id]
  BY <1>5, <1>7
<1>10. dh[n].key = key /\ dh[n].estimate = e /\ dh[n].tokens = e /\ ~dh[n].settled
  BY <1>6, <1>9
<1>11. PICK f : f = LowCost(ch)
  OBVIOUS
<1>12. PICK g : g = LowCost(dh)
  OBVIOUS
<1>13. g[n] = e
  BY <1>3, <1>9, <1>10, <1>12, SoldFacts
<1>14. \A id \in DOMAIN ch : g[id] = f[id]
  BY <1>9, <1>11, <1>12 DEF LowCost
<1>15. ASSUME NEW k \in Keys, NEW b \in Budgets
       PROVE  Sold(charge', clock', k, b.window_ms) <= b.capacity
  <2>1. PICK w : w = b.window_ms
    OBVIOUS
  <2>2. PICK cap : cap = b.capacity
    OBVIOUS
  <2>3. cap \in Nat
    BY <2>2, ConfigAssumption DEF ValidConfig
  <2>4. PICK S : S = Counts(ch, clock, k, w)
    OBVIOUS
  <2>5. PICK T : T = Counts(dh, clock, k, w)
    OBVIOUS
  <2>6. Sold(ch, clock, k, w) <= cap
    BY <1>1, <2>1, <2>2 DEF Fits
  <2>7. Sold(dh, clock, k, w) <= cap
    <3>1. CASE key # k
      <4>1. T \subseteq S
        BY <1>9, <1>10, <2>4, <2>5, <3>1 DEF Counts
      <4>2. \A id \in T : g[id] <= f[id]
        <5>1. \A id \in DOMAIN ch : f[id] \in Nat
          BY <1>3, <1>11, SoldFacts
        <5>2. T \subseteq DOMAIN ch
          BY <2>4, <4>1 DEF Counts
        <5> QED BY <1>14, <5>1, <5>2
      <4> QED BY <1>3, <1>11, <1>12, <2>3, <2>4, <2>5, <2>6, <4>1, <4>2, SoldLess
    <3>2. CASE key = k
      <4>1. T = S \cup {n}
        BY <1>9, <1>10, <2>4, <2>5, <3>2 DEF Counts
      <4>2. IsFiniteSet(S) /\ n \notin S /\ \A id \in S : f[id] \in Nat /\ g[id] = f[id]
        BY <1>3, <1>5, <1>11, <1>14, <2>4, SoldFacts
      <4>3. SumFunctionOnSet(g, T) = g[n] + SumFunctionOnSet(g, S)
        BY <1>13, <4>1, <4>2, SumAdd
      <4>4. SumFunctionOnSet(f, S) = SumFunctionOnSet(g, S)
        BY <4>2, SumEqual
      <4>5. /\ Sold(ch, clock, k, w) \in Nat /\ Promise!Charged(k, w) \in Nat
            /\ Sold(ch, clock, k, w) <= Promise!Charged(k, w)
        BY <1>1, SoldBelowCharged
      <4>6. Promise!Charged(k, w) + e <= cap
        BY <1>8, <2>1, <2>2, <3>2
      <4>7. Sold(ch, clock, k, w) = SumFunctionOnSet(f, S)
        BY <1>11, <2>4 DEF Sold
      <4>8. Sold(dh, clock, k, w) = SumFunctionOnSet(g, T)
        BY <1>12, <2>5 DEF Sold
      <4>9. Sold(dh, clock, k, w) = e + Sold(ch, clock, k, w)
        BY <1>13, <4>3, <4>4, <4>7, <4>8
      <4> QED BY <2>3, <4>5, <4>6, <4>9
    <3> QED BY <3>1, <3>2
  <2> QED BY <1>2, <1>3, <2>1, <2>2, <2>7
<1> QED BY <1>15 DEF Fits

\* Every step of the promise keeps what was admitted within the budgets.
LEMMA NextFits ==
  ASSUME LedgerInv, LedgerInv', UsageInv, Fits, [Promise!Next]_<<clock, charge>>
  PROVE  Fits'
<1>1. Types /\ Types' /\ IdsDense /\ TermsKept
  BY DEF LedgerInv, UsageInv
<1>2. clock \in Nat
  BY <1>1, HistoryTypes
<1>3. CASE Promise!Tick
  <2>1. charge' = charge /\ clock' >= clock
    BY <1>2, <1>3 DEF Promise!Tick
  <2> QED BY <1>1, <2>1, FitsTick
<1>4. ASSUME NEW k \in Keys, NEW e \in Estimates \ {0}, NEW at \in 0..clock,
             Promise!Admit(k, e, at)
      PROVE  Fits'
  <2>1. e \in Nat
    BY DomainAssumption
  <2> QED BY <1>1, <1>4, <2>1, FitsAdmit
<1>5. ASSUME NEW timedout, NEW reported, NEW a, Promise!Settle(reported, a, timedout)
      PROVE  Fits'
  BY <1>1, <1>5, FitsSettle
<1>6. CASE clock' = clock /\ charge' = charge
  <2>1. charge' = charge /\ clock' >= clock
    BY <1>2, <1>6
  <2> QED BY <1>1, <2>1, FitsTick
<1> QED BY <1>3, <1>4, <1>5, <1>6 DEF Promise!Next

\* The ledger's sums are the history's, and the history fits.
LEMMA UsageIsExact ==
  ASSUME LedgerInv, UsageInv, Fits
  PROVE  UsageExact
<1>1. ASSUME NEW k \in Keys, NEW b \in Budgets
      PROVE  Promise!Charged(k, b.window_ms) =
               (IF keys[k] = None THEN 0
                ELSE UsageInWindow(cells[keys[k]], clock, b.window_ms))
  <2>1. PICK w : w = b.window_ms
    OBVIOUS
  <2>2. w \in Nat /\ w <= MaxWindow
    BY <2>1, MaxWindowFacts
  <2>3. Promise!Charged(k, w) = IF keys[k] = None THEN 0
                                ELSE UsageInWindow(cells[keys[k]], clock, w)
    BY <2>2, ChargedIsUsage
  <2> QED BY <2>1, <2>3
<1>2. ASSUME NEW k \in Keys, NEW b \in Budgets
      PROVE  Promise!SumFunctionOnSet(
               [id \in DOMAIN charge |-> Promise!Min({charge[id].estimate, charge[id].tokens})],
               Promise!Counted(k, b.window_ms)) <= b.capacity
  <2>1. PICK S : S = Promise!Counted(k, b.window_ms)
    OBVIOUS
  <2>2. PICK f : f = [id \in DOMAIN charge |->
                        Promise!Min({charge[id].estimate, charge[id].tokens})]
    OBVIOUS
  <2>3. S = Counts(charge, clock, k, b.window_ms)
    BY <2>1 DEF Promise!Counted, Counts
  <2>4. f = LowCost(charge)
    BY <2>2, PromiseCounts DEF LowCost
  <2>5. Promise!SumFunctionOnSet(f, S) = SumFunctionOnSet(f, S)
    BY PromiseSums
  <2>6. SumFunctionOnSet(f, S) <= b.capacity
    BY <2>3, <2>4 DEF Fits, Sold
  <2> QED BY <2>1, <2>2, <2>5, <2>6
<1>3. NoUsageLost
  BY <1>1 DEF NoUsageLost
<1>4. NeverOversold
  BY <1>2 DEF NeverOversold, Promise!NeverOversold
<1> QED BY <1>3, <1>4 DEF UsageExact

\* Whatever calls of however many threads interleave, and however stale the clocks they
\* read: the KeyState that the map holds for a key sums, in each window, to exactly what
\* was admitted on it and still counts, so no usage is lost or charged twice; and what
\* was admitted inside a window never exceeds its capacity.
THEOREM UsageStaysExact == Spec => []UsageExact
<1>1. Init => LedgerInv /\ UsageInv /\ Fits
  BY InitLedger, InitUsage, InitFits
<1>2. LedgerInv /\ UsageInv /\ Fits /\ [Next]_vars => LedgerInv' /\ UsageInv' /\ Fits'
  <2> SUFFICES ASSUME LedgerInv, UsageInv, Fits, [Next]_vars
               PROVE  LedgerInv' /\ UsageInv' /\ Fits'
    OBVIOUS
  <2>1. LedgerInv'
    BY NextLedger
  <2>2. UsageInv'
    BY NextUsage
  <2>3. [Promise!Next]_<<clock, charge>>
    BY RefineNext
  <2>4. Fits'
    BY <2>1, <2>3, NextFits
  <2> QED BY <2>1, <2>2, <2>4
<1>3. LedgerInv /\ UsageInv /\ Fits => UsageExact
  BY UsageIsExact
<1> QED BY <1>1, <1>2, <1>3, PTL DEF Spec

\* The maps, mutexes and atomics of the ledger implement the atomic budget: every step of
\* every thread is an admission that all budgets had room for, a settlement of one
\* reported and some timed-out reservations, a tick, or invisible.
THEOREM LedgerKeepsItsPromise == Spec => ImplementsPromise
<1>1. Init => LedgerInv /\ UsageInv
  BY InitLedger, InitUsage
<1>2. LedgerInv /\ UsageInv /\ [Next]_vars => LedgerInv' /\ UsageInv'
  BY NextLedger, NextUsage
<1>3. Init => Promise!Init
  BY RefineInit
<1>4. LedgerInv /\ UsageInv /\ [Next]_vars => [Promise!Next]_<<clock, charge>>
  BY RefineNext
<1> QED BY <1>1, <1>2, <1>3, <1>4, PTL DEF Spec, ImplementsPromise, Promise!Spec

=============================================================================
