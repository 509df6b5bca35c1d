-------------------------- MODULE Responses_proofs --------------------------
(***************************************************************************)
(* Proofs about the parts of a Responses request, one after the other:     *)
(*                                                                         *)
(* AgenticLoop, for every set of rounds the model may answer with, every   *)
(* iteration limit, fan-out cap and budget: calls are executed once and    *)
(* within the budget, gated ones never and their approvals are asked for,  *)
(* calls are settled, and every step takes the request on.                 *)
(*                                                                         *)
(* McpSessions, for any calls, sessions, targets and limits of a request,  *)
(* every bound on idle sessions and every idle age: a call has its session *)
(* to itself, and no session is leaked.                                    *)
(*                                                                         *)
(* ResponseRows, for any number of approvals and resume turns, batches in  *)
(* any order, event logs and pages of any length: nothing outlives its     *)
(* response, a clean replay is complete, consent is used once and all or   *)
(* nothing, and resume turns never deadlock.                               *)
(***************************************************************************)
EXTENDS AgenticLoop, McpSessions, ResponseRows, FiniteSetTheorems, FunctionTheorems,
        SequenceTheorems, WellFoundedInduction, TLAPS

-----------------------------------------------------------------------------
(* The agentic loop: the inductive invariant                               *)

RoundKinds == {"msg", "client", "local", "mcp", "gated", "web", "file", "tsearch", "found"}
Kinds == RoundKinds \cup {"result", "approval"}
Statuses == {"pending", "completed", "incomplete", "failed"}
Items == [kind : Kinds, status : Statuses]

Positions == Nat \ {0}
Queues == [tool : SUBSET Positions, web : SUBSET Positions,
           tsearch : SUBSET Positions, file : SUBSET Positions]

States ==
  [iteration : Nat, out : Seq(Items), start : Positions, q : Queues,
   called : SUBSET Positions, answered : SUBSET Positions, approval : BOOLEAN,
   limit : BOOLEAN, failure : BOOLEAN, security : BOOLEAN, deferred : BOOLEAN]

\* The kinds of call that some dispatcher executes.
Executable == {"web", "tsearch", "mcp", "file"}

Dispatching == {"web", "mcp", "file"}

LoopTypes ==
  /\ req \in [stream : BOOLEAN, budget : Budgets, stored : BOOLEAN]
  /\ s \in States
  /\ s.start <= Len(s.out) + 1
  /\ pc \in Dispatching \cup {"owner", "model", "done"}
  /\ ended = "no" <=> pc # "done"

\* A queued call is one of the current round, and of the kind its queue is for.
InRound(st, S, kind) ==
  \A i \in S : st.start <= i /\ i <= Len(st.out) /\ Kind(st, i) = kind

\* What is queued when each filter has its turn.
QueuesKnown ==
  /\ pc \in Dispatching =>
       /\ InRound(s, s.q.web, "web") /\ InRound(s, s.q.file, "file")
       /\ InRound(s, s.q.tsearch, "tsearch") /\ InRound(s, s.q.tool, "mcp")
  /\ pc \in {"mcp", "file", "owner", "model"} => s.q.web = {}
  /\ pc \in {"owner", "model"} => s.q.file = {}
  /\ pc = "model" => s.q = NoQueues

\* The built-in calls before position i, and whether they leave room for one more.
Charged(st, i) == {j \in 1..(i - 1) : Kind(st, j) \in Builtin}

Within(budget, st, i) == budget = NoLimit \/ Cardinality(Charged(st, i)) < budget

\* What of the current round has been executed when each filter has its turn.
Executed ==
  [web |-> {}, mcp |-> {"web"}, file |-> {"web", "tsearch", "mcp"},
   owner |-> Executable, model |-> Executable, done |-> Executable]

\* A sequence without repetitions.
Once(r) == \A i, j \in DOMAIN r : r[i] = r[j] => i = j

\* A history of executed calls: none twice, none but of the kinds for that, of the
\* current round only kinds whose dispatcher had its turn, all within the budget.
History(r, st, budget, kinds) ==
  /\ r \in Seq(Positions) /\ Once(r)
  /\ \A k \in DOMAIN r :
       /\ r[k] <= Len(st.out)
       /\ Kind(st, r[k]) \in Executable
       /\ st.start <= r[k] => Kind(st, r[k]) \in kinds
       /\ Kind(st, r[k]) \in Builtin => Within(budget, st, r[k])

RanKnown == History(ran, s, req.budget, Executed[pc])

Pending(st) == {i \in DOMAIN st.out : st.out[i].status = "pending"}

\* A pending search waits in a queue, unless a failure was recorded.
PendingQueued ==
  /\ pc = "web" => Pending(s) \subseteq s.q.web \cup s.q.file
  /\ pc \in {"mcp", "file"} => s.security \/ Pending(s) \subseteq s.q.file
  /\ pc = "owner" => s.security \/ s.failure \/ Pending(s) = {}
  /\ pc = "model" \/ ended = "completed" => Pending(s) = {}
  /\ pc # "done" => \A i \in Pending(s) : s.start <= i

\* A call that was not answered is queued for MCP dispatch, unless the request is
\* about to end.
CallsQueued ==
  /\ pc \in {"web", "mcp"} => s.approval \/ s.called \ s.answered \subseteq s.q.tool
  /\ pc \in {"file", "owner"} =>
       s.approval \/ s.security \/ s.failure \/ s.called \subseteq s.answered
  /\ pc = "model" => s.called \subseteq s.answered

OfKind(st, kind) == {i \in DOMAIN st.out : Kind(st, i) = kind}

\* Every gated call has its question, and the request will end with it.
GatedAsked ==
  /\ (pc # "done" /\ ~s.approval) \/ pc = "model" =>
       OfKind(s, "gated") = {} /\ OfKind(s, "approval") = {}
  /\ pc # "done" \/ ended = "completed" =>
       Cardinality(OfKind(s, "gated")) = Cardinality(OfKind(s, "approval"))

\* The file searches in the queue are within the budget.
FilesWithin == pc \in Dispatching => \A i \in s.q.file : Within(req.budget, s, i)

LoopInv ==
  /\ LoopTypes /\ QueuesKnown /\ RanKnown /\ PendingQueued /\ CallsQueued
  /\ GatedAsked /\ FilesWithin

-----------------------------------------------------------------------------
(* Sets of positions and sequences                                         *)

\* Positions of a sequence of length n are finitely many.
LEMMA FinitePositions ==
  ASSUME NEW n \in Nat, NEW S, \A i \in S : i \in Positions /\ i <= n
  PROVE  IsFiniteSet(S) /\ Cardinality(S) \in Nat
<1>1. S \in SUBSET Nat /\ \A i \in S : i <= n
  BY DEF Positions
<1>2. IsFiniteSet(S)
  BY <1>1, FS_BoundedSetOfNaturals
<1> QED BY <1>2, FS_CardinalityType

\* The larger of two positions has more below it.
LEMMA RankGrows ==
  ASSUME NEW S \in SUBSET Positions, IsFiniteSet(S),
         NEW i \in S, NEW m \in Positions, i < m
  PROVE  /\ Cardinality({j \in S : j < i}) \in Nat
         /\ Cardinality({j \in S : j < m}) \in Nat
         /\ Cardinality({j \in S : j < i}) < Cardinality({j \in S : j < m})
<1> DEFINE A == {j \in S : j < i}
           B == {j \in S : j < m}
<1>1. A \in SUBSET S /\ B \in SUBSET S /\ A \cup {i} \in SUBSET B /\ i \notin A
  <2>1. i \in Nat /\ m \in Nat /\ \A j \in S : j \in Nat
    BY DEF Positions
  <2>2. \A j \in S : j < i => j < m
    BY <2>1
  <2>3. i \in B /\ i \notin A
    BY <2>1
  <2> QED BY <2>2, <2>3
<1>2. IsFiniteSet(A) /\ IsFiniteSet(B)
  BY <1>1, FS_Subset
<1>3. Cardinality(A) \in Nat /\ Cardinality(B) \in Nat
  BY <1>2, FS_CardinalityType
<1>4. Cardinality(A \cup {i}) = Cardinality(A) + 1
  BY <1>1, <1>2, FS_AddElement
<1>5. Cardinality(A \cup {i}) <= Cardinality(B)
  BY <1>1, <1>2, FS_Subset
<1> HIDE DEF A, B
<1>6. Cardinality(A) < Cardinality(B)
  BY <1>3, <1>4, <1>5
<1> QED BY <1>3, <1>6 DEF A, B

\* Every rank below its size is that of some member of a set.
LEMMA RanksTaken ==
  ASSUME NEW S \in SUBSET Positions, IsFiniteSet(S), NEW k \in 1..Cardinality(S)
  PROVE  \E i \in S : Cardinality({j \in S : j < i}) = k - 1
<1> DEFINE n == Cardinality(S)
           rank == [i \in S |-> Cardinality({j \in S : j < i})]
<1>1. n \in Nat
  BY FS_CardinalityType
<1>2. \A i \in S : rank[i] \in 0..(n - 1)
  <2> TAKE i \in S
  <2> DEFINE A == {j \in S : j < i}
  <2>1. A \in SUBSET (S \ {i}) /\ A \in SUBSET S
    BY DEF Positions
  <2>2. IsFiniteSet(S \ {i}) /\ Cardinality(S \ {i}) = n - 1
    BY FS_RemoveElement
  <2>3. IsFiniteSet(A) /\ Cardinality(A) <= n - 1
    BY <2>1, <2>2, FS_Subset
  <2>4. Cardinality(A) \in Nat
    BY <2>3, FS_CardinalityType
  <2>5. rank[i] = Cardinality(A)
    OBVIOUS
  <2> HIDE DEF A, rank, n
  <2> QED BY <1>1, <2>3, <2>4, <2>5
<1>3. \A i, m \in S : rank[i] = rank[m] => i = m
  <2> SUFFICES ASSUME NEW i \in S, NEW m \in S, i < m PROVE rank[i] # rank[m]
    <3>1. \A i, m \in S : i < m \/ m < i \/ i = m
      BY DEF Positions
    <3> HIDE DEF rank
    <3> QED BY <3>1
  <2>1. /\ Cardinality({j \in S : j < i}) \in Nat /\ Cardinality({j \in S : j < m}) \in Nat
        /\ Cardinality({j \in S : j < i}) < Cardinality({j \in S : j < m})
    BY RankGrows
  <2>2. rank[i] = Cardinality({j \in S : j < i}) /\ rank[m] = Cardinality({j \in S : j < m})
    OBVIOUS
  <2> HIDE DEF rank
  <2> QED BY <2>1, <2>2
<1>4. rank \in Injection(S, 0..(n - 1))
  <2>1. rank \in [S -> 0..(n - 1)]
    BY <1>2
  <2> HIDE DEF rank, n
  <2> QED BY <1>3, <2>1 DEF Injection, IsInjective
<1>5. IsFiniteSet(0..(n - 1)) /\ Cardinality(0..(n - 1)) = n
  <2> HIDE DEF n
  <2>1. IsFiniteSet(0..(n - 1))
        /\ Cardinality(0..(n - 1)) = IF 0 > n - 1 THEN 0 ELSE n - 1 - 0 + 1
    BY <1>1, FS_Interval
  <2> QED BY <1>1, <2>1
<1>6. rank \in Surjection(S, 0..(n - 1))
  BY <1>4, <1>5, FS_Injection
<1>7. k - 1 \in 0..(n - 1)
  BY <1>1
<1>8. \E i \in S : rank[i] = k - 1
  <2> HIDE DEF rank, n
  <2> QED BY <1>6, <1>7 DEF Surjection
<1> QED BY <1>8

\* InOrder lists a finite set of positions without repetitions.
LEMMA InOrderFacts ==
  ASSUME NEW S \in SUBSET Positions, IsFiniteSet(S)
  PROVE  InOrder(S) \in Seq(S) /\ Once(InOrder(S))
<1> DEFINE n == Cardinality(S)
           Ranked(k) == CHOOSE i \in S : Cardinality({j \in S : j < i}) = k - 1
<1>1. n \in Nat
  BY FS_CardinalityType
<1>2. \A k \in 1..n : Ranked(k) \in S /\ Cardinality({j \in S : j < Ranked(k)}) = k - 1
  BY RanksTaken
<1>3. InOrder(S) = [k \in 1..n |-> Ranked(k)]
  BY DEF InOrder
<1> HIDE DEF n, Ranked
<1>4. InOrder(S) \in Seq(S) /\ DOMAIN InOrder(S) = 1..n
  <2>1. InOrder(S) \in [1..n -> S]
    BY <1>2, <1>3
  <2> QED BY <1>1, <2>1
<1>5. \A i, j \in 1..n : Ranked(i) = Ranked(j) => i = j
  <2> SUFFICES ASSUME NEW i \in 1..n, NEW j \in 1..n, Ranked(i) = Ranked(j) PROVE i = j
    OBVIOUS
  <2>1. i - 1 = j - 1
    BY <1>2
  <2> QED BY <1>1, <2>1
<1> QED BY <1>3, <1>4, <1>5 DEF Once

\* Executing a set of calls that were not executed keeps the history free of
\* repetitions.
LEMMA OnceAppended ==
  ASSUME NEW r \in Seq(Positions), Once(r),
         NEW S \in SUBSET Positions, IsFiniteSet(S),
         \A k \in DOMAIN r : r[k] \notin S
  PROVE  /\ r \o InOrder(S) \in Seq(Positions)
         /\ Once(r \o InOrder(S))
         /\ \A k \in DOMAIN (r \o InOrder(S)) :
              \/ (r \o InOrder(S))[k] \in S
              \/ \E j \in DOMAIN r : (r \o InOrder(S))[k] = r[j]
<1>1. PICK t : t = InOrder(S) /\ t \in Seq(S) /\ Once(t)
  BY InOrderFacts
<1>2. t \in Seq(Positions)
  BY <1>1, SeqMonotonic
<1>3. PICK u : u = r \o t
  OBVIOUS
<1>4. /\ u \in Seq(Positions) /\ Len(u) = Len(r) + Len(t)
      /\ \A i \in 1..(Len(r) + Len(t)) :
           u[i] = IF i <= Len(r) THEN r[i] ELSE t[i - Len(r)]
  BY <1>2, <1>3, ConcatProperties
<1>5. /\ Len(r) \in Nat /\ Len(t) \in Nat /\ DOMAIN u = 1..(Len(r) + Len(t))
      /\ DOMAIN r = 1..Len(r) /\ DOMAIN t = 1..Len(t)
      /\ \A i \in 1..Len(t) : t[i] \in S
  BY <1>1, <1>2, <1>4, LenProperties, ElementOfSeq
<1>6. \A i \in DOMAIN u : \/ i \in DOMAIN r /\ u[i] = r[i]
                          \/ /\ i > Len(r) /\ i - Len(r) \in DOMAIN t
                             /\ u[i] = t[i - Len(r)] /\ u[i] \in S
  <2> TAKE i \in DOMAIN u
  <2>1. CASE i <= Len(r)
    BY <1>4, <1>5, <2>1
  <2>2. CASE ~(i <= Len(r))
    <3>1. i - Len(r) \in 1..Len(t)
      BY <1>5, <2>2
    <3> QED BY <1>4, <1>5, <2>2, <3>1
  <2> QED BY <2>1, <2>2
<1>7. Once(u)
  <2> SUFFICES ASSUME NEW i \in DOMAIN u, NEW j \in DOMAIN u, u[i] = u[j] PROVE i = j
    BY DEF Once
  <2>1. CASE i \in DOMAIN r /\ u[i] = r[i]
    BY <1>6, <2>1 DEF Once
  <2>2. CASE i > Len(r) /\ i - Len(r) \in DOMAIN t /\ u[i] = t[i - Len(r)] /\ u[i] \in S
    <3>1. j > Len(r) /\ j - Len(r) \in DOMAIN t /\ u[j] = t[j - Len(r)]
      BY <1>6, <2>2
    <3>2. i - Len(r) = j - Len(r)
      BY <1>1, <2>2, <3>1 DEF Once
    <3> QED BY <1>5, <3>2
  <2> QED BY <1>6, <2>1, <2>2
<1> QED BY <1>1, <1>3, <1>4, <1>6, <1>7

-----------------------------------------------------------------------------
(* The output                                                              *)

\* Marking changes statuses only.
LEMMA MarkFacts ==
  ASSUME NEW out \in Seq(Items), NEW S, NEW status \in Statuses
  PROVE  /\ Mark(out, S, status) \in Seq(Items)
         /\ Len(Mark(out, S, status)) = Len(out)
         /\ \A i \in 1..Len(out) :
              /\ Mark(out, S, status)[i].kind = out[i].kind
              /\ Mark(out, S, status)[i].status =
                   IF i \in S THEN status ELSE out[i].status
<1>1. Len(out) \in Nat /\ DOMAIN out = 1..Len(out) /\ \A i \in 1..Len(out) : out[i] \in Items
  BY LenProperties, ElementOfSeq
<1>2. ASSUME NEW i \in 1..Len(out)
      PROVE  /\ [out[i] EXCEPT !.status = status] \in Items
             /\ [out[i] EXCEPT !.status = status].kind = out[i].kind
             /\ [out[i] EXCEPT !.status = status].status = status
  BY <1>1 DEF Items
<1>3. PICK t : t = Mark(out, S, status)
  OBVIOUS
<1>4. t = [i \in 1..Len(out) |-> IF i \in S THEN [out[i] EXCEPT !.status = status] ELSE out[i]]
  BY <1>1, <1>3 DEF Mark
<1>5. \A i \in 1..Len(out) : t[i] \in Items
  BY <1>1, <1>2, <1>4
<1>6. t \in [1..Len(out) -> Items]
  BY <1>4, <1>5
<1>7. t \in Seq(Items) /\ Len(t) = Len(out)
  BY <1>1, <1>6
<1>8. \A i \in 1..Len(out) :
        t[i].kind = out[i].kind /\ t[i].status = IF i \in S THEN status ELSE out[i].status
  BY <1>2, <1>4
<1> QED BY <1>3, <1>7, <1>8

\* Appending keeps what is there.
LEMMA AppendFacts ==
  ASSUME NEW out \in Seq(Items), NEW n \in Nat, NEW more \in [1..n -> Items]
  PROVE  /\ out \o more \in Seq(Items)
         /\ Len(out \o more) = Len(out) + n
         /\ \A i \in 1..Len(out) : (out \o more)[i] = out[i]
         /\ \A i \in 1..n : (out \o more)[Len(out) + i] = more[i]
<1>1. more \in Seq(Items) /\ Len(more) = n
  OBVIOUS
<1>2. Len(out) \in Nat
  BY LenProperties
<1>3. PICK u : u = out \o more
  OBVIOUS
<1>4. /\ u \in Seq(Items) /\ Len(u) = Len(out) + n
      /\ \A i \in 1..(Len(out) + n) :
           u[i] = IF i <= Len(out) THEN out[i] ELSE more[i - Len(out)]
  BY <1>1, <1>3, ConcatProperties
<1>5. \A i \in 1..Len(out) : u[i] = out[i]
  BY <1>2, <1>4
<1>6. \A i \in 1..n : u[Len(out) + i] = more[i]
  <2> TAKE i \in 1..n
  <2>1. /\ Len(out) + i \in 1..(Len(out) + n) /\ ~(Len(out) + i <= Len(out))
        /\ (Len(out) + i) - Len(out) = i
    BY <1>2
  <2> QED BY <1>4, <2>1
<1> QED BY <1>3, <1>4, <1>5, <1>6

\* t's output is st's, with other statuses and perhaps more items.
Grown(st, t) ==
  /\ Len(st.out) <= Len(t.out)
  /\ \A i \in 1..Len(st.out) : Kind(t, i) = Kind(st, i)

\* The output of a state and its positions.
LEMMA OutFacts ==
  ASSUME NEW st \in States
  PROVE  /\ st.out \in Seq(Items) /\ Len(st.out) \in Nat /\ DOMAIN st.out = 1..Len(st.out)
         /\ \A i \in 1..Len(st.out) : Kind(st, i) \in Kinds /\ st.out[i].status \in Statuses
<1>1. st.out \in Seq(Items)
  BY DEF States
<1>2. \A i \in 1..Len(st.out) : st.out[i] \in Items
  BY <1>1, ElementOfSeq
<1> QED BY <1>1, <1>2, LenProperties DEF Items, Kind

\* What the budget charges before a position depends on earlier kinds only.
LEMMA WithinGrown ==
  ASSUME NEW st \in States, NEW t \in States, Grown(st, t),
         NEW i \in Positions, i <= Len(st.out) + 1, NEW b
  PROVE  Within(b, st, i) <=> Within(b, t, i)
<1>1. Len(st.out) \in Nat /\ i \in Nat
  BY OutFacts DEF Positions
<1>2. \A j \in 1..(i - 1) : j \in 1..Len(st.out)
  BY <1>1
<1>3. Charged(st, i) = Charged(t, i)
  BY <1>2 DEF Charged, Grown
<1> QED BY <1>3 DEF Within

\* Admission in model output order is room in the budget for the call's position.
LEMMA AdmittedWithin ==
  ASSUME NEW st \in States, st.start <= Len(st.out) + 1,
         \A i \in Pending(st) : st.start <= i,
         NEW i \in Positions, st.start <= i, i <= Len(st.out), Admitted(st, i)
  PROVE  Within(req.budget, st, i)
<1> DEFINE old == {j \in 1..(st.start - 1) : Kind(st, j) \in Builtin}
           new == {j \in st.start..(i - 1) : Kind(st, j) \in Builtin}
<1>1. /\ Len(st.out) \in Nat /\ DOMAIN st.out = 1..Len(st.out)
      /\ st.start \in Nat /\ st.start > 0 /\ i \in Nat /\ i > 0
  BY OutFacts DEF Positions, States
<1>2. Consumed(st) = Cardinality(old)
  <2>1. ASSUME NEW j \in 1..(st.start - 1) PROVE st.out[j].status # "pending"
    <3>1. j \in DOMAIN st.out /\ ~(st.start <= j)
      BY <1>1
    <3> QED BY <3>1 DEF Pending
  <2>2. old = {j \in 1..(st.start - 1) :
                 /\ Kind(st, j) \in Builtin
                 /\ ~(Kind(st, j) = "file" /\ st.out[j].status = "pending")}
    BY <2>1
  <2> QED BY <2>2 DEF Consumed
<1>3. Charged(st, i) = old \cup new /\ old \cap new = {}
  <2>1. \A j \in 1..(i - 1) : j \in 1..(st.start - 1) \/ j \in st.start..(i - 1)
    BY <1>1
  <2>2. /\ \A j \in 1..(st.start - 1) : j \in 1..(i - 1) /\ j \notin st.start..(i - 1)
        /\ \A j \in st.start..(i - 1) : j \in 1..(i - 1)
    BY <1>1
  <2> QED BY <2>1, <2>2 DEF Charged
<1>4. IsFiniteSet(old) /\ IsFiniteSet(new)
  <2>1. /\ \A j \in old : j \in Positions /\ j <= Len(st.out)
        /\ \A j \in new : j \in Positions /\ j <= Len(st.out)
    BY <1>1 DEF Positions
  <2> HIDE DEF old, new
  <2> QED BY <1>1, <2>1, FinitePositions
<1>5. Cardinality(old) \in Nat /\ Cardinality(new) \in Nat
  BY <1>4, FS_CardinalityType
<1>6. Cardinality(old \cup new) = Cardinality(old) + Cardinality(new)
  <2> HIDE DEF old, new
  <2>1. Cardinality(old \cup new)
          = Cardinality(old) + Cardinality(new) - Cardinality(old \cap new)
    BY <1>4, FS_Union
  <2>2. Cardinality(old \cap new) = 0
    BY <1>3, FS_EmptySet
  <2> QED BY <1>5, <2>1, <2>2
<1>7. req.budget = NoLimit \/ Consumed(st) + Cardinality(new) < req.budget
  BY DEF Admitted
<1> HIDE DEF old, new
<1> QED BY <1>2, <1>3, <1>6, <1>7 DEF Within

\* Of the built-in calls with room in the budget there are at most as many as it
\* allows.
LEMMA RanWithin ==
  ASSUME LoopTypes, RanKnown
  PROVE  BudgetRespected
<1> SUFFICES ASSUME req.budget # NoLimit
             PROVE  Cardinality({k \in DOMAIN ran : Kind(s, ran[k]) \in Builtin}) <= req.budget
  BY DEF BudgetRespected
<1> DEFINE X == {k \in DOMAIN ran : Kind(s, ran[k]) \in Builtin}
           B == {j \in 1..Len(s.out) : Kind(s, j) \in Builtin}
           f == [k \in X |-> Cardinality({j \in B : j < ran[k]})]
           n == req.budget
<1>1. n \in Nat
  BY LoopAssumption DEF LoopTypes
<1>2. /\ s \in States /\ Len(s.out) \in Nat
      /\ \A k \in DOMAIN ran : ran[k] \in Positions /\ ran[k] <= Len(s.out)
  BY OutFacts, LenProperties, ElementOfSeq DEF LoopTypes, RanKnown, History
<1>3. B \in SUBSET Positions /\ IsFiniteSet(B)
  <2>1. \A j \in B : j \in Positions /\ j <= Len(s.out)
    BY <1>2 DEF Positions
  <2> HIDE DEF B
  <2> QED BY <1>2, <2>1, FinitePositions
<1>4. \A k \in X : ran[k] \in B
  BY <1>2 DEF Positions
<1>5. \A k \in X : f[k] \in 0..(n - 1)
  <2> TAKE k \in X
  <2>1. Cardinality(Charged(s, ran[k])) < n
    BY DEF RanKnown, History, Within
  <2>2. Charged(s, ran[k]) = {j \in B : j < ran[k]}
    <3>1. ran[k] \in Nat /\ ran[k] <= Len(s.out)
      BY <1>2 DEF Positions
    <3>2. \A j : j \in 1..(ran[k] - 1) <=> j \in 1..Len(s.out) /\ j < ran[k]
      BY <1>2, <3>1
    <3> QED BY <3>2 DEF Charged
  <2>3. Charged(s, ran[k]) \in SUBSET B
    BY <2>2
  <2>4. Cardinality(Charged(s, ran[k])) \in Nat
    <3> HIDE DEF B
    <3>1. IsFiniteSet(Charged(s, ran[k]))
      BY <1>3, <2>3, FS_Subset
    <3> QED BY <3>1, FS_CardinalityType
  <2>5. f[k] = Cardinality(Charged(s, ran[k]))
    BY <2>2
  <2> HIDE DEF f, n
  <2> QED BY <1>1, <2>1, <2>4, <2>5
<1>6. \A k, m \in X : f[k] = f[m] => k = m
  <2> SUFFICES ASSUME NEW k \in X, NEW m \in X, ran[k] < ran[m] PROVE f[k] # f[m]
    <3>1. \A k, m \in X : ran[k] < ran[m] \/ ran[m] < ran[k] \/ ran[k] = ran[m]
      BY <1>2 DEF Positions
    <3>2. \A k, m \in X : ran[k] = ran[m] => k = m
      BY DEF RanKnown, History, Once
    <3> HIDE DEF f, X
    <3> QED BY <3>1, <3>2
  <2>1. ran[k] \in B /\ ran[m] \in Positions
    BY <1>2, <1>4
  <2>2. f[k] = Cardinality({j \in B : j < ran[k]}) /\ f[m] = Cardinality({j \in B : j < ran[m]})
    OBVIOUS
  <2> HIDE DEF f, B, X
  <2>3. /\ Cardinality({j \in B : j < ran[k]}) \in Nat
        /\ Cardinality({j \in B : j < ran[m]}) \in Nat
        /\ Cardinality({j \in B : j < ran[k]}) < Cardinality({j \in B : j < ran[m]})
    BY <1>3, <2>1, RankGrows
  <2> QED BY <2>2, <2>3
<1>7. f \in Injection(X, 0..(n - 1))
  <2>1. f \in [X -> 0..(n - 1)]
    BY <1>5
  <2> HIDE DEF f, X, n
  <2> QED BY <1>6, <2>1 DEF Injection, IsInjective
<1>8. IsFiniteSet(0..(n - 1)) /\ Cardinality(0..(n - 1)) = n
  <2> HIDE DEF n
  <2>1. IsFiniteSet(0..(n - 1))
        /\ Cardinality(0..(n - 1)) = IF 0 > n - 1 THEN 0 ELSE n - 1 - 0 + 1
    BY <1>1, FS_Interval
  <2> QED BY <1>1, <2>1
<1>9. Cardinality(X) <= n
  <2> HIDE DEF f, X, n
  <2> QED BY <1>7, <1>8, FS_Injection
<1> QED BY <1>9

-----------------------------------------------------------------------------
(* What the dispatchers make of the state                                  *)

\* The fields of a state.
LEMMA StateFields ==
  ASSUME NEW st \in States
  PROVE  /\ st.iteration \in Nat /\ st.start \in Positions /\ st.q \in Queues
         /\ st.called \subseteq Positions /\ st.answered \subseteq Positions
         /\ st.q.tool \subseteq Positions /\ st.q.web \subseteq Positions
         /\ st.q.tsearch \subseteq Positions /\ st.q.file \subseteq Positions
         /\ st.approval \in BOOLEAN /\ st.limit \in BOOLEAN /\ st.failure \in BOOLEAN
         /\ st.security \in BOOLEAN /\ st.deferred \in BOOLEAN
  BY DEF States, Queues

\* A round's calls are positions of the output, finitely many.
LEMMA QueueFinite ==
  ASSUME NEW st \in States, NEW S \in SUBSET Positions, NEW kind, InRound(st, S, kind)
  PROVE  /\ IsFiniteSet(S) /\ Cardinality(S) \in Nat
         /\ \A i \in S : i \in 1..Len(st.out)
<1>1. Len(st.out) \in Nat
  BY OutFacts
<1>2. \A i \in S : i \in Positions /\ i <= Len(st.out)
  BY DEF InRound
<1>3. \A i \in S : i \in 1..Len(st.out)
  BY <1>1, <1>2 DEF Positions
<1> QED BY <1>1, <1>2, <1>3, FinitePositions

\* What does not change kinds and length keeps a queue in its round.
LEMMA InRoundGrown ==
  ASSUME NEW st \in States, NEW t \in States, Grown(st, t), t.start = st.start,
         NEW S \in SUBSET Positions, NEW kind, InRound(st, S, kind)
  PROVE  InRound(t, S, kind)
<1>1. Len(st.out) \in Nat /\ Len(t.out) \in Nat
  BY OutFacts
<1>2. ASSUME NEW i \in S PROVE t.start <= i /\ i <= Len(t.out) /\ Kind(t, i) = kind
  <2>1. i \in 1..Len(st.out) /\ st.start <= i /\ Kind(st, i) = kind
    BY QueueFinite DEF InRound
  <2> QED BY <1>1, <2>1 DEF Grown
<1> QED BY <1>2 DEF InRound

\* A web search batch: every queued search is settled and answered.
LEMMA WebSearchedFacts ==
  ASSUME NEW st \in States, NEW partial, NEW t, t = WebSearched(st, partial)
  PROVE  /\ t \in States /\ Len(t.out) = Len(st.out) /\ Grown(st, t)
         /\ t.start = st.start /\ t.iteration = st.iteration
         /\ t.called = st.called \cup st.q.web /\ t.answered = st.answered \cup st.q.web
         /\ t.q.web = {} /\ t.q.tool = st.q.tool /\ t.q.file = st.q.file
         /\ t.q.tsearch = st.q.tsearch
         /\ t.approval = st.approval /\ t.failure = st.failure
         /\ t.security = st.security /\ t.deferred = st.deferred
         /\ Pending(t) \subseteq Pending(st) \ st.q.web
<1>1. PICK refused : refused = {i \in st.q.web : ~Admitted(st, i)}
  OBVIOUS
<1>2. PICK done : done = st.q.web \ (refused \cup partial)
  OBVIOUS
<1>3. PICK o1 : o1 = Mark(st.out, refused, "failed")
  OBVIOUS
<1>4. PICK o2 : o2 = Mark(o1, partial, "incomplete")
  OBVIOUS
<1>5. PICK o3 : o3 = Mark(o2, done, "completed")
  OBVIOUS
<1>6. PICK p : p = [st.q EXCEPT !.web = {}]
  OBVIOUS
<1>7. t = [st EXCEPT !.called = @ \cup st.q.web, !.answered = @ \cup st.q.web,
                     !.out = o3, !.q = p, !.limit = @ \/ refused # {}]
  BY <1>1, <1>2, <1>3, <1>4, <1>5, <1>6 DEF WebSearched, Bridged, States
<1>8. /\ st.out \in Seq(Items) /\ Len(st.out) \in Nat
      /\ "failed" \in Statuses /\ "incomplete" \in Statuses /\ "completed" \in Statuses
  BY OutFacts DEF Statuses
<1>9. /\ o1 \in Seq(Items) /\ Len(o1) = Len(st.out)
      /\ \A i \in 1..Len(st.out) :
           o1[i].kind = st.out[i].kind
           /\ o1[i].status = IF i \in refused THEN "failed" ELSE st.out[i].status
  BY <1>3, <1>8, MarkFacts
<1>10. /\ o2 \in Seq(Items) /\ Len(o2) = Len(st.out)
       /\ \A i \in 1..Len(st.out) :
            o2[i].kind = st.out[i].kind
            /\ o2[i].status = IF i \in partial THEN "incomplete" ELSE o1[i].status
  BY <1>4, <1>8, <1>9, MarkFacts
<1>11. /\ o3 \in Seq(Items) /\ Len(o3) = Len(st.out)
       /\ \A i \in 1..Len(st.out) :
            o3[i].kind = st.out[i].kind
            /\ o3[i].status = IF i \in done THEN "completed" ELSE o2[i].status
  BY <1>5, <1>8, <1>10, MarkFacts
<1>12. /\ p \in Queues /\ p.web = {} /\ p.tool = st.q.tool /\ p.file = st.q.file
       /\ p.tsearch = st.q.tsearch
  BY <1>6, StateFields DEF Queues
<1>13. /\ st.called \cup st.q.web \in SUBSET Positions
       /\ st.answered \cup st.q.web \in SUBSET Positions
       /\ (st.limit \/ refused # {}) \in BOOLEAN
  BY StateFields
<1>14. t \in States
  BY <1>7, <1>11, <1>12, <1>13 DEF States
<1>15. /\ t.out = o3 /\ t.q = p /\ t.start = st.start /\ t.iteration = st.iteration
       /\ t.called = st.called \cup st.q.web /\ t.answered = st.answered \cup st.q.web
       /\ t.approval = st.approval /\ t.failure = st.failure
       /\ t.security = st.security /\ t.deferred = st.deferred
  BY <1>7 DEF States
<1>16. Grown(st, t)
  BY <1>8, <1>11, <1>15 DEF Grown, Kind
<1>17. ASSUME NEW i \in Pending(t) PROVE i \in Pending(st) /\ i \notin st.q.web
  <2>1. i \in 1..Len(st.out) /\ o3[i].status = "pending"
    BY <1>11, <1>15, LenProperties DEF Pending
  <2>2. i \notin done /\ o2[i].status = "pending"
    BY <1>11, <2>1
  <2>3. i \notin partial /\ o1[i].status = "pending"
    BY <1>10, <2>1, <2>2
  <2>4. i \notin refused /\ st.out[i].status = "pending"
    BY <1>9, <2>1, <2>3
  <2> QED BY <1>2, <1>8, <2>1, <2>2, <2>3, <2>4, LenProperties DEF Pending
<1> QED BY <1>11, <1>12, <1>14, <1>15, <1>16, <1>17

\* The MCP results: every queued call is answered.
LEMMA McpAnsweredFacts ==
  ASSUME NEW st \in States, InRound(st, st.q.tool, "mcp"), NEW t, t = McpAnswered(st)
  PROVE  /\ t \in States /\ Grown(st, t)
         /\ t.start = st.start /\ t.iteration = st.iteration
         /\ t.called = st.called /\ t.answered = st.answered \cup st.q.tool
         /\ t.q.web = st.q.web /\ t.q.tool = {} /\ t.q.file = st.q.file
         /\ t.q.tsearch = st.q.tsearch
         /\ t.approval = st.approval /\ t.failure = st.failure
         /\ t.security = st.security
         /\ Pending(t) = Pending(st)
         /\ OfKind(t, "gated") = OfKind(st, "gated")
         /\ OfKind(t, "approval") = OfKind(st, "approval")
<1>1. McpCalls(st) = st.q.tool
  BY DEF McpCalls, Of, InRound
<1>2. IsFiniteSet(st.q.tool) /\ Cardinality(st.q.tool) \in Nat
  BY StateFields, QueueFinite
<1>3. PICK n \in Nat : n = Cardinality(st.q.tool)
  BY <1>2
<1>4. PICK result : result = [kind |-> "result", status |-> "completed"]
  OBVIOUS
<1>5. PICK more : more = [k \in 1..n |-> result]
  OBVIOUS
<1>6. PICK p : p = [st.q EXCEPT !.tool = {}]
  OBVIOUS
<1>7. PICK o : o = st.out \o more
  OBVIOUS
<1>8. t = [st EXCEPT !.out = o, !.answered = @ \cup st.q.tool, !.q = p]
  <2>1. st.q.tool \ st.q.tool = {}
    OBVIOUS
  <2> QED BY <1>1, <1>3, <1>4, <1>5, <1>6, <1>7, <2>1 DEF McpAnswered, States
<1>9. result \in Items /\ more \in [1..n -> Items]
  BY <1>4, <1>5 DEF Items, Kinds, Statuses
<1>10. st.out \in Seq(Items) /\ Len(st.out) \in Nat /\ DOMAIN st.out = 1..Len(st.out)
  BY OutFacts
<1>11. /\ o \in Seq(Items) /\ Len(o) = Len(st.out) + n
       /\ \A i \in 1..Len(st.out) : o[i] = st.out[i]
       /\ \A i \in 1..n : o[Len(st.out) + i] = result
  BY <1>5, <1>7, <1>9, <1>10, AppendFacts
<1>12. /\ p \in Queues /\ p.tool = {} /\ p.web = st.q.web /\ p.file = st.q.file
       /\ p.tsearch = st.q.tsearch
  BY <1>6, StateFields DEF Queues
<1>13. st.answered \cup st.q.tool \in SUBSET Positions
  BY StateFields
<1>14. t \in States
  BY <1>8, <1>11, <1>12, <1>13 DEF States
<1>15. /\ t.out = o /\ t.q = p /\ t.start = st.start /\ t.iteration = st.iteration
       /\ t.called = st.called /\ t.answered = st.answered \cup st.q.tool
       /\ t.approval = st.approval /\ t.failure = st.failure /\ t.security = st.security
  BY <1>8 DEF States
<1>16. Grown(st, t)
  BY <1>10, <1>11, <1>15 DEF Grown, Kind
<1>17. \A i \in DOMAIN t.out : i \in DOMAIN st.out \/ t.out[i] = result
  <2> TAKE i \in DOMAIN t.out
  <2>1. i \in 1..(Len(st.out) + n)
    BY <1>11, <1>15, LenProperties
  <2>2. CASE i <= Len(st.out)
    BY <1>10, <2>1, <2>2
  <2>3. CASE ~(i <= Len(st.out))
    <3>1. i - Len(st.out) \in 1..n /\ Len(st.out) + (i - Len(st.out)) = i
      BY <1>10, <2>1, <2>3
    <3> QED BY <1>11, <1>15, <3>1
  <2> QED BY <2>2, <2>3
<1>18. \A i \in DOMAIN st.out : i \in DOMAIN t.out /\ t.out[i] = st.out[i]
  <2>1. DOMAIN t.out = 1..(Len(st.out) + n)
    BY <1>11, <1>15, LenProperties
  <2> QED BY <1>10, <1>11, <1>15, <2>1
<1>19. /\ Pending(t) = Pending(st) /\ OfKind(t, "gated") = OfKind(st, "gated")
       /\ OfKind(t, "approval") = OfKind(st, "approval")
  BY <1>4, <1>17, <1>18 DEF Pending, OfKind, Kind
<1> QED BY <1>12, <1>14, <1>15, <1>16, <1>19

\* Statuses do not matter for which items are of a kind.
LEMMA OfKindSame ==
  ASSUME NEW st \in States, NEW t \in States, Grown(st, t), Len(t.out) = Len(st.out), NEW kind
  PROVE  OfKind(t, kind) = OfKind(st, kind)
<1>1. DOMAIN t.out = 1..Len(st.out) /\ DOMAIN st.out = 1..Len(st.out)
  BY OutFacts
<1> QED BY <1>1 DEF OfKind, Grown

\* A file search batch: every queued search is settled, the planned ones answered.
LEMMA FileSearchedFacts ==
  ASSUME NEW st \in States, NEW partial \in SUBSET Planned(st),
         NEW t, t = FileSearched(st, partial)
  PROVE  /\ t \in States /\ Len(t.out) = Len(st.out) /\ Grown(st, t)
         /\ t.start = st.start /\ t.iteration = st.iteration
         /\ t.called = st.called \cup Planned(st) /\ t.answered = st.answered \cup Planned(st)
         /\ t.q.web = st.q.web /\ t.q.tool = st.q.tool /\ t.q.file = {}
         /\ t.q.tsearch = st.q.tsearch
         /\ t.approval = st.approval /\ t.failure = st.failure /\ t.security = st.security
         /\ Pending(t) \subseteq Pending(st) \ st.q.file
<1>1. Planned(st) \subseteq st.q.file /\ st.q.file \subseteq Positions
  BY StateFields DEF Planned
<1>2. PICK plan : plan = Planned(st)
  OBVIOUS
<1>3. PICK rest : rest = (st.q.file \ plan) \cup partial
  OBVIOUS
<1>4. PICK o1 : o1 = Mark(st.out, rest, "incomplete")
  OBVIOUS
<1>5. PICK done : done = plan \ partial
  OBVIOUS
<1>6. PICK o2 : o2 = Mark(o1, done, "completed")
  OBVIOUS
<1>7. PICK p : p = [st.q EXCEPT !.file = {}]
  OBVIOUS
<1>8. t = [st EXCEPT !.q = p, !.called = @ \cup plan, !.answered = @ \cup plan, !.out = o2]
  BY <1>2, <1>3, <1>4, <1>5, <1>6, <1>7 DEF FileSearched, Bridged, Drained, States
<1>9. /\ st.out \in Seq(Items) /\ Len(st.out) \in Nat
      /\ "incomplete" \in Statuses /\ "completed" \in Statuses
  BY OutFacts DEF Statuses
<1>10. /\ o1 \in Seq(Items) /\ Len(o1) = Len(st.out)
       /\ \A i \in 1..Len(st.out) :
            o1[i].kind = st.out[i].kind
            /\ o1[i].status = IF i \in rest THEN "incomplete" ELSE st.out[i].status
  BY <1>4, <1>9, MarkFacts
<1>11. /\ o2 \in Seq(Items) /\ Len(o2) = Len(st.out)
       /\ \A i \in 1..Len(st.out) :
            o2[i].kind = st.out[i].kind
            /\ o2[i].status = IF i \in done THEN "completed" ELSE o1[i].status
  BY <1>6, <1>9, <1>10, MarkFacts
<1>12. /\ p \in Queues /\ p.web = st.q.web /\ p.tool = st.q.tool /\ p.file = {}
       /\ p.tsearch = st.q.tsearch
  BY <1>7, StateFields DEF Queues
<1>13. /\ st.called \cup plan \in SUBSET Positions
       /\ st.answered \cup plan \in SUBSET Positions
  BY <1>1, <1>2, StateFields
<1>14. t \in States
  BY <1>8, <1>11, <1>12, <1>13 DEF States
<1>15. /\ t.out = o2 /\ t.q = p /\ t.start = st.start /\ t.iteration = st.iteration
       /\ t.called = st.called \cup plan /\ t.answered = st.answered \cup plan
       /\ t.approval = st.approval /\ t.failure = st.failure /\ t.security = st.security
  BY <1>8 DEF States
<1>16. Grown(st, t)
  BY <1>9, <1>11, <1>15 DEF Grown, Kind
<1>17. ASSUME NEW i \in Pending(t) PROVE i \in Pending(st) /\ i \notin st.q.file
  <2>1. i \in 1..Len(st.out) /\ o2[i].status = "pending"
    BY <1>11, <1>15, LenProperties DEF Pending
  <2>2. i \notin done /\ o1[i].status = "pending"
    BY <1>11, <2>1
  <2>3. i \notin rest /\ st.out[i].status = "pending"
    BY <1>10, <2>1, <2>2
  <2> QED BY <1>3, <1>5, <1>9, <2>1, <2>2, <2>3, LenProperties DEF Pending
<1> QED BY <1>2, <1>11, <1>12, <1>14, <1>15, <1>16, <1>17

\* Executing the calls of one queue extends the history.
LEMMA HistoryExtended ==
  ASSUME NEW st \in States, NEW r, NEW b, NEW kinds, History(r, st, b, kinds),
         NEW kind \in Executable \ kinds, NEW S \in SUBSET Positions,
         InRound(st, S, kind), kind \in Builtin => \A i \in S : Within(b, st, i)
  PROVE  History(r \o InOrder(S), st, b, kinds \cup {kind})
<1>1. IsFiniteSet(S)
  BY QueueFinite
<1>2. \A k \in DOMAIN r : r[k] \notin S
  BY DEF History, InRound
<1>3. PICK u : u = r \o InOrder(S)
  OBVIOUS
<1>4. /\ u \in Seq(Positions) /\ Once(u)
      /\ \A k \in DOMAIN u : u[k] \in S \/ \E j \in DOMAIN r : u[k] = r[j]
  BY <1>1, <1>2, <1>3, OnceAppended DEF History
<1>5. ASSUME NEW k \in DOMAIN u
      PROVE  /\ u[k] <= Len(st.out) /\ Kind(st, u[k]) \in Executable
             /\ st.start <= u[k] => Kind(st, u[k]) \in kinds \cup {kind}
             /\ Kind(st, u[k]) \in Builtin => Within(b, st, u[k])
  <2>1. CASE u[k] \in S
    BY <2>1 DEF InRound
  <2>2. CASE \E j \in DOMAIN r : u[k] = r[j]
    BY <2>2 DEF History
  <2> QED BY <1>4, <2>1, <2>2
<1> QED BY <1>3, <1>4, <1>5 DEF History

\* What keeps the kinds keeps the history; so does what begins a round.
LEMMA HistoryGrown ==
  ASSUME NEW st \in States, NEW t \in States, Grown(st, t), NEW b, NEW r,
         NEW kinds, NEW more, History(r, st, b, kinds),
         (t.start = st.start /\ kinds \subseteq more) \/ t.start > Len(st.out)
           \/ Executable \subseteq more
  PROVE  History(r, t, b, more)
<1>1. /\ Len(st.out) \in Nat /\ Len(t.out) \in Nat /\ t.start \in Nat
  BY OutFacts, StateFields DEF Positions
<1>2. ASSUME NEW k \in DOMAIN r
      PROVE  /\ r[k] <= Len(t.out) /\ Kind(t, r[k]) \in Executable
             /\ t.start <= r[k] => Kind(t, r[k]) \in more
             /\ Kind(t, r[k]) \in Builtin => Within(b, t, r[k])
  <2>1. /\ r[k] \in Positions /\ r[k] <= Len(st.out) /\ Kind(st, r[k]) \in Executable
        /\ st.start <= r[k] => Kind(st, r[k]) \in kinds
        /\ Kind(st, r[k]) \in Builtin => Within(b, st, r[k])
    <3>1. r \in Seq(Positions)
      BY DEF History
    <3>2. r[k] \in Positions
      BY <3>1, LenProperties, ElementOfSeq
    <3> QED BY <3>2 DEF History
  <2>2. r[k] \in Nat /\ r[k] \in 1..Len(st.out) /\ r[k] <= Len(st.out) + 1
    BY <1>1, <2>1 DEF Positions
  <2>3. Kind(t, r[k]) = Kind(st, r[k]) /\ r[k] <= Len(t.out)
    BY <1>1, <2>2 DEF Grown
  <2>4. Within(b, st, r[k]) <=> Within(b, t, r[k])
    BY <2>1, <2>2, WithinGrown
  <2>5. t.start <= r[k] => Kind(t, r[k]) \in more
    BY <1>1, <2>1, <2>2, <2>3
  <2> QED BY <2>1, <2>3, <2>4, <2>5
<1> QED BY <1>2 DEF History

-----------------------------------------------------------------------------
(* The dispatchers keep the invariant                                      *)

\* A step that ends the request with anything but success keeps the invariant.
LEMMA EndKeeps ==
  ASSUME LoopInv, s' \in States, s'.start <= Len(s'.out) + 1, req' = req, ran' = ran,
         pc' = "done", ended' \notin {"no", "completed"}, Grown(s, s')
  PROVE  LoopInv'
<1>1. LoopTypes'
  BY DEF LoopTypes, LoopInv
<1>2. QueuesKnown' /\ CallsQueued' /\ FilesWithin' /\ PendingQueued' /\ GatedAsked'
  BY DEF QueuesKnown, CallsQueued, FilesWithin, PendingQueued, GatedAsked, Dispatching
<1>3. RanKnown'
  <2>1. s \in States /\ History(ran, s, req.budget, Executed[pc])
    BY DEF LoopInv, LoopTypes, RanKnown
  <2>2. History(ran, s', req.budget, Executable)
    BY <2>1, HistoryGrown
  <2> QED BY <2>2 DEF RanKnown, Executed
<1> QED BY <1>1, <1>2, <1>3 DEF LoopInv

\* The web searches: of those the budget admits some are executed, and all are
\* settled, or the credential is missing and the request will end.
LEMMA WebGoesOn == ASSUME LoopInv, WebDispatch, pc' = "mcp" PROVE LoopInv'
<1>1. /\ pc = "web" /\ ended = "no" /\ pc' = "mcp" /\ req' = req /\ ended' = ended
  BY DEF WebDispatch, Finish
<1>2. /\ s \in States /\ s.start <= Len(s.out) + 1
      /\ req \in [stream : BOOLEAN, budget : Budgets, stored : BOOLEAN]
      /\ InRound(s, s.q.web, "web") /\ InRound(s, s.q.file, "file")
      /\ InRound(s, s.q.tsearch, "tsearch") /\ InRound(s, s.q.tool, "mcp")
  BY <1>1 DEF LoopInv, LoopTypes, QueuesKnown, Dispatching
<1>3. /\ Pending(s) \subseteq s.q.web \cup s.q.file
      /\ \A i \in Pending(s) : s.start <= i
      /\ s.approval \/ s.called \ s.answered \subseteq s.q.tool
      /\ \A i \in s.q.file : Within(req.budget, s, i)
  BY <1>1 DEF LoopInv, PendingQueued, CallsQueued, FilesWithin, Dispatching
<1>4. History(ran, s, req.budget, {})
  BY <1>1 DEF LoopInv, RanKnown, Executed
<1>5. PICK allowed : allowed = {i \in s.q.web : Admitted(s, i)}
  OBVIOUS
<1>6. /\ allowed \in SUBSET Positions /\ InRound(s, allowed, "web")
      /\ \A i \in allowed : Within(req.budget, s, i)
  <2>1. allowed \subseteq s.q.web /\ s.q.web \subseteq Positions
    BY <1>2, <1>5, StateFields
  <2>2. InRound(s, allowed, "web")
    BY <1>2, <2>1 DEF InRound
  <2>3. ASSUME NEW i \in allowed PROVE Within(req.budget, s, i)
    <3>1. i \in Positions /\ s.start <= i /\ i <= Len(s.out) /\ Admitted(s, i)
      BY <1>5, <2>1, <2>2 DEF InRound
    <3> QED BY <1>2, <1>3, <3>1, AdmittedWithin
  <2> QED BY <2>1, <2>2, <2>3
<1>7. ASSUME NEW some \in SUBSET allowed
      PROVE  History(ran \o InOrder(some), s, req.budget, {"web"})
  <2>1. "web" \in Executable \ {} /\ {} \cup {"web"} = {"web"}
    BY DEF Executable
  <2>2. /\ some \in SUBSET Positions /\ InRound(s, some, "web")
        /\ \A i \in some : Within(req.budget, s, i)
    BY <1>6 DEF InRound
  <2> QED BY <1>2, <1>4, <2>1, <2>2, HistoryExtended
<1>8. /\ s' \in States /\ Len(s'.out) = Len(s.out) /\ Grown(s, s') /\ s'.start = s.start
      /\ s'.q.web = {} /\ s'.q.tool = s.q.tool /\ s'.q.file = s.q.file
      /\ s'.q.tsearch = s.q.tsearch /\ s'.approval = s.approval
      /\ s'.called \ s'.answered \subseteq s.called \ s.answered
      /\ Pending(s') \subseteq Pending(s)
      /\ s'.security \/ Pending(s') \cap s.q.web = {}
      /\ History(ran', s, req.budget, {"web"})
  <2>1. CASE \E skipped \in SUBSET s.q.web, partial \in SUBSET allowed :
                /\ s' = WebSearched(s, skipped \cup partial)
                /\ ran' = ran \o InOrder(allowed \ skipped)
    <3>1. PICK skipped \in SUBSET s.q.web, partial \in SUBSET allowed :
                /\ s' = WebSearched(s, skipped \cup partial)
                /\ ran' = ran \o InOrder(allowed \ skipped)
      BY <2>1
    <3>2. /\ s' \in States /\ Len(s'.out) = Len(s.out) /\ Grown(s, s') /\ s'.start = s.start
          /\ s'.called = s.called \cup s.q.web /\ s'.answered = s.answered \cup s.q.web
          /\ s'.q.web = {} /\ s'.q.tool = s.q.tool /\ s'.q.file = s.q.file
          /\ s'.q.tsearch = s.q.tsearch /\ s'.approval = s.approval
          /\ Pending(s') \subseteq Pending(s) \ s.q.web
      BY <1>2, <3>1, WebSearchedFacts
    <3>3. History(ran', s, req.budget, {"web"})
      <4>1. PICK some \in SUBSET allowed : some = allowed \ skipped
        OBVIOUS
      <4> QED BY <1>7, <3>1, <4>1
    <3> QED BY <3>2, <3>3
  <2>2. CASE s' = [s EXCEPT !.security = TRUE, !.q.web = {}] /\ UNCHANGED ran
    <3>1. PICK p : p = [s.q EXCEPT !.web = {}]
      OBVIOUS
    <3>2. /\ p \in Queues /\ p.web = {} /\ p.tool = s.q.tool /\ p.file = s.q.file
          /\ p.tsearch = s.q.tsearch
      BY <1>2, <3>1, StateFields DEF Queues
    <3>3. s' = [s EXCEPT !.security = TRUE, !.q = p]
      BY <1>2, <2>2, <3>1 DEF States
    <3>4. /\ s' \in States /\ s'.out = s.out /\ s'.start = s.start /\ s'.q = p
          /\ s'.approval = s.approval /\ s'.called = s.called /\ s'.answered = s.answered
          /\ s'.security = TRUE
      BY <1>2, <3>2, <3>3 DEF States
    <3>5. Grown(s, s') /\ Pending(s') = Pending(s)
      BY <1>2, <3>4, OutFacts DEF Grown, Kind, Pending
    <3>6. Grown(s, s)
      BY <1>2, OutFacts DEF Grown
    <3>7. History(ran', s, req.budget, {"web"})
      <4>1. ran' = ran
        BY <2>2
      <4> QED BY <1>2, <1>4, <3>6, <4>1, HistoryGrown
    <3> QED BY <3>2, <3>4, <3>5, <3>7
  <2> QED BY <1>1, <1>5, <2>1, <2>2 DEF WebDispatch, Finish
<1>9. LoopTypes'
  BY <1>1, <1>2, <1>8 DEF LoopTypes, Dispatching
<1>10. QueuesKnown'
  <2>1. /\ InRound(s', s'.q.web, "web") /\ InRound(s', s'.q.file, "file")
        /\ InRound(s', s'.q.tsearch, "tsearch") /\ InRound(s', s'.q.tool, "mcp")
    <3>1. InRound(s', s'.q.web, "web")
      BY <1>8 DEF InRound
    <3> QED BY <1>2, <1>8, <3>1, StateFields, InRoundGrown
  <2> QED BY <1>1, <1>8, <2>1 DEF QueuesKnown
<1>11. RanKnown'
  <2>1. History(ran', s', req.budget, {"web"})
    BY <1>2, <1>8, HistoryGrown
  <2> QED BY <1>1, <2>1 DEF RanKnown, Executed
<1>12. PendingQueued'
  BY <1>1, <1>3, <1>8 DEF PendingQueued
<1>13. CallsQueued'
  BY <1>1, <1>3, <1>8 DEF CallsQueued
<1>14. GatedAsked'
  <2>1. OfKind(s', "gated") = OfKind(s, "gated") /\ OfKind(s', "approval") = OfKind(s, "approval")
    BY <1>2, <1>8, OfKindSame
  <2> QED BY <1>1, <1>8, <2>1 DEF GatedAsked, LoopInv
<1>15. FilesWithin'
  <2>1. ASSUME NEW i \in s'.q.file PROVE Within(req.budget, s', i)
    <3>1. i \in Positions /\ i \in 1..Len(s.out) /\ Within(req.budget, s, i)
      BY <1>2, <1>3, <1>8, StateFields, QueueFinite
    <3>2. i <= Len(s.out) + 1
      BY <1>2, <3>1, OutFacts
    <3> QED BY <1>2, <1>8, <3>1, <3>2, WithinGrown
  <2> QED BY <1>1, <2>1 DEF FilesWithin
<1> QED BY <1>9, <1>10, <1>11, <1>12, <1>13, <1>14, <1>15 DEF LoopInv

\* The web searches, or the preflight that refuses the request.
LEMMA WebKeeps == ASSUME LoopInv, WebDispatch PROVE LoopInv'
<1>1. CASE pc' = "mcp"
  BY <1>1, WebGoesOn
<1>2. CASE pc' # "mcp"
  <2>1. s' = s /\ ran' = ran /\ pc' = "done" /\ ended' = "error" /\ req' = req
    BY <1>2 DEF WebDispatch, Finish
  <2>2. s \in States /\ s.start <= Len(s.out) + 1
    BY DEF LoopInv, LoopTypes
  <2>3. Grown(s, s)
    BY <2>2, OutFacts DEF Grown
  <2> QED BY <2>1, <2>2, <2>3, EndKeeps
<1> QED BY <1>1, <1>2

\* The connectors a search asked for, and the MCP calls: calls are executed and
\* answered, or a failure is recorded and the request will end.
LEMMA McpKeeps == ASSUME LoopInv, McpDispatch PROVE LoopInv'
<1>1. pc = "mcp" /\ ended = "no" /\ req' = req
  BY DEF McpDispatch
<1>2. /\ s \in States /\ s.start <= Len(s.out) + 1
      /\ req \in [stream : BOOLEAN, budget : Budgets, stored : BOOLEAN]
      /\ InRound(s, s.q.file, "file") /\ s.q.web = {}
      /\ InRound(s, s.q.tsearch, "tsearch") /\ InRound(s, s.q.tool, "mcp")
  BY <1>1 DEF LoopInv, LoopTypes, QueuesKnown, Dispatching
<1>3. /\ s.security \/ Pending(s) \subseteq s.q.file
      /\ \A i \in Pending(s) : s.start <= i
      /\ s.approval \/ s.called \ s.answered \subseteq s.q.tool
      /\ \A i \in s.q.file : Within(req.budget, s, i)
  BY <1>1 DEF LoopInv, PendingQueued, CallsQueued, FilesWithin, Dispatching
<1>4. History(ran, s, req.budget, {"web"})
  BY <1>1 DEF LoopInv, RanKnown, Executed
<1>5. McpCalls(s) = s.q.tool
  BY <1>2 DEF McpCalls, Of, InRound
<1>6. PICK searches : searches = IF NeedsDiscovery(s) THEN {i \in s.q.tsearch : Admitted(s, i)}
                                 ELSE {}
  OBVIOUS
<1>7. PICK listed : listed = [s EXCEPT !.deferred = @ /\ ~NeedsDiscovery(s)]
  OBVIOUS
<1>8. Grown(s, s)
  BY <1>2, OutFacts DEF Grown
<1>9. CASE Finish("error") /\ UNCHANGED <<s, ran>>
  <2>1. s' = s /\ ran' = ran /\ pc' = "done" /\ ended' = "error"
    BY <1>9 DEF Finish
  <2> QED BY <1>1, <1>2, <1>8, <2>1, EndKeeps
<1>10. ASSUME pc' = "file", ended' = ended, s' \in States, Grown(s, s'), s'.start = s.start,
              s'.q.web = {}, s'.q.file = s.q.file, s'.q.tsearch = s.q.tsearch,
              s'.q.tool \subseteq s.q.tool, s'.approval = s.approval,
              s.security => s'.security,
              s'.approval \/ s'.security \/ s'.failure \/ s'.called \subseteq s'.answered,
              Pending(s') = Pending(s), OfKind(s', "gated") = OfKind(s, "gated"),
              OfKind(s', "approval") = OfKind(s, "approval"),
              History(ran', s, req.budget, {"web", "tsearch", "mcp"})
       PROVE  LoopInv'
  <2>1. LoopTypes'
    <3>1. s'.start <= Len(s'.out) + 1
      <4>1. Len(s.out) \in Nat /\ Len(s'.out) \in Nat /\ s.start \in Nat
        BY <1>2, <1>10, OutFacts, StateFields DEF Positions
      <4> QED BY <1>2, <1>10, <4>1 DEF Grown
    <3> QED BY <1>1, <1>2, <1>10, <3>1 DEF LoopTypes, Dispatching
  <2>2. QueuesKnown'
    <3>1. InRound(s', s'.q.web, "web")
      BY <1>10 DEF InRound
    <3>2. InRound(s', s'.q.file, "file") /\ InRound(s', s'.q.tsearch, "tsearch")
      BY <1>2, <1>10, StateFields, InRoundGrown
    <3>3. InRound(s', s.q.tool, "mcp")
      BY <1>2, <1>10, StateFields, InRoundGrown
    <3>4. InRound(s', s'.q.tool, "mcp")
      BY <1>10, <3>3 DEF InRound
    <3> QED BY <1>10, <3>1, <3>2, <3>4 DEF QueuesKnown
  <2>3. RanKnown'
    <3>1. History(ran', s', req.budget, {"web", "tsearch", "mcp"})
      BY <1>2, <1>10, HistoryGrown
    <3> QED BY <1>1, <1>10, <3>1 DEF RanKnown, Executed
  <2>4. PendingQueued' /\ CallsQueued'
    BY <1>1, <1>3, <1>10 DEF PendingQueued, CallsQueued
  <2>5. GatedAsked'
    BY <1>1, <1>10 DEF GatedAsked, LoopInv
  <2>6. FilesWithin'
    <3>1. ASSUME NEW i \in s'.q.file PROVE Within(req.budget, s', i)
      <4>1. i \in Positions /\ i \in 1..Len(s.out) /\ Within(req.budget, s, i)
        BY <1>2, <1>3, <1>10, StateFields, QueueFinite
      <4>2. i <= Len(s.out) + 1
        BY <1>2, <4>1, OutFacts
      <4> QED BY <1>2, <1>10, <4>1, <4>2, WithinGrown
    <3> QED BY <1>1, <3>1 DEF FilesWithin
  <2> QED BY <2>1, <2>2, <2>3, <2>4, <2>5, <2>6 DEF LoopInv
<1>11. CASE /\ s' = [s EXCEPT !.security = TRUE]
            /\ pc' = "file" /\ UNCHANGED <<ran, ended>>
  <2>1. /\ s' \in States /\ s'.out = s.out /\ s'.start = s.start /\ s'.q = s.q
        /\ s'.approval = s.approval /\ s'.security = TRUE
    BY <1>2, <1>11 DEF States
  <2>2. /\ Grown(s, s') /\ Pending(s') = Pending(s)
        /\ OfKind(s', "gated") = OfKind(s, "gated")
        /\ OfKind(s', "approval") = OfKind(s, "approval")
    BY <1>8, <2>1 DEF Grown, Kind, Pending, OfKind
  <2>3. History(ran', s, req.budget, {"web", "tsearch", "mcp"})
    <3>1. ran' = ran /\ {"web"} \subseteq {"web", "tsearch", "mcp"}
      BY <1>11
    <3> QED BY <1>2, <1>4, <1>8, <3>1, HistoryGrown
  <2> QED BY <1>2, <1>10, <1>11, <2>1, <2>2, <2>3
<1>12. /\ History(ran \o InOrder(searches), s, req.budget, {"web", "tsearch", "mcp"})
       /\ History(ran \o InOrder(searches) \o InOrder(McpCalls(s)), s, req.budget,
                  {"web", "tsearch", "mcp"})
  <2>1. searches \subseteq s.q.tsearch /\ \A i \in searches : Admitted(s, i)
    BY <1>6
  <2>2. searches \in SUBSET Positions /\ InRound(s, searches, "tsearch")
    BY <1>2, <2>1, StateFields DEF InRound
  <2>3. ASSUME NEW i \in searches PROVE Within(req.budget, s, i)
    <3>1. i \in Positions /\ s.start <= i /\ i <= Len(s.out) /\ Admitted(s, i)
      BY <2>1, <2>2 DEF InRound
    <3> QED BY <1>2, <1>3, <3>1, AdmittedWithin
  <2>4. /\ "tsearch" \in Executable \ {"web"} /\ "mcp" \in Executable \ {"web", "tsearch"}
        /\ "mcp" \notin Builtin
    BY DEF Executable, Builtin
  <2>5. History(ran \o InOrder(searches), s, req.budget, {"web"} \cup {"tsearch"})
    BY <1>2, <1>4, <2>2, <2>3, <2>4, HistoryExtended
  <2>6. {"web"} \cup {"tsearch"} = {"web", "tsearch"}
        /\ {"web", "tsearch"} \cup {"mcp"} = {"web", "tsearch", "mcp"}
    OBVIOUS
  <2>7. PICK r : r = ran \o InOrder(searches)
    OBVIOUS
  <2>8. History(r, s, req.budget, {"web", "tsearch"})
    BY <2>5, <2>6, <2>7
  <2>9. History(r \o InOrder(s.q.tool), s, req.budget, {"web", "tsearch"} \cup {"mcp"})
    BY <1>2, <2>4, <2>8, StateFields, HistoryExtended
  <2>10. History(r, s, req.budget, {"web", "tsearch", "mcp"})
    <3>1. {"web", "tsearch"} \subseteq {"web", "tsearch", "mcp"}
      OBVIOUS
    <3> QED BY <1>2, <1>8, <2>8, <3>1, HistoryGrown
  <2> QED BY <1>5, <2>6, <2>7, <2>9, <2>10
<1>13. /\ listed \in States /\ listed.out = s.out /\ listed.start = s.start /\ listed.q = s.q
       /\ listed.approval = s.approval /\ listed.security = s.security
       /\ listed.called = s.called /\ listed.answered = s.answered
  <2>1. (s.deferred /\ ~NeedsDiscovery(s)) \in BOOLEAN
    OBVIOUS
  <2> QED BY <1>2, <1>7, <2>1 DEF States
<1>14. /\ Grown(s, listed) /\ Pending(listed) = Pending(s)
       /\ OfKind(listed, "gated") = OfKind(s, "gated")
       /\ OfKind(listed, "approval") = OfKind(s, "approval")
  BY <1>8, <1>13 DEF Grown, Kind, Pending, OfKind
<1>15. CASE /\ ran' = ran \o InOrder(searches) \o InOrder(McpCalls(s))
            /\ s' = McpAnswered(listed)
            /\ pc' = "file" /\ UNCHANGED ended
  <2>1. InRound(listed, listed.q.tool, "mcp")
    BY <1>2, <1>13 DEF InRound, Kind
  <2>2. /\ s' \in States /\ Grown(listed, s') /\ s'.start = listed.start
        /\ s'.called = listed.called /\ s'.answered = listed.answered \cup listed.q.tool
        /\ s'.q.web = listed.q.web /\ s'.q.tool = {} /\ s'.q.file = listed.q.file
        /\ s'.q.tsearch = listed.q.tsearch
        /\ s'.approval = listed.approval /\ s'.security = listed.security
        /\ Pending(s') = Pending(listed)
        /\ OfKind(s', "gated") = OfKind(listed, "gated")
        /\ OfKind(s', "approval") = OfKind(listed, "approval")
    BY <1>13, <1>15, <2>1, McpAnsweredFacts
  <2>3. Grown(s, s')
    BY <1>13, <2>2 DEF Grown, Kind
  <2>4. s'.approval \/ s'.called \subseteq s'.answered
    BY <1>3, <1>13, <2>2
  <2> QED BY <1>2, <1>10, <1>12, <1>13, <1>14, <1>15, <2>2, <2>3, <2>4
<1>16. CASE /\ ran' = ran \o InOrder(searches)
            /\ s' = [listed EXCEPT !.failure = TRUE, !.q.tool = {}]
            /\ pc' = "file" /\ UNCHANGED ended
  <2>1. PICK p : p = [listed.q EXCEPT !.tool = {}]
    OBVIOUS
  <2>2. /\ p \in Queues /\ p.tool = {} /\ p.web = s.q.web /\ p.file = s.q.file
        /\ p.tsearch = s.q.tsearch
    BY <1>2, <1>13, <2>1, StateFields DEF Queues
  <2>3. s' = [listed EXCEPT !.failure = TRUE, !.q = p]
    BY <1>13, <1>16, <2>1 DEF States
  <2>4. /\ s' \in States /\ s'.out = s.out /\ s'.start = s.start /\ s'.q = p
        /\ s'.approval = s.approval /\ s'.security = s.security /\ s'.failure = TRUE
    BY <1>13, <2>2, <2>3 DEF States
  <2>5. /\ Grown(s, s') /\ Pending(s') = Pending(s)
        /\ OfKind(s', "gated") = OfKind(s, "gated")
        /\ OfKind(s', "approval") = OfKind(s, "approval")
    BY <1>8, <2>4 DEF Grown, Kind, Pending, OfKind
  <2> QED BY <1>2, <1>10, <1>12, <1>16, <2>2, <2>4, <2>5
<1> QED BY <1>6, <1>7, <1>9, <1>11, <1>15, <1>16 DEF McpDispatch

\* The file searches: the planned ones are executed and all are settled, or a
\* failure is recorded and the request will end.
LEMMA FileKeeps == ASSUME LoopInv, FileDispatch PROVE LoopInv'
<1>1. pc = "file" /\ ended = "no" /\ pc' = "owner" /\ req' = req /\ ended' = ended
  BY DEF FileDispatch
<1>2. /\ s \in States /\ s.start <= Len(s.out) + 1
      /\ req \in [stream : BOOLEAN, budget : Budgets, stored : BOOLEAN]
      /\ InRound(s, s.q.file, "file") /\ s.q.web = {}
  BY <1>1 DEF LoopInv, LoopTypes, QueuesKnown, Dispatching
<1>3. /\ s.security \/ Pending(s) \subseteq s.q.file
      /\ \A i \in Pending(s) : s.start <= i
      /\ s.approval \/ s.security \/ s.failure \/ s.called \subseteq s.answered
      /\ \A i \in s.q.file : Within(req.budget, s, i)
  BY <1>1 DEF LoopInv, PendingQueued, CallsQueued, FilesWithin, Dispatching
<1>4. History(ran, s, req.budget, {"web", "tsearch", "mcp"})
  BY <1>1 DEF LoopInv, RanKnown, Executed
<1>5. Grown(s, s)
  BY <1>2, OutFacts DEF Grown
<1>6. /\ Planned(s) \in SUBSET Positions /\ InRound(s, Planned(s), "file")
      /\ \A i \in Planned(s) : Within(req.budget, s, i)
  <2>1. Planned(s) \subseteq s.q.file
    BY DEF Planned
  <2> QED BY <1>2, <1>3, <2>1, StateFields DEF InRound
<1>7. /\ History(ran, s, req.budget, Executable)
      /\ History(ran \o InOrder(Planned(s)), s, req.budget, Executable)
  <2>1. /\ "file" \in Executable \ {"web", "tsearch", "mcp"}
        /\ {"web", "tsearch", "mcp"} \cup {"file"} = Executable
    BY DEF Executable
  <2>2. History(ran \o InOrder(Planned(s)), s, req.budget, {"web", "tsearch", "mcp"} \cup {"file"})
    BY <1>2, <1>4, <1>6, <2>1, HistoryExtended
  <2>3. History(ran, s, req.budget, Executable)
    BY <1>2, <1>4, <1>5, HistoryGrown
  <2> QED BY <2>1, <2>2, <2>3
<1>8. /\ s' \in States /\ Len(s'.out) = Len(s.out) /\ Grown(s, s') /\ s'.start = s.start
      /\ s'.q.web = {} /\ s'.q.file = {} /\ s'.approval = s.approval
      /\ s'.security \/ s'.failure \/
           (Pending(s') = {} /\ (s.approval \/ s'.called \subseteq s'.answered))
      /\ Pending(s') \subseteq Pending(s)
      /\ History(ran', s, req.budget, Executable)
  <2>1. PICK p : p = [s.q EXCEPT !.file = {}]
    OBVIOUS
  <2>2. p \in Queues /\ p.web = {} /\ p.file = {}
    BY <1>2, <2>1, StateFields DEF Queues
  <2>3. PICK d : d = Drained(s)
    OBVIOUS
  <2>4. d = [s EXCEPT !.q = p]
    BY <1>2, <2>1, <2>3 DEF Drained, States
  <2>5. /\ d \in States /\ d.out = s.out /\ d.start = s.start /\ d.q = p
        /\ d.approval = s.approval
    BY <1>2, <2>2, <2>4 DEF States
  <2>6. CASE s' = [Drained(s) EXCEPT !.security = TRUE] /\ UNCHANGED ran
    <3>1. s' = [d EXCEPT !.security = TRUE]
      BY <2>3, <2>6
    <3>2. /\ s' \in States /\ s'.out = s.out /\ s'.start = s.start /\ s'.q = p
          /\ s'.approval = s.approval /\ s'.security = TRUE
      BY <2>5, <3>1 DEF States
    <3>3. Grown(s, s') /\ Pending(s') = Pending(s)
      BY <1>5, <3>2 DEF Grown, Kind, Pending
    <3> QED BY <1>7, <2>2, <2>6, <3>2, <3>3
  <2>7. CASE s' = [Drained(s) EXCEPT !.failure = TRUE] /\ ran' = ran \o InOrder(Planned(s))
    <3>1. s' = [d EXCEPT !.failure = TRUE]
      BY <2>3, <2>7
    <3>2. /\ s' \in States /\ s'.out = s.out /\ s'.start = s.start /\ s'.q = p
          /\ s'.approval = s.approval /\ s'.failure = TRUE
      BY <2>5, <3>1 DEF States
    <3>3. Grown(s, s') /\ Pending(s') = Pending(s)
      BY <1>5, <3>2 DEF Grown, Kind, Pending
    <3> QED BY <1>7, <2>2, <2>7, <3>2, <3>3
  <2>8. ASSUME NEW partial \in SUBSET Planned(s), NEW fits \in BOOLEAN,
               s' = [FileSearched(s, partial) EXCEPT !.failure = @ \/ ~fits],
               ran' = ran \o InOrder(Planned(s))
        PROVE  /\ s' \in States /\ Len(s'.out) = Len(s.out) /\ Grown(s, s') /\ s'.start = s.start
               /\ s'.q.web = {} /\ s'.q.file = {} /\ s'.approval = s.approval
               /\ s'.security \/ s'.failure \/
                    (Pending(s') = {} /\ (s.approval \/ s'.called \subseteq s'.answered))
               /\ Pending(s') \subseteq Pending(s)
               /\ History(ran', s, req.budget, Executable)
    <3>1. PICK t : t = FileSearched(s, partial)
      OBVIOUS
    <3>2. /\ t \in States /\ Len(t.out) = Len(s.out) /\ Grown(s, t) /\ t.start = s.start
          /\ t.called = s.called \cup Planned(s) /\ t.answered = s.answered \cup Planned(s)
          /\ t.q.web = s.q.web /\ t.q.file = {}
          /\ t.approval = s.approval /\ t.failure = s.failure /\ t.security = s.security
          /\ Pending(t) \subseteq Pending(s) \ s.q.file
      BY <1>2, <3>1, FileSearchedFacts
    <3>3. (t.failure \/ ~fits) \in BOOLEAN /\ s' = [t EXCEPT !.failure = t.failure \/ ~fits]
      BY <2>8, <3>1, <3>2 DEF States
    <3>4. /\ s' \in States /\ s'.out = t.out /\ s'.start = t.start /\ s'.q = t.q
          /\ s'.approval = t.approval /\ s'.security = t.security
          /\ s'.called = t.called /\ s'.answered = t.answered
          /\ t.failure => s'.failure
      BY <3>2, <3>3 DEF States
    <3>5. Grown(s, s') /\ Pending(s') = Pending(t)
      BY <3>2, <3>4 DEF Grown, Kind, Pending
    <3>6. s'.security \/ Pending(s') = {}
      BY <1>3, <3>2, <3>4, <3>5
    <3>7. s'.security \/ s'.failure \/ s.approval \/ s'.called \subseteq s'.answered
      BY <1>3, <3>2, <3>4
    <3> QED BY <1>2, <1>7, <2>8, <3>2, <3>4, <3>5, <3>6, <3>7
  <2> QED BY <2>6, <2>7, <2>8 DEF FileDispatch
<1>9. LoopTypes'
  BY <1>1, <1>2, <1>8 DEF LoopTypes
<1>10. QueuesKnown' /\ FilesWithin'
  BY <1>1, <1>8 DEF QueuesKnown, FilesWithin, Dispatching
<1>11. RanKnown'
  <2>1. History(ran', s', req.budget, Executable)
    BY <1>2, <1>8, HistoryGrown
  <2> QED BY <1>1, <2>1 DEF RanKnown, Executed
<1>12. PendingQueued' /\ CallsQueued'
  BY <1>1, <1>3, <1>8 DEF PendingQueued, CallsQueued
<1>13. GatedAsked'
  <2>1. OfKind(s', "gated") = OfKind(s, "gated") /\ OfKind(s', "approval") = OfKind(s, "approval")
    BY <1>2, <1>8, OfKindSame
  <2> QED BY <1>1, <1>8, <2>1 DEF GatedAsked, LoopInv
<1> QED BY <1>9, <1>10, <1>11, <1>12, <1>13 DEF LoopInv

\* The owner's request half: the request ends, or the next inference request goes
\* out with nothing queued, nothing pending and every call answered.
LEMMA OwnerKeeps == ASSUME LoopInv, OwnerRequest PROVE LoopInv'
<1>1. pc = "owner" /\ ended = "no" /\ req' = req /\ ran' = ran
  BY DEF OwnerRequest
<1>2. /\ s \in States /\ s.start <= Len(s.out) + 1
      /\ req \in [stream : BOOLEAN, budget : Budgets, stored : BOOLEAN]
      /\ s.q.web = {} /\ s.q.file = {}
  BY <1>1 DEF LoopInv, LoopTypes, QueuesKnown
<1>3. /\ s.security \/ s.failure \/ Pending(s) = {}
      /\ s.approval \/ s.security \/ s.failure \/ s.called \subseteq s.answered
      /\ ~s.approval => OfKind(s, "gated") = {} /\ OfKind(s, "approval") = {}
      /\ Cardinality(OfKind(s, "gated")) = Cardinality(OfKind(s, "approval"))
  BY <1>1 DEF LoopInv, PendingQueued, CallsQueued, GatedAsked
<1>4. History(ran, s, req.budget, Executable)
  BY <1>1 DEF LoopInv, RanKnown, Executed
<1>5. NoQueues \in Queues
  BY DEF NoQueues, Queues
<1>6. s' = [s EXCEPT !.q = NoQueues]
  <2>1. CASE s' = [s EXCEPT !.q.tool = {}, !.q.tsearch = {}, !.q.web = {}]
    <3>1. PICK p : p = [s.q EXCEPT !.tool = {}, !.tsearch = {}, !.web = {}]
      OBVIOUS
    <3>2. p = NoQueues
      BY <1>2, <3>1, StateFields DEF Queues, NoQueues
    <3>3. s' = [s EXCEPT !.q = p]
      BY <1>2, <2>1, <3>1 DEF States
    <3> QED BY <3>2, <3>3
  <2> QED BY <2>1 DEF OwnerRequest
<1>7. /\ s' \in States /\ s'.out = s.out /\ s'.start = s.start /\ s'.q = NoQueues
      /\ s'.approval = s.approval /\ s'.called = s.called /\ s'.answered = s.answered
  BY <1>2, <1>5, <1>6 DEF States
<1>8. /\ Grown(s, s') /\ Pending(s') = Pending(s)
      /\ OfKind(s', "gated") = OfKind(s, "gated")
      /\ OfKind(s', "approval") = OfKind(s, "approval")
  BY <1>2, <1>7, OutFacts DEF Grown, Kind, Pending, OfKind
<1>9. History(ran', s', req.budget, Executable)
  BY <1>1, <1>2, <1>4, <1>7, <1>8, HistoryGrown
<1>10. CASE pc' = "done" /\ ended' \notin {"no", "completed"}
  BY <1>1, <1>2, <1>7, <1>8, <1>10, EndKeeps
<1>11. CASE pc' = "done" /\ ended' = "completed" /\ ~s.security /\ ~s.failure
  <2>1. LoopTypes' /\ QueuesKnown' /\ RanKnown' /\ FilesWithin'
    BY <1>1, <1>2, <1>7, <1>9, <1>11
       DEF LoopTypes, QueuesKnown, RanKnown, Executed, FilesWithin, Dispatching
  <2>2. PendingQueued' /\ CallsQueued' /\ GatedAsked'
    BY <1>3, <1>8, <1>11 DEF PendingQueued, CallsQueued, GatedAsked
  <2> QED BY <2>1, <2>2 DEF LoopInv
<1>12. CASE pc' = "model" /\ ended' = ended /\ ~s.security /\ ~s.failure /\ ~s.approval
  <2>1. LoopTypes' /\ RanKnown' /\ FilesWithin'
    BY <1>1, <1>2, <1>7, <1>9, <1>12 DEF LoopTypes, RanKnown, Executed, FilesWithin, Dispatching
  <2>2. QueuesKnown'
    BY <1>7, <1>12 DEF QueuesKnown, NoQueues, Dispatching
  <2>3. PendingQueued' /\ CallsQueued' /\ GatedAsked'
    BY <1>3, <1>7, <1>8, <1>12 DEF PendingQueued, CallsQueued, GatedAsked
  <2> QED BY <2>1, <2>2, <2>3 DEF LoopInv
<1>13. \/ pc' = "done" /\ ended' \notin {"no", "completed"}
       \/ pc' = "done" /\ ended' = "completed" /\ ~s.security /\ ~s.failure
       \/ pc' = "model" /\ ended' = ended /\ ~s.security /\ ~s.failure /\ ~s.approval
  BY DEF OwnerRequest, Finish, OwnerTurn
<1> QED BY <1>10, <1>11, <1>12, <1>13

-----------------------------------------------------------------------------
(* What the owner makes of a model round                                   *)

\* The new items are the round's, with the status each kind starts with.
LEMMA AppendedFacts ==
  ASSUME NEW st \in States, NEW r \in Rounds, NEW t, t = AppendedRound(st, r)
  PROVE  /\ t \in States /\ t.start = Len(st.out) + 1 /\ Grown(st, t)
         /\ t.start <= Len(t.out) + 1
         /\ \A i \in 1..Len(st.out) : t.out[i] = st.out[i]
         /\ \A i \in t.start..Len(t.out) :
              Kind(t, i) \in RoundKinds /\ t.out[i].status = Status(Kind(t, i))
         /\ t.q = st.q /\ t.called = st.called /\ t.answered = st.answered
         /\ t.approval = st.approval /\ t.iteration = st.iteration
<1>1. r \in Seq(RoundKinds)
  BY LoopAssumption DEF RoundKinds
<1>2. PICK m \in Nat : m = Len(r) /\ DOMAIN r = 1..m /\ \A k \in 1..m : r[k] \in RoundKinds
  BY <1>1, LenProperties, ElementOfSeq
<1>3. PICK more : more = [k \in 1..m |-> [kind |-> r[k], status |-> Status(r[k])]]
  OBVIOUS
<1>4. PICK o : o = st.out \o more
  OBVIOUS
<1>5. t = [st EXCEPT !.start = Len(st.out) + 1, !.out = o]
  BY <1>2, <1>3, <1>4 DEF AppendedRound, States
<1>6. more \in [1..m -> Items]
  <2>1. ASSUME NEW k \in 1..m PROVE [kind |-> r[k], status |-> Status(r[k])] \in Items
    BY <1>2 DEF Items, Kinds, Statuses, Status
  <2> QED BY <1>3, <2>1
<1>7. st.out \in Seq(Items) /\ Len(st.out) \in Nat
  BY OutFacts
<1>8. /\ o \in Seq(Items) /\ Len(o) = Len(st.out) + m
      /\ \A i \in 1..Len(st.out) : o[i] = st.out[i]
      /\ \A k \in 1..m : o[Len(st.out) + k] = more[k]
  BY <1>4, <1>6, <1>7, AppendFacts
<1>9. Len(st.out) + 1 \in Positions
  BY <1>7 DEF Positions
<1>10. /\ t \in States /\ t.start = Len(st.out) + 1 /\ t.out = o /\ t.q = st.q
       /\ t.called = st.called /\ t.answered = st.answered
       /\ t.approval = st.approval /\ t.iteration = st.iteration
  BY <1>5, <1>8, <1>9 DEF States
<1>11. Grown(st, t) /\ t.start <= Len(t.out) + 1
  BY <1>7, <1>8, <1>10 DEF Grown, Kind
<1>12. ASSUME NEW i \in t.start..Len(t.out)
       PROVE  Kind(t, i) \in RoundKinds /\ t.out[i].status = Status(Kind(t, i))
  <2>1. PICK k : k = i - Len(st.out)
    OBVIOUS
  <2>2. k \in 1..m /\ Len(st.out) + k = i
    BY <1>7, <1>8, <1>10, <2>1
  <2>3. t.out[i] = [kind |-> r[k], status |-> Status(r[k])]
    BY <1>3, <1>8, <1>10, <2>2
  <2> QED BY <1>2, <2>2, <2>3 DEF Kind
<1> QED BY <1>8, <1>10, <1>11, <1>12

\* The items of a kind in the current round.
RoundOf(st, kinds) == Of(st, st.start..Len(st.out), kinds)

\* A model round as the owner collects it: calls wait in the queues for their kind,
\* file searches only when they are within the budget.
CollectedRound(st, t) ==
  /\ t \in States /\ t.start = Len(st.out) + 1 /\ Grown(st, t)
  /\ t.start <= Len(t.out) + 1
  /\ t.q.tool = RoundOf(t, {"client", "mcp", "gated"})
  /\ InRound(t, t.q.web, "web") /\ InRound(t, t.q.tsearch, "tsearch")
  /\ InRound(t, t.q.file, "file")
  /\ \A i \in t.q.file : Within(req.budget, t, i)
  /\ t.called = st.called \cup t.q.tool /\ t.answered = st.answered
  /\ t.approval = st.approval /\ t.iteration = st.iteration
  /\ Pending(t) \subseteq t.q.web \cup t.q.file
  /\ OfKind(t, "gated") = Of(t, t.q.tool, {"gated"})
  /\ OfKind(t, "approval") = {}

\* Collecting a round after one that left nothing behind.
LEMMA CollectedFacts ==
  ASSUME NEW st \in States, st.q = NoQueues, Pending(st) = {},
         OfKind(st, "gated") = {}, OfKind(st, "approval") = {},
         NEW r \in Rounds, NEW t, t = Collected(st, r)
  PROVE  CollectedRound(st, t)
<1>1. PICK a : a = AppendedRound(st, r)
  OBVIOUS
<1>2. /\ a \in States /\ a.start = Len(st.out) + 1 /\ Grown(st, a)
      /\ a.start <= Len(a.out) + 1
      /\ \A i \in 1..Len(st.out) : a.out[i] = st.out[i]
      /\ \A i \in a.start..Len(a.out) :
           Kind(a, i) \in RoundKinds /\ a.out[i].status = Status(Kind(a, i))
      /\ a.q = NoQueues /\ a.called = st.called /\ a.answered = st.answered
      /\ a.approval = st.approval /\ a.iteration = st.iteration
  BY <1>1, AppendedFacts
<1>3. PICK fresh : fresh = a.start..Len(a.out)
  OBVIOUS
<1>4. PICK calls : calls = Of(a, fresh, {"client", "mcp", "gated"})
  OBVIOUS
<1>5. PICK p : p = [a.q EXCEPT !.tool = @ \cup calls, !.web = @ \cup Of(a, fresh, {"web"}),
                               !.tsearch = @ \cup Of(a, fresh, {"tsearch"})]
  OBVIOUS
<1>6. PICK b : b = [a EXCEPT !.q = p, !.called = @ \cup calls]
  OBVIOUS
<1>7. t = Assigned(b, Of(b, fresh, {"file"}))
  <2>1. b = [a EXCEPT !.q.tool = @ \cup calls,
                      !.q.web = @ \cup Of(a, fresh, {"web"}),
                      !.q.tsearch = @ \cup Of(a, fresh, {"tsearch"}),
                      !.called = @ \cup calls]
    BY <1>2, <1>5, <1>6 DEF States
  <2> QED BY <1>1, <1>3, <1>4, <2>1 DEF Collected
<1>8. /\ Len(st.out) \in Nat /\ Len(a.out) \in Nat /\ a.start \in Nat
      /\ DOMAIN st.out = 1..Len(st.out) /\ DOMAIN a.out = 1..Len(a.out)
      /\ a.out \in Seq(Items)
  BY <1>2, OutFacts
<1>9. /\ fresh \subseteq Positions /\ \A i \in fresh : a.start <= i /\ i <= Len(a.out)
      /\ \A i \in DOMAIN a.out : i \in DOMAIN st.out \/ i \in fresh
      /\ fresh \subseteq DOMAIN a.out
  BY <1>2, <1>3, <1>8 DEF Positions
<1>10. /\ p \in Queues /\ p.tool = calls /\ p.web = Of(a, fresh, {"web"})
       /\ p.tsearch = Of(a, fresh, {"tsearch"}) /\ p.file = {}
  <2>1. \A kinds : Of(a, fresh, kinds) \in SUBSET Positions
    BY <1>9 DEF Of
  <2>2. /\ a.q \in Queues /\ a.q.tool = {} /\ a.q.web = {} /\ a.q.tsearch = {}
        /\ a.q.file = {}
    BY <1>2 DEF NoQueues, Queues
  <2>3. PICK w, x : w = Of(a, fresh, {"web"}) /\ x = Of(a, fresh, {"tsearch"})
    OBVIOUS
  <2>4. p = [a.q EXCEPT !.tool = calls, !.web = w, !.tsearch = x]
    <3>1. a.q.tool \cup calls = calls /\ a.q.web \cup w = w /\ a.q.tsearch \cup x = x
      BY <2>2
    <3>2. p = [a.q EXCEPT !.tool = a.q.tool \cup calls, !.web = a.q.web \cup w,
                          !.tsearch = a.q.tsearch \cup x]
      BY <1>5, <2>3
    <3> QED BY <3>1, <3>2
  <2>5. calls \in SUBSET Positions /\ w \in SUBSET Positions /\ x \in SUBSET Positions
    BY <1>4, <2>1, <2>3
  <2>6. p \in Queues /\ p.tool = calls /\ p.web = w /\ p.tsearch = x /\ p.file = {}
    BY <2>2, <2>4, <2>5 DEF Queues
  <2> QED BY <2>3, <2>6
<1>11. /\ b \in States /\ b.out = a.out /\ b.start = a.start /\ b.q = p
       /\ b.called = a.called \cup calls /\ b.answered = a.answered
       /\ b.approval = a.approval /\ b.iteration = a.iteration
  <2>1. a.called \cup calls \in SUBSET Positions
    BY <1>2, <1>4, <1>9, StateFields DEF Of
  <2> QED BY <1>2, <1>6, <1>10, <2>1 DEF States
<1>12. PICK files : files = Of(a, fresh, {"file"})
  OBVIOUS
<1>13. files = Of(b, fresh, {"file"})
  BY <1>11, <1>12 DEF Of, Kind
<1>14. PICK kept : kept = {i \in files : Admitted(b, i)}
  OBVIOUS
<1>15. PICK refused : refused = {i \in files : ~Admitted(b, i)}
  OBVIOUS
<1>16. PICK u : u = [p EXCEPT !.file = kept]
  OBVIOUS
<1>17. PICK o : o = Mark(a.out, refused, "incomplete")
  OBVIOUS
<1>18. t = [b EXCEPT !.q = u, !.out = o]
  <2>1. u = [b.q EXCEPT !.file = @ \cup kept]
    BY <1>10, <1>11, <1>16 DEF Queues
  <2>2. o = Mark(b.out, refused, "incomplete")
    BY <1>11, <1>17
  <2> QED BY <1>7, <1>11, <1>13, <1>14, <1>15, <2>1, <2>2 DEF Assigned, States
<1>19. /\ u \in Queues /\ u.tool = calls /\ u.web = Of(a, fresh, {"web"})
       /\ u.tsearch = Of(a, fresh, {"tsearch"}) /\ u.file = kept
  <2>1. kept \in SUBSET Positions
    BY <1>9, <1>12, <1>14 DEF Of
  <2> QED BY <1>10, <1>16, <2>1 DEF Queues
<1>20. /\ o \in Seq(Items) /\ Len(o) = Len(a.out)
       /\ \A i \in 1..Len(a.out) :
            o[i].kind = a.out[i].kind
            /\ o[i].status = IF i \in refused THEN "incomplete" ELSE a.out[i].status
  <2>1. "incomplete" \in Statuses
    BY DEF Statuses
  <2> QED BY <1>8, <1>17, <2>1, MarkFacts
<1>21. /\ t \in States /\ t.out = o /\ t.start = a.start /\ t.q = u
       /\ t.called = a.called \cup calls /\ t.answered = a.answered
       /\ t.approval = a.approval /\ t.iteration = a.iteration
  BY <1>11, <1>18, <1>19, <1>20 DEF States
<1>22. /\ \A i \in DOMAIN a.out : Kind(t, i) = Kind(a, i)
       /\ DOMAIN t.out = DOMAIN a.out /\ Len(t.out) = Len(a.out)
  BY <1>8, <1>20, <1>21, LenProperties DEF Kind
<1>23. Grown(st, t) /\ Grown(b, t) /\ t.start <= Len(t.out) + 1
  <2>1. Grown(b, t)
    BY <1>8, <1>11, <1>22 DEF Grown, Kind
  <2>2. \A i \in 1..Len(st.out) : i \in DOMAIN a.out
    BY <1>2, <1>8 DEF Grown
  <2> QED BY <1>2, <1>8, <1>21, <1>22, <2>1, <2>2 DEF Grown
<1>24. fresh = t.start..Len(t.out)
  BY <1>3, <1>21, <1>22
<1>25. /\ t.q.tool = RoundOf(t, {"client", "mcp", "gated"})
       /\ InRound(t, t.q.web, "web") /\ InRound(t, t.q.tsearch, "tsearch")
       /\ InRound(t, t.q.file, "file")
  <2>1. \A i \in fresh : Kind(t, i) = Kind(a, i) /\ t.start <= i /\ i <= Len(t.out)
    BY <1>9, <1>21, <1>22
  <2> QED BY <1>4, <1>12, <1>14, <1>19, <1>21, <1>24, <2>1 DEF RoundOf, Of, InRound
<1>26. ASSUME NEW i \in Pending(t) PROVE i \in t.q.web \cup t.q.file
  <2>1. i \in 1..Len(a.out) /\ o[i].status = "pending"
    BY <1>8, <1>21, <1>22 DEF Pending
  <2>2. i \notin refused /\ a.out[i].status = "pending"
    BY <1>20, <2>1
  <2>3. i \in fresh
    BY <1>2, <1>8, <1>9, <2>1, <2>2 DEF Pending
  <2>4. Kind(a, i) \in {"web", "file"}
    BY <1>2, <1>3, <2>2, <2>3 DEF Status
  <2> QED BY <1>12, <1>14, <1>15, <1>19, <1>21, <2>2, <2>3, <2>4 DEF Of
<1>27. ASSUME NEW i \in t.q.file PROVE Within(req.budget, t, i)
  <2>1. i \in Positions /\ b.start <= i /\ i <= Len(b.out) /\ Admitted(b, i)
    BY <1>9, <1>11, <1>12, <1>14, <1>19, <1>21 DEF Of
  <2>2. \A j \in Pending(b) : b.start <= j
    <3> TAKE j \in Pending(b)
    <3>1. j \in DOMAIN a.out /\ a.out[j].status = "pending"
      BY <1>11 DEF Pending
    <3> QED BY <1>2, <1>8, <1>9, <1>11, <3>1 DEF Pending
  <2>3. b.start <= Len(b.out) + 1
    BY <1>2, <1>11
  <2>4. Within(req.budget, b, i)
    BY <1>11, <2>1, <2>2, <2>3, AdmittedWithin
  <2>5. i <= Len(b.out) + 1
    BY <1>8, <1>11, <2>1 DEF Positions
  <2> QED BY <1>11, <1>21, <1>23, <2>1, <2>4, <2>5, WithinGrown
<1>28. /\ OfKind(t, "gated") = Of(t, t.q.tool, {"gated"})
       /\ OfKind(t, "approval") = {}
  <2>1. ASSUME NEW i \in DOMAIN t.out, Kind(t, i) \in {"gated", "approval"}
        PROVE  i \in fresh /\ Kind(t, i) = "gated" /\ i \in t.q.tool
    <3>1. i \in DOMAIN a.out /\ Kind(a, i) = Kind(t, i)
      BY <1>22
    <3>2. i \notin DOMAIN st.out
      BY <1>2, <1>8, <2>1, <3>1 DEF OfKind, Grown
    <3>3. i \in fresh
      BY <1>9, <3>1, <3>2
    <3>4. Kind(a, i) \in RoundKinds
      BY <1>2, <1>3, <3>3
    <3> QED BY <1>4, <1>19, <1>21, <2>1, <3>1, <3>3, <3>4 DEF Of, RoundKinds
  <2>2. t.q.tool \subseteq DOMAIN t.out
    BY <1>4, <1>9, <1>19, <1>21, <1>22 DEF Of
  <2> QED BY <2>1, <2>2 DEF OfKind, Of
<1> QED BY <1>2, <1>19, <1>21, <1>23, <1>25, <1>26, <1>27, <1>28 DEF CollectedRound

\* Gated calls leave the queue, and one approval is asked for each of them.
LEMMA PartitionedFacts ==
  ASSUME NEW st \in States, st.q.tool \subseteq 1..Len(st.out),
         Of(st, st.q.tool, {"gated"}) = OfKind(st, "gated"), OfKind(st, "approval") = {},
         NEW t, t = Partitioned(st)
  PROVE  /\ t \in States /\ Grown(st, t)
         /\ t.start = st.start /\ t.iteration = st.iteration
         /\ t.called = st.called /\ t.answered = st.answered
         /\ t.q.tool = st.q.tool \ OfKind(st, "gated") /\ t.q.web = st.q.web
         /\ t.q.file = st.q.file /\ t.q.tsearch = st.q.tsearch
         /\ t.approval <=> OfKind(st, "gated") # {}
         /\ Pending(t) = Pending(st)
         /\ OfKind(t, "gated") = OfKind(st, "gated")
         /\ OfKind(st, "gated") = {} => OfKind(t, "approval") = {}
         /\ Cardinality(OfKind(t, "approval")) = Cardinality(OfKind(st, "gated"))
<1> DEFINE gated == OfKind(st, "gated")
<1>1. st.out \in Seq(Items) /\ Len(st.out) \in Nat /\ DOMAIN st.out = 1..Len(st.out)
  BY OutFacts
<1>2. IsFiniteSet(gated) /\ Cardinality(gated) \in Nat
  <2>1. \A i \in gated : i \in Positions /\ i <= Len(st.out)
    BY <1>1 DEF OfKind, Positions
  <2> HIDE DEF gated
  <2> QED BY <1>1, <2>1, FinitePositions
<1> HIDE DEF gated
<1>3. PICK n \in Nat : n = Cardinality(gated)
  BY <1>2
<1>4. PICK ask : ask = [kind |-> "approval", status |-> "completed"]
  OBVIOUS
<1>5. PICK more : more = [k \in 1..n |-> ask]
  OBVIOUS
<1>6. PICK p : p = [st.q EXCEPT !.tool = @ \ gated]
  OBVIOUS
<1>7. PICK o : o = st.out \o more
  OBVIOUS
<1>8. PICK asked \in BOOLEAN : asked = (gated # {})
  OBVIOUS
<1>9. t = [st EXCEPT !.out = o, !.approval = asked, !.q = p]
  BY <1>3, <1>4, <1>5, <1>6, <1>7, <1>8 DEF Partitioned, States, gated
<1>10. ask \in Items /\ more \in [1..n -> Items]
  BY <1>4, <1>5 DEF Items, Kinds, Statuses
<1>11. /\ o \in Seq(Items) /\ Len(o) = Len(st.out) + n
       /\ \A i \in 1..Len(st.out) : o[i] = st.out[i]
       /\ \A i \in 1..n : o[Len(st.out) + i] = ask
  BY <1>1, <1>5, <1>7, <1>10, AppendFacts
<1>12. /\ p \in Queues /\ p.tool = st.q.tool \ gated /\ p.web = st.q.web
       /\ p.file = st.q.file /\ p.tsearch = st.q.tsearch
  BY <1>6, StateFields DEF Queues
<1>13. /\ t \in States /\ t.out = o /\ t.q = p /\ t.approval = asked
       /\ t.start = st.start /\ t.iteration = st.iteration
       /\ t.called = st.called /\ t.answered = st.answered
  BY <1>9, <1>11, <1>12 DEF States
<1>14. Grown(st, t)
  BY <1>1, <1>11, <1>13 DEF Grown, Kind
<1>15. PICK new : new = (Len(st.out) + 1)..(Len(st.out) + n)
  OBVIOUS
<1>16. DOMAIN t.out = 1..(Len(st.out) + n)
  BY <1>11, <1>13, LenProperties
<1>17. /\ \A i \in DOMAIN t.out : i \in DOMAIN st.out \/ i \in new
       /\ \A i \in new : i \in DOMAIN t.out /\ i \notin DOMAIN st.out
  BY <1>1, <1>15, <1>16
<1>18. \A i \in new : t.out[i] = ask
  <2> TAKE i \in new
  <2>1. i - Len(st.out) \in 1..n /\ Len(st.out) + (i - Len(st.out)) = i
    BY <1>1, <1>15
  <2> QED BY <1>11, <1>13, <2>1
<1>19. \A i \in DOMAIN st.out : i \in DOMAIN t.out /\ t.out[i] = st.out[i]
  BY <1>1, <1>11, <1>13, <1>16
<1>20. /\ Pending(t) = Pending(st) /\ OfKind(t, "gated") = OfKind(st, "gated")
       /\ OfKind(t, "approval") = new
  BY <1>4, <1>17, <1>18, <1>19 DEF Pending, OfKind, Kind
<1>21. Cardinality(new) = n
  <2>1. /\ Len(st.out) + 1 \in Int /\ Len(st.out) + n \in Int
    BY <1>1
  <2>2. Cardinality(new) = IF Len(st.out) + 1 > Len(st.out) + n THEN 0
                           ELSE (Len(st.out) + n) - (Len(st.out) + 1) + 1
    BY <1>15, <2>1, FS_Interval
  <2> QED BY <1>1, <2>2
<1>22. gated = {} => new = {}
  <2> SUFFICES ASSUME gated = {} PROVE new = {}
    OBVIOUS
  <2>1. n = 0
    BY <1>3, FS_EmptySet
  <2> QED BY <1>1, <1>15, <2>1
<1> QED BY <1>3, <1>8, <1>12, <1>13, <1>14, <1>20, <1>21, <1>22 DEF gated

\* Tool searches beyond the budget are ended in place and leave their queue.
LEMMA SearchedFacts ==
  ASSUME NEW st \in States, NEW t, t = Searched(st)
  PROVE  /\ t \in States /\ Grown(st, t) /\ Len(t.out) = Len(st.out)
         /\ t.start = st.start /\ t.iteration = st.iteration
         /\ t.called = st.called /\ t.answered = st.answered /\ t.approval = st.approval
         /\ t.q.tool = st.q.tool /\ t.q.web = st.q.web /\ t.q.file = st.q.file
         /\ t.q.tsearch \subseteq st.q.tsearch
         /\ Pending(t) \subseteq Pending(st)
<1>1. CASE t = st
  BY <1>1, OutFacts DEF Grown
<1>2. CASE t = [st EXCEPT !.out = Mark(@, st.q.tsearch, "incomplete"), !.q.tsearch = {}]
  <2>1. PICK p : p = [st.q EXCEPT !.tsearch = {}]
    OBVIOUS
  <2>2. /\ p \in Queues /\ p.tool = st.q.tool /\ p.web = st.q.web /\ p.file = st.q.file
        /\ p.tsearch = {}
    BY <2>1, StateFields DEF Queues
  <2>3. PICK o : o = Mark(st.out, st.q.tsearch, "incomplete")
    OBVIOUS
  <2>4. t = [st EXCEPT !.out = o, !.q = p]
    BY <1>2, <2>1, <2>3 DEF States
  <2>5. /\ st.out \in Seq(Items) /\ Len(st.out) \in Nat /\ DOMAIN st.out = 1..Len(st.out)
        /\ "incomplete" \in Statuses
    BY OutFacts DEF Statuses
  <2>6. /\ o \in Seq(Items) /\ Len(o) = Len(st.out)
        /\ \A i \in 1..Len(st.out) :
             o[i].kind = st.out[i].kind
             /\ o[i].status = IF i \in st.q.tsearch THEN "incomplete" ELSE st.out[i].status
    BY <2>3, <2>5, MarkFacts
  <2>7. /\ t \in States /\ t.out = o /\ t.q = p /\ t.start = st.start
        /\ t.iteration = st.iteration /\ t.called = st.called
        /\ t.answered = st.answered /\ t.approval = st.approval
    BY <2>2, <2>4, <2>6 DEF States
  <2>8. Grown(st, t)
    BY <2>5, <2>6, <2>7 DEF Grown, Kind
  <2>9. DOMAIN t.out = DOMAIN st.out
    BY <2>5, <2>6, <2>7, LenProperties
  <2>10. Pending(t) \subseteq Pending(st)
    BY <2>5, <2>6, <2>7, <2>9 DEF Pending
  <2> QED BY <2>2, <2>6, <2>7, <2>8, <2>10
<1> QED BY <1>1, <1>2 DEF Searched

\* What is dispatched of a round: calls without the gated ones, whose approvals are
\* asked for.
PreparedRound(st, t, u) ==
  /\ u \in States /\ u.start = Len(st.out) + 1 /\ Grown(st, u)
  /\ u.start <= Len(u.out) + 1 /\ u.iteration = st.iteration
  /\ u.called = st.called \cup t.q.tool /\ u.answered = st.answered
  /\ u.q.tool \subseteq t.q.tool
  /\ ~u.approval => u.q.tool = t.q.tool
  /\ \A i \in u.q.tool : /\ u.start <= i /\ i <= Len(u.out)
                         /\ Kind(u, i) = Kind(t, i) /\ Kind(t, i) \in {"client", "mcp"}
  /\ u.q.web = t.q.web /\ u.q.file = t.q.file /\ u.q.tsearch \subseteq t.q.tsearch
  /\ InRound(u, u.q.web, "web") /\ InRound(u, u.q.tsearch, "tsearch")
  /\ InRound(u, u.q.file, "file")
  /\ \A i \in u.q.file : Within(req.budget, u, i)
  /\ Pending(u) \subseteq u.q.web \cup u.q.file
  /\ ~u.approval => OfKind(u, "gated") = {} /\ OfKind(u, "approval") = {}
  /\ Cardinality(OfKind(u, "gated")) = Cardinality(OfKind(u, "approval"))

\* Preparing a collected round.
LEMMA PreparedFacts ==
  ASSUME NEW st \in States, NEW t, CollectedRound(st, t),
         NEW u, u = Searched(Partitioned(t))
  PROVE  PreparedRound(st, t, u)
<1>1. PICK gated : gated = Of(t, t.q.tool, {"gated"})
  OBVIOUS
<1>2. /\ t \in States /\ t.start = Len(st.out) + 1 /\ Grown(st, t)
      /\ t.start <= Len(t.out) + 1
      /\ t.q.tool = RoundOf(t, {"client", "mcp", "gated"})
      /\ InRound(t, t.q.web, "web") /\ InRound(t, t.q.tsearch, "tsearch")
      /\ InRound(t, t.q.file, "file")
      /\ \A i \in t.q.file : Within(req.budget, t, i)
      /\ t.called = st.called \cup t.q.tool /\ t.answered = st.answered
      /\ t.iteration = st.iteration
      /\ Pending(t) \subseteq t.q.web \cup t.q.file
      /\ OfKind(t, "gated") = gated /\ OfKind(t, "approval") = {}
  BY <1>1 DEF CollectedRound
<1>3. /\ Len(st.out) \in Nat /\ Len(t.out) \in Nat /\ t.start \in Nat /\ t.start > 0
  BY <1>2, OutFacts, StateFields DEF Positions
<1>4. \A i \in t.q.tool : /\ t.start <= i /\ i <= Len(t.out) /\ i \in 1..Len(t.out)
                          /\ Kind(t, i) \in {"client", "mcp", "gated"}
  BY <1>2, <1>3 DEF RoundOf, Of
<1>5. PICK a : a = Partitioned(t)
  OBVIOUS
<1>6. /\ a \in States /\ Grown(t, a) /\ a.start = t.start /\ a.iteration = t.iteration
      /\ a.called = t.called /\ a.answered = t.answered
      /\ a.q.tool = t.q.tool \ gated /\ a.q.web = t.q.web
      /\ a.q.file = t.q.file /\ a.q.tsearch = t.q.tsearch
      /\ a.approval <=> gated # {}
      /\ Pending(a) = Pending(t) /\ OfKind(a, "gated") = gated
      /\ gated = {} => OfKind(a, "approval") = {}
      /\ Cardinality(OfKind(a, "approval")) = Cardinality(gated)
  <2>1. t.q.tool \subseteq 1..Len(t.out)
    BY <1>4
  <2>2. Of(t, t.q.tool, {"gated"}) = OfKind(t, "gated")
    BY <1>1, <1>2
  <2> QED BY <1>2, <1>5, <2>1, <2>2, PartitionedFacts
<1>7. /\ u \in States /\ Grown(a, u) /\ Len(u.out) = Len(a.out) /\ u.start = a.start
      /\ u.iteration = a.iteration /\ u.called = a.called /\ u.answered = a.answered
      /\ u.approval = a.approval
      /\ u.q.tool = a.q.tool /\ u.q.web = a.q.web /\ u.q.file = a.q.file
      /\ u.q.tsearch \subseteq a.q.tsearch /\ Pending(u) \subseteq Pending(a)
  BY <1>5, <1>6, SearchedFacts
<1>8. Len(a.out) \in Nat /\ Len(u.out) \in Nat
  BY <1>6, <1>7, OutFacts
<1>9. Grown(t, u) /\ Grown(st, u) /\ u.start <= Len(u.out) + 1
  <2>1. \A i \in 1..Len(t.out) : i \in 1..Len(a.out)
    BY <1>3, <1>6, <1>8 DEF Grown
  <2>2. Grown(t, u)
    BY <1>3, <1>6, <1>7, <1>8, <2>1 DEF Grown
  <2>3. \A i \in 1..Len(st.out) : i \in 1..Len(t.out)
    BY <1>2, <1>3 DEF Grown
  <2> QED BY <1>2, <1>3, <1>6, <1>7, <1>8, <2>2, <2>3 DEF Grown
<1>10. /\ InRound(u, u.q.web, "web") /\ InRound(u, u.q.tsearch, "tsearch")
       /\ InRound(u, u.q.file, "file")
  <2>1. /\ InRound(u, t.q.web, "web") /\ InRound(u, t.q.tsearch, "tsearch")
        /\ InRound(u, t.q.file, "file")
    BY <1>2, <1>6, <1>7, <1>9, StateFields, InRoundGrown
  <2> QED BY <1>6, <1>7, <2>1 DEF InRound
<1>11. ASSUME NEW i \in u.q.tool
       PROVE  /\ u.start <= i /\ i <= Len(u.out)
              /\ Kind(u, i) = Kind(t, i) /\ Kind(t, i) \in {"client", "mcp"}
  <2>1. i \in t.q.tool /\ i \notin gated
    BY <1>6, <1>7
  <2>2. t.start <= i /\ i \in 1..Len(t.out) /\ Kind(t, i) \in {"client", "mcp"}
    BY <1>1, <1>4, <2>1 DEF Of
  <2> QED BY <1>3, <1>6, <1>7, <1>8, <1>9, <2>2 DEF Grown
<1>12. ASSUME NEW i \in u.q.file PROVE Within(req.budget, u, i)
  <2>1. i \in t.q.file /\ i \in Positions /\ i \in 1..Len(t.out) /\ Within(req.budget, t, i)
    BY <1>2, <1>6, <1>7, StateFields, QueueFinite
  <2>2. i <= Len(t.out) + 1
    BY <1>3, <2>1
  <2> QED BY <1>2, <1>7, <1>9, <2>1, <2>2, WithinGrown
<1>13. /\ OfKind(u, "gated") = OfKind(a, "gated")
       /\ OfKind(u, "approval") = OfKind(a, "approval")
  BY <1>6, <1>7, OfKindSame
<1> QED BY <1>2, <1>6, <1>7, <1>9, <1>10, <1>11, <1>12, <1>13 DEF PreparedRound

\* A model round: the request ends, or what can be dispatched is queued.
LEMMA ModelKeeps ==
  ASSUME LoopInv, NEW r \in Rounds, NEW status, ModelRound(r, status)
  PROVE  LoopInv'
<1>1. pc = "model" /\ ended = "no" /\ req' = req /\ ran' = ran
  BY DEF ModelRound
<1>2. /\ s \in States /\ s.start <= Len(s.out) + 1 /\ s.q = NoQueues
      /\ req \in [stream : BOOLEAN, budget : Budgets, stored : BOOLEAN]
      /\ Pending(s) = {} /\ s.called \subseteq s.answered
      /\ OfKind(s, "gated") = {} /\ OfKind(s, "approval") = {}
      /\ History(ran, s, req.budget, Executable)
  BY <1>1 DEF LoopInv, LoopTypes, QueuesKnown, PendingQueued, CallsQueued, GatedAsked,
              RanKnown, Executed
<1>3. PICK t : t = Collected(s, r)
  OBVIOUS
<1>4. CollectedRound(s, t)
  BY <1>2, <1>3, CollectedFacts
<1>5. PICK u : u = Searched(Partitioned(t))
  OBVIOUS
<1>6. PreparedRound(s, t, u)
  BY <1>2, <1>4, <1>5, PreparedFacts
<1>7. t \in States /\ t.start <= Len(t.out) + 1 /\ Grown(s, t)
  BY <1>4 DEF CollectedRound
<1>8. PICK e : e = [t EXCEPT !.q = NoQueues]
  OBVIOUS
<1>9. e \in States /\ e.start <= Len(e.out) + 1 /\ Grown(s, e)
  <2>1. NoQueues \in Queues
    BY DEF NoQueues, Queues
  <2>2. e \in States /\ e.start = t.start /\ e.out = t.out
    BY <1>7, <1>8, <2>1 DEF States
  <2> QED BY <1>7, <2>2 DEF Grown, Kind
<1>10. u \in States /\ u.start <= Len(u.out) + 1 /\ Grown(s, u)
  BY <1>6 DEF PreparedRound
<1>11. Grown(s, s)
  BY <1>2, OutFacts DEF Grown
<1>12. CASE s' \in {s, t, e, u} /\ pc' = "done" /\ ended' \notin {"no", "completed"}
  BY <1>1, <1>2, <1>7, <1>9, <1>10, <1>11, <1>12, EndKeeps
<1>13. CASE s' = u /\ ~Dispatchable(u) /\ pc' = "done" /\ ended' = "completed"
  <2>1. /\ Pending(u) = {}
        /\ Cardinality(OfKind(u, "gated")) = Cardinality(OfKind(u, "approval"))
    BY <1>6, <1>13 DEF PreparedRound, Dispatchable
  <2>2. History(ran', s', req.budget, Executable)
    BY <1>1, <1>2, <1>10, <1>13, HistoryGrown
  <2>3. LoopTypes' /\ QueuesKnown' /\ FilesWithin' /\ RanKnown'
    BY <1>1, <1>2, <1>10, <1>13, <2>2
       DEF LoopTypes, QueuesKnown, FilesWithin, RanKnown, Executed, Dispatching
  <2>4. PendingQueued' /\ CallsQueued' /\ GatedAsked'
    BY <1>13, <2>1 DEF PendingQueued, CallsQueued, GatedAsked
  <2> QED BY <2>3, <2>4 DEF LoopInv
<1>14. CASE /\ s' = [u EXCEPT !.iteration = @ + 1] /\ pc' = "web" /\ ended' = ended
            /\ Dispatchable(u) /\ ~Mixed(t)
  <2>1. u.iteration + 1 \in Nat
    BY <1>10, StateFields
  <2>2. /\ s' \in States /\ s'.out = u.out /\ s'.start = u.start /\ s'.q = u.q
        /\ s'.called = u.called /\ s'.answered = u.answered /\ s'.approval = u.approval
    BY <1>10, <1>14, <2>1 DEF States
  <2>3. /\ Grown(s, s') /\ Pending(s') = Pending(u)
        /\ OfKind(s', "gated") = OfKind(u, "gated")
        /\ OfKind(s', "approval") = OfKind(u, "approval")
    BY <1>10, <2>2 DEF Grown, Kind, Pending, OfKind
  <2>4. u.start = Len(s.out) + 1 /\ Len(s.out) \in Nat /\ Len(u.out) \in Nat
    BY <1>2, <1>6, <1>10, OutFacts DEF PreparedRound
  <2>5. LoopTypes'
    BY <1>1, <1>2, <1>10, <1>14, <2>2 DEF LoopTypes, Dispatching
  <2>6. InRound(u, u.q.tool, "mcp")
    <3>1. ServerWork(t)
      <4>1. McpCalls(u) # {} => Of(t, t.q.tool, McpKinds) # {}
        BY <1>6 DEF PreparedRound, McpCalls, Of, McpKinds
      <4>2. NeedsDiscovery(u) => t.q.tsearch # {}
        BY <1>6 DEF PreparedRound, NeedsDiscovery
      <4>3. u.q.web = t.q.web /\ u.q.file = t.q.file
        BY <1>6 DEF PreparedRound
      <4> QED BY <1>14, <4>1, <4>2, <4>3 DEF Dispatchable, ServerWork
    <3>2. Of(t, t.q.tool, {"client"}) = {}
      BY <1>14, <3>1 DEF Mixed, ClientWork
    <3> QED BY <1>6, <3>2 DEF PreparedRound, InRound, Of
  <2>7. QueuesKnown'
    <3>1. /\ InRound(u, u.q.web, "web") /\ InRound(u, u.q.tsearch, "tsearch")
          /\ InRound(u, u.q.file, "file")
      BY <1>6 DEF PreparedRound
    <3> QED BY <1>14, <2>2, <2>6, <3>1 DEF QueuesKnown, InRound, Kind
  <2>8. RanKnown'
    <3>1. s'.start > Len(s.out)
      BY <2>2, <2>4
    <3>2. History(ran, s', req.budget, {})
      BY <1>2, <2>2, <2>3, <3>1, HistoryGrown
    <3> QED BY <1>1, <1>14, <3>2 DEF RanKnown, Executed
  <2>9. PendingQueued'
    <3>1. Pending(u) \subseteq u.q.web \cup u.q.file
      BY <1>6 DEF PreparedRound
    <3>2. \A i \in Pending(u) : u.start <= i
      BY <1>6, <3>1 DEF PreparedRound, InRound
    <3> QED BY <1>1, <1>14, <2>2, <2>3, <3>1, <3>2 DEF PendingQueued
  <2>10. CallsQueued'
    <3>1. u.approval \/ u.called \ u.answered \subseteq u.q.tool
      BY <1>2, <1>6 DEF PreparedRound
    <3> QED BY <1>14, <2>2, <3>1 DEF CallsQueued
  <2>11. GatedAsked'
    <3>1. /\ ~u.approval => OfKind(u, "gated") = {} /\ OfKind(u, "approval") = {}
          /\ Cardinality(OfKind(u, "gated")) = Cardinality(OfKind(u, "approval"))
      BY <1>6 DEF PreparedRound
    <3> QED BY <1>1, <1>14, <2>2, <2>3, <3>1 DEF GatedAsked
  <2>12. FilesWithin'
    <3>1. \A i \in u.q.file : Within(req.budget, u, i)
      BY <1>6 DEF PreparedRound
    <3>2. \A i \in u.q.file : Within(req.budget, s', i)
      BY <2>2, <3>1 DEF Within, Charged, Kind
    <3> QED BY <1>1, <2>2, <3>2 DEF FilesWithin
  <2> QED BY <2>5, <2>7, <2>8, <2>9, <2>10, <2>11, <2>12 DEF LoopInv
<1>15. \/ s' \in {s, t, e, u} /\ pc' = "done" /\ ended' \notin {"no", "completed"}
       \/ s' = u /\ ~Dispatchable(u) /\ pc' = "done" /\ ended' = "completed"
       \/ /\ s' = [u EXCEPT !.iteration = @ + 1] /\ pc' = "web" /\ ended' = ended
          /\ Dispatchable(u) /\ ~Mixed(t)
  <2>1. CASE status = "completed"
    <3>1. PICK ids : Decide(t, ids)
      BY <1>3, <2>1 DEF ModelRound
    <3> QED BY <1>5, <1>8, <3>1 DEF Decide, Finish
  <2>2. CASE status # "completed"
    BY <1>3, <1>8, <2>2 DEF ModelRound, Finish
  <2> QED BY <2>1, <2>2
<1> QED BY <1>12, <1>13, <1>14, <1>15

-----------------------------------------------------------------------------
(* The invariant and what follows from it                                  *)

\* A request starts with nothing collected, queued or executed.
LEMMA LoopBegins == Init => LoopInv
<1> SUFFICES ASSUME Init PROVE LoopInv
  OBVIOUS
<1>1. PICK d \in BOOLEAN :
        s = [iteration |-> 0, out |-> <<>>, start |-> 1, q |-> NoQueues,
             called |-> {}, answered |-> {}, approval |-> FALSE,
             limit |-> FALSE, failure |-> FALSE, security |-> FALSE, deferred |-> d]
  BY DEF Init
<1>2. req \in [stream : BOOLEAN, budget : Budgets, stored : BOOLEAN]
      /\ pc = "web" /\ ended = "no" /\ ran = <<>>
  BY DEF Init
<1>3. <<>> \in Seq(Items) /\ Len(<<>>) = 0 /\ DOMAIN <<>> = {} /\ <<>> \in Seq(Positions)
  OBVIOUS
<1>4. /\ s.out = <<>> /\ s.start = 1 /\ s.q = NoQueues /\ s.called = {} /\ s.answered = {}
      /\ s.iteration = 0
  BY <1>1
<1>5. s \in States
  <2>1. NoQueues \in Queues /\ 1 \in Positions /\ 0 \in Nat
    BY DEF NoQueues, Queues, Positions
  <2> QED BY <1>1, <1>3, <2>1 DEF States
<1>6. LoopTypes
  <2>1. s.start <= Len(s.out) + 1
    BY <1>3, <1>4
  <2> QED BY <1>2, <1>5, <2>1 DEF LoopTypes, Dispatching
<1>7. QueuesKnown /\ FilesWithin /\ CallsQueued
  BY <1>2, <1>4 DEF QueuesKnown, FilesWithin, CallsQueued, NoQueues, InRound
<1>8. RanKnown
  BY <1>2, <1>3 DEF RanKnown, History, Once
<1>9. /\ Pending(s) = {} /\ OfKind(s, "gated") = {} /\ OfKind(s, "approval") = {}
  BY <1>3, <1>4 DEF Pending, OfKind
<1>10. PendingQueued /\ GatedAsked
  BY <1>9 DEF PendingQueued, GatedAsked
<1> QED BY <1>6, <1>7, <1>8, <1>10 DEF LoopInv

\* Every step keeps the invariant.
LEMMA LoopSteps == LoopInv /\ [Next]_vars => LoopInv'
<1> SUFFICES ASSUME LoopInv, [Next]_vars PROVE LoopInv'
  OBVIOUS
<1>1. CASE WebDispatch
  BY <1>1, WebKeeps
<1>2. CASE McpDispatch
  BY <1>2, McpKeeps
<1>3. CASE FileDispatch
  BY <1>3, FileKeeps
<1>4. CASE OwnerRequest
  BY <1>4, OwnerKeeps
<1>5. CASE \E r \in Rounds, st \in {"completed", "incomplete", "broken"} : ModelRound(r, st)
  BY <1>5, ModelKeeps
<1>6. CASE UNCHANGED vars
  <2>1. LoopTypes' /\ QueuesKnown'
    BY <1>6 DEF vars, LoopInv, LoopTypes, QueuesKnown, InRound, Kind
  <2>2. RanKnown'
    BY <1>6 DEF vars, LoopInv, RanKnown, History, Kind, Within, Charged
  <2>3. PendingQueued' /\ CallsQueued'
    BY <1>6 DEF vars, LoopInv, PendingQueued, CallsQueued, Pending
  <2>4. GatedAsked' /\ FilesWithin'
    BY <1>6 DEF vars, LoopInv, GatedAsked, FilesWithin, OfKind, Kind, Within, Charged
  <2> QED BY <2>1, <2>2, <2>3, <2>4 DEF LoopInv
<1> QED BY <1>1, <1>2, <1>3, <1>4, <1>5, <1>6 DEF Next, Ended

\* The inductive invariant holds of every request, whatever the model answers.
THEOREM LoopInvariant == Spec => []LoopInv
<1>1. Init => LoopInv
  BY LoopBegins
<1>2. LoopInv /\ [Next]_vars => LoopInv'
  BY LoopSteps
<1> QED BY <1>1, <1>2, PTL DEF Spec

\* No call is executed twice (web_search_dispatch, mcp_dispatch and
\* file_search_dispatch drain their queues; the owner clears stale ones).
THEOREM CallsExecutedOnce == Spec => []ExecutedOnce
<1>1. LoopInv => ExecutedOnce
  BY DEF LoopInv, RanKnown, History, Once, ExecutedOnce
<1> QED BY <1>1, LoopInvariant, PTL

\* The searches executed over all rounds stay within max_tool_calls, whichever
\* dispatcher executes them.
THEOREM SearchesWithinBudget == Spec => []BudgetRespected
<1>1. LoopInv => BudgetRespected
  BY RanWithin DEF LoopInv
<1> QED BY <1>1, LoopInvariant, PTL

\* No inference request leaves with an unanswered call, and no response is reported
\* completed with a pending search.
THEOREM CallsAreSettled == Spec => []CallsSettled
<1>1. LoopInv => CallsSettled
  BY DEF LoopInv, CallsQueued, PendingQueued, Pending, CallsSettled
<1> QED BY <1>1, LoopInvariant, PTL

\* No gated call is executed; each is asked about once, and the request ends with
\* the question.
THEOREM ApprovalsAreAsked == Spec => []ApprovalsAsked
<1>1. LoopInv => ApprovalsAsked
  <2> SUFFICES ASSUME LoopInv PROVE ApprovalsAsked
    OBVIOUS
  <2>1. /\ Of(s, DOMAIN s.out, {"gated"}) = OfKind(s, "gated")
        /\ Of(s, DOMAIN s.out, {"approval"}) = OfKind(s, "approval")
    BY DEF Of, OfKind
  <2>2. \A k \in DOMAIN ran : Kind(s, ran[k]) # "gated"
    BY DEF LoopInv, RanKnown, History, Executable
  <2>3. /\ pc = "model" => OfKind(s, "gated") = {}
        /\ ended = "completed" =>
             Cardinality(OfKind(s, "gated")) = Cardinality(OfKind(s, "approval"))
    BY DEF LoopInv, GatedAsked
  <2> QED BY <2>1, <2>2, <2>3 DEF ApprovalsAsked
<1> QED BY <1>1, LoopInvariant, PTL

\* The pipeline of one round only moves forward, and a step back to its start is
\* one of at most max_infer_iters.
Advances ==
  \/ s'.iteration = s.iteration /\ Stage[pc'] > Stage[pc]
  \/ s'.iteration > s.iteration /\ s'.iteration <= MaxIters

\* Each step takes the request on.
LEMMA StepAdvances == ASSUME LoopInv, [Next]_vars PROVE Advances \/ UNCHANGED vars
<1>1. s \in States
  BY DEF LoopInv, LoopTypes
<1>2. s.iteration \in Nat /\ MaxIters \in Nat
  BY <1>1, StateFields, LoopAssumption
<1>3. CASE WebDispatch
  <2>1. s'.iteration = s.iteration
    <3>1. ASSUME NEW partial, s' = WebSearched(s, partial) PROVE s'.iteration = s.iteration
      BY <1>1, <3>1, WebSearchedFacts
    <3>2. ASSUME s' = [s EXCEPT !.security = TRUE, !.q.web = {}] \/ s' = s
          PROVE  s'.iteration = s.iteration
      BY <1>1, <3>2 DEF States
    <3> QED BY <1>3, <3>1, <3>2 DEF WebDispatch
  <2>2. pc = "web" /\ pc' \in {"mcp", "done"}
    BY <1>3 DEF WebDispatch, Finish
  <2> QED BY <2>1, <2>2 DEF Advances, Stage
<1>4. CASE McpDispatch
  <2>1. pc = "mcp" /\ pc' \in {"file", "done"}
    BY <1>4 DEF McpDispatch, Finish
  <2>2. s'.iteration = s.iteration
    <3>1. PICK listed : listed = [s EXCEPT !.deferred = @ /\ ~NeedsDiscovery(s)]
      OBVIOUS
    <3>2. /\ listed \in States /\ listed.iteration = s.iteration /\ listed.q = s.q
          /\ listed.out = s.out /\ listed.start = s.start
      <4>1. (s.deferred /\ ~NeedsDiscovery(s)) \in BOOLEAN
        OBVIOUS
      <4> QED BY <1>1, <3>1, <4>1 DEF States
    <3>3. InRound(listed, listed.q.tool, "mcp")
      BY <2>1, <3>2 DEF LoopInv, QueuesKnown, Dispatching, InRound, Kind
    <3>4. CASE s' = McpAnswered(listed)
      BY <3>2, <3>3, <3>4, McpAnsweredFacts
    <3>5. CASE s' = [listed EXCEPT !.failure = TRUE, !.q.tool = {}]
      BY <3>2, <3>5 DEF States
    <3>6. CASE s' = [s EXCEPT !.security = TRUE] \/ s' = s
      BY <1>1, <3>6 DEF States
    <3> QED BY <1>4, <3>1, <3>4, <3>5, <3>6 DEF McpDispatch
  <2> QED BY <2>1, <2>2 DEF Advances, Stage
<1>5. CASE FileDispatch
  <2>1. s'.iteration = s.iteration
    <3>3. CASE s' = [Drained(s) EXCEPT !.security = TRUE]
      BY <1>1, <3>3 DEF Drained, States
    <3>4. CASE s' = [Drained(s) EXCEPT !.failure = TRUE]
      BY <1>1, <3>4 DEF Drained, States
    <3>5. ASSUME NEW partial \in SUBSET Planned(s), NEW fits \in BOOLEAN,
                 s' = [FileSearched(s, partial) EXCEPT !.failure = @ \/ ~fits]
          PROVE  s'.iteration = s.iteration
      <4>1. PICK t : t = FileSearched(s, partial)
        OBVIOUS
      <4>2. t \in States /\ t.iteration = s.iteration
        BY <1>1, <4>1, FileSearchedFacts
      <4> QED BY <3>5, <4>1, <4>2 DEF States
    <3> QED BY <1>5, <3>3, <3>4, <3>5 DEF FileDispatch
  <2> QED BY <1>5, <2>1 DEF FileDispatch, Advances, Stage
<1>6. CASE OwnerRequest
  <2>1. s'.iteration = s.iteration
    BY <1>1, <1>6 DEF OwnerRequest, States
  <2> QED BY <1>6, <2>1 DEF OwnerRequest, OwnerTurn, Finish, Advances, Stage
<1>7. ASSUME NEW r \in Rounds, NEW status, ModelRound(r, status) PROVE Advances
  <2>1. pc = "model"
    BY <1>7 DEF ModelRound
  <2>2. PICK t : t = Collected(s, r)
    OBVIOUS
  <2>3. CollectedRound(s, t)
    BY <1>1, <2>1, <2>2, CollectedFacts DEF LoopInv, QueuesKnown, PendingQueued, GatedAsked
  <2>4. PICK u : u = Searched(Partitioned(t))
    OBVIOUS
  <2>5. /\ u \in States /\ u.iteration = s.iteration
        /\ t \in States /\ t.iteration = s.iteration
    BY <1>1, <2>3, <2>4, PreparedFacts DEF PreparedRound, CollectedRound
  <2>6. PICK e : e = [t EXCEPT !.q = NoQueues]
    OBVIOUS
  <2>7. e.iteration = s.iteration
    BY <2>5, <2>6 DEF States
  <2>8. CASE s' \in {s, t, e, u} /\ pc' = "done"
    <3>1. s'.iteration = s.iteration
      BY <2>5, <2>7, <2>8
    <3> QED BY <2>1, <2>8, <3>1 DEF Advances, Stage
  <2>9. CASE s' = [u EXCEPT !.iteration = @ + 1] /\ ~AtLimit(u)
    <3>1. s'.iteration = s.iteration + 1
      BY <2>5, <2>9 DEF States
    <3>2. ~(s.iteration >= MaxIters)
      BY <2>5, <2>9 DEF AtLimit
    <3> QED BY <1>2, <3>1, <3>2 DEF Advances
  <2>10. (s' \in {s, t, e, u} /\ pc' = "done")
         \/ (s' = [u EXCEPT !.iteration = @ + 1] /\ ~AtLimit(u))
    <3>1. CASE status = "completed"
      <4>1. PICK ids : Decide(t, ids)
        BY <1>7, <2>2, <3>1 DEF ModelRound
      <4> QED BY <2>4, <2>6, <4>1 DEF Decide, Finish
    <3>2. CASE status # "completed"
      BY <1>7, <2>2, <2>6, <3>2 DEF ModelRound, Finish
    <3> QED BY <3>1, <3>2
  <2> QED BY <2>8, <2>9, <2>10
<1> QED BY <1>3, <1>4, <1>5, <1>6, <1>7 DEF Next, Ended

\* Every step advances the request: no round is repeated without being counted
\* against max_infer_iters, so that a request takes boundedly many steps.
THEOREM StepsAdvance == Spec => EveryStepAdvances
<1>1. LoopInv /\ [Next]_vars => [Advances]_vars
  BY StepAdvances
<1>2. Spec => [][Advances]_vars
  BY <1>1, LoopInvariant, PTL DEF Spec
<1> QED BY <1>2 DEF EveryStepAdvances, Advances

-----------------------------------------------------------------------------
(* The MCP sessions: the inductive invariant                               *)

Holding == {"call", "wait", "close"}
Unsent == {"none", "begin", "checkout", "open", "call"}
Places == {"none", "begin", "checkout", "open", "done"} \cup Holding

CallStates ==
  [at : Places, key : Keys \cup {NoKey}, limit : Limits \cup {0},
   session : Sessions \cup {0}, read : Nat, sent : Nat]
SessionStates ==
  [state : {"unused", "open", "closed"}, alive : BOOLEAN, key : Keys \cup {NoKey},
   limit : Limits \cup {0}, parkedAt : Nat, parks : Nat, parked : BOOLEAN]
Timers == [session : Sessions, park : Nat, due : Nat, claimed : BOOLEAN]

SessionTypes ==
  /\ now \in Nat /\ request \in {"live", "ended", "cancelled"}
  /\ call \in [Calls -> CallStates] /\ session \in [Sessions -> SessionStates]
  /\ pool \in [Keys -> SUBSET Sessions]
  /\ timers \in SUBSET Timers /\ closing \in SUBSET Sessions

\* What a call has done by the time it is somewhere.
CallsFit ==
  \A c \in Calls :
    /\ call[c].session # 0 <=> call[c].at \in Holding
    /\ call[c].at = "checkout" => call[c].key \in Keys
    /\ call[c].sent <= 1
    /\ call[c].at \in Unsent => call[c].sent = 0

\* The session in a call's hands was opened for its key and limit; it is neither
\* parked nor closed, and it is in no other hands.
HeldAlone ==
  /\ \A c \in Calls : call[c].session # 0 =>
       /\ session[call[c].session].state = "open"
       /\ session[call[c].session].key = call[c].key
       /\ session[call[c].session].limit = call[c].limit
       /\ ~session[call[c].session].parked
       /\ call[c].session \notin closing
       /\ \A k \in Keys : call[c].session \notin pool[k]
  /\ \A c, d \in Calls :
       call[c].session = call[d].session /\ call[c].session # 0 => c = d

\* A pool has at most one session, opened for its key, and only in a live request.
PoolsKeep ==
  /\ \A k \in Keys : \A i \in pool[k] :
       /\ session[i].state = "open" /\ session[i].key = k
       /\ i \notin closing
       /\ \A j \in pool[k] : i = j
  /\ request # "live" => \A k \in Keys : pool[k] = {}

IdleBounded == IsFiniteSet(Idle) /\ Cardinality(Idle) <= MAX_TOTAL_IDLE

\* A session that is open has an owner; background tasks close open sessions.
Owned ==
  /\ \A i \in closing : session[i].state = "open"
  /\ \A i \in Sessions : session[i].state = "open" =>
       \/ \E c \in Calls : call[c].session = i
       \/ \E k \in Keys : i \in pool[k]
       \/ i \in closing

\* A timer is of a session that was parked, and the only one of its park.  One that
\* has claimed the session claimed its latest park; no call has the session then.
TimersKnown ==
  /\ \A i \in Sessions : session[i].state = "unused" => ~session[i].parked
  /\ \A t \in timers :
       /\ session[t.session].state # "unused"
       /\ session[t.session].state = "open" => t.park <= session[t.session].parks
       /\ session[t.session].state = "open" /\ t.claimed =>
            /\ ~session[t.session].parked
            /\ \A c \in Calls : call[c].session # t.session
  /\ \A t, u \in timers : t.session = u.session /\ t.park = u.park => t = u

\* The timer of a parked session has not fired, or has claimed it.
Armed ==
  \A k \in Keys : \A i \in pool[k] : session[i].alive =>
    \E t \in timers : /\ t.session = i /\ t.park = session[i].parks
                      /\ t.claimed <=> ~session[i].parked

PoolInv ==
  /\ PoolConstants /\ SessionTypes /\ CallsFit /\ HeldAlone /\ PoolsKeep /\ IdleBounded
  /\ Owned /\ TimersKnown /\ Armed

-----------------------------------------------------------------------------
(* What the steps keep                                                     *)

\* The initial states.
LEMMA SessionsBegin == PoolConstants /\ SessionsInit => PoolInv
<1> SUFFICES ASSUME PoolConstants, SessionsInit PROVE PoolInv
  OBVIOUS
<1>1. /\ \A c \in Calls : call[c] = NewCall
      /\ \A i \in Sessions : session[i] = NewSession
      /\ \A k \in Keys : pool[k] = {}
  BY DEF SessionsInit
<1>2. NewCall \in CallStates /\ NewSession \in SessionStates
  BY DEF NewCall, NewSession, CallStates, SessionStates, Places
<1>3. SessionTypes
  BY <1>2 DEF SessionsInit, SessionTypes
<1>4. CallsFit /\ HeldAlone
  BY <1>1 DEF CallsFit, HeldAlone, NewCall, Holding, Unsent
<1>5. PoolsKeep /\ Armed
  BY <1>1 DEF PoolsKeep, Armed, SessionsInit
<1>6. IdleBounded
  <2>1. Idle = {}
    BY <1>1 DEF Idle
  <2> QED BY <2>1, FS_EmptySet DEF IdleBounded, PoolConstants
<1>7. Owned /\ TimersKnown
  BY <1>1 DEF Owned, TimersKnown, NewSession, SessionsInit
<1> QED BY <1>3, <1>4, <1>5, <1>6, <1>7 DEF PoolInv

\* Calls may go on as long as they keep the sessions they have.
LEMMA CallsMove ==
  ASSUME PoolInv, UNCHANGED <<request, session, pool, timers, closing>>, now' \in Nat,
         call' \in [Calls -> CallStates], CallsFit',
         \A c \in Calls :
           /\ call'[c].session = call[c].session
           /\ call[c].session # 0 =>
                call'[c].key = call[c].key /\ call'[c].limit = call[c].limit
  PROVE  PoolInv'
<1>1. SessionTypes'
  BY DEF PoolInv, SessionTypes
<1>2. HeldAlone'
  <2>1. HeldAlone
    BY DEF PoolInv
  <2>2. \A c \in Calls : call'[c].session # 0 =>
          /\ session'[call'[c].session].state = "open"
          /\ session'[call'[c].session].key = call'[c].key
          /\ session'[call'[c].session].limit = call'[c].limit
          /\ ~session'[call'[c].session].parked
          /\ call'[c].session \notin closing'
          /\ \A k \in Keys : call'[c].session \notin pool'[k]
    BY <2>1 DEF HeldAlone
  <2>3. \A c, d \in Calls :
          call'[c].session = call'[d].session /\ call'[c].session # 0 => c = d
    BY <2>1 DEF HeldAlone
  <2> QED BY <2>2, <2>3 DEF HeldAlone
<1>3. PoolsKeep' /\ IdleBounded' /\ Armed'
  BY DEF PoolInv, PoolsKeep, IdleBounded, Armed, Idle
<1>4. Owned'
  BY DEF PoolInv, Owned
<1>5. TimersKnown'
  <2>1. \A t \in timers : session[t.session].state = "open" /\ t.claimed =>
          \A c \in Calls : call'[c].session # t.session
    BY DEF PoolInv, TimersKnown
  <2> QED BY <2>1 DEF PoolInv, TimersKnown
<1> QED BY <1>1, <1>2, <1>3, <1>4, <1>5 DEF PoolInv, PoolConstants

\* The dispatcher starts a round.
LEMMA StartRoundInv ==
  ASSUME PoolInv, NEW last, NEW limit \in Limits, StartRound(last, limit)
  PROVE  PoolInv'
<1> DEFINE cs == {c \in 1..last : call[c].at = "none"}
<1>1. PICK key \in [cs -> Keys \cup {NoKey}] :
        call' = [c \in Calls |->
                   IF c \in cs
                   THEN [NewCall EXCEPT !.at = "begin", !.key = key[c], !.limit = limit]
                   ELSE call[c]]
  BY DEF StartRound
<1>2. \A c \in Calls : \/ /\ c \in cs /\ call[c].at = "none"
                          /\ call'[c] = [NewCall EXCEPT !.at = "begin", !.key = key[c],
                                                        !.limit = limit]
                       \/ call'[c] = call[c]
  BY <1>1
<1>3. \A c \in Calls : call[c] \in CallStates
  BY DEF PoolInv, SessionTypes
<1>4. \A c \in cs : key[c] \in Keys \cup {NoKey}
  BY <1>1
<1> HIDE DEF cs
<1>5. \A c \in Calls : call'[c] \in CallStates
  <2>1. ASSUME NEW k \in Keys \cup {NoKey}
        PROVE  [NewCall EXCEPT !.at = "begin", !.key = k, !.limit = limit] \in CallStates
    BY DEF CallStates, NewCall, Places
  <2> QED BY <1>2, <1>3, <1>4, <2>1
<1>6. call' \in [Calls -> CallStates]
  BY <1>1, <1>5
<1>7. CallsFit
  BY DEF PoolInv
<1>8. CallsFit' /\ \A c \in Calls :
        /\ call'[c].session = call[c].session
        /\ call[c].session # 0 =>
             call'[c].key = call[c].key /\ call'[c].limit = call[c].limit
  <2>1. \A c \in Calls : \/ /\ call[c].at = "none" /\ call'[c].session = 0 /\ call'[c].sent = 0
                              /\ call'[c].at = "begin"
                           \/ call'[c] = call[c]
    BY <1>2 DEF NewCall
  <2>2. \A c \in Calls : call[c].at = "none" => call[c].session = 0
    BY <1>7 DEF CallsFit, Holding
  <2>3. CallsFit'
    BY <1>7, <2>1, <2>2 DEF CallsFit, Holding, Unsent
  <2> QED BY <2>1, <2>2, <2>3
<1> QED
  <2>1. UNCHANGED <<request, session, pool, timers, closing>> /\ now' \in Nat
    BY DEF StartRound, PoolInv, SessionTypes
  <2> QED BY <2>1, <1>6, <1>8, CallsMove

\* One call goes on.
LEMMA CallGoes ==
  ASSUME PoolInv, NEW c \in Calls, NEW r \in CallStates,
         UNCHANGED <<now, request, session, pool, timers, closing>>,
         call' = [call EXCEPT ![c] = r],
         r.session = call[c].session,
         r.session # 0 => r.key = call[c].key /\ r.limit = call[c].limit,
         r.session # 0 <=> r.at \in Holding,
         r.at = "checkout" => r.key \in Keys,
         r.sent <= 1, r.at \in Unsent => r.sent = 0
  PROVE  PoolInv'
<1>1. call \in [Calls -> CallStates] /\ CallsFit /\ now' \in Nat
  BY DEF PoolInv, SessionTypes
<1>2. call' \in [Calls -> CallStates] /\ call'[c] = r
      /\ \A d \in Calls \ {c} : call'[d] = call[d]
  BY <1>1
<1>3. CallsFit'
  BY <1>1, <1>2 DEF CallsFit
<1>4. \A d \in Calls :
        /\ call'[d].session = call[d].session
        /\ call[d].session # 0 =>
             call'[d].key = call[d].key /\ call'[d].limit = call[d].limit
  BY <1>2
<1> QED BY <1>1, <1>2, <1>3, <1>4, CallsMove

\* The steps of a call that leave it what it has: before it has a session, or
\* between taking it and giving it back.
LEMMA CallStepsInv ==
  ASSUME PoolInv, NEW c \in Calls,
         \/ Checkout(c) \/ OpenFails(c) \/ Send(c) \/ CallFails(c) \/ SucceedUnpooled(c)
  PROVE  PoolInv'
<1>1. call \in [Calls -> CallStates] /\ call[c] \in CallStates /\ now \in Nat /\ CallsFit
  BY DEF PoolInv, SessionTypes
<1>2. UNCHANGED <<now, request, session, pool, timers, closing>>
  BY DEF Checkout, OpenFails, Send, CallFails, SucceedUnpooled
<1>3. CASE Checkout(c) /\ call[c].key = NoKey
  <2>1. PICK r : r = [call[c] EXCEPT !.at = "open"]
    OBVIOUS
  <2>2. r \in CallStates /\ call' = [call EXCEPT ![c] = r] /\ r.session = 0 /\ call[c].session = 0
        /\ r.at = "open" /\ r.sent <= 1 /\ r.sent = 0
    BY <1>1, <1>3, <2>1 DEF CallStates, Places, Checkout, At, CallsFit, Holding, Unsent
  <2> QED BY <1>2, <2>2, CallGoes DEF Holding, Unsent
<1>4. CASE Checkout(c) /\ call[c].key # NoKey
  <2>1. PICK r : r = [call[c] EXCEPT !.at = "checkout", !.read = now]
    OBVIOUS
  <2>2. r \in CallStates /\ call' = [call EXCEPT ![c] = r] /\ r.session = 0 /\ call[c].session = 0
        /\ r.at = "checkout" /\ r.sent <= 1 /\ r.sent = 0 /\ r.key \in Keys
    BY <1>1, <1>4, <2>1 DEF CallStates, Places, Checkout, At, CallsFit, Holding, Unsent
  <2> QED BY <1>2, <2>2, CallGoes DEF Holding, Unsent
<1>5. CASE OpenFails(c)
  <2>1. PICK r : r = DoneCall
    OBVIOUS
  <2>2. r \in CallStates /\ call' = [call EXCEPT ![c] = r] /\ r.session = 0 /\ call[c].session = 0
        /\ r.at = "done" /\ r.sent <= 1
    BY <1>1, <1>5, <2>1 DEF CallStates, Places, OpenFails, At, CallsFit, Holding, Unsent, DoneCall, NewCall
  <2> QED BY <1>2, <2>2, CallGoes DEF Holding, Unsent
<1>6. CASE Send(c)
  <2>1. PICK r : r = [call[c] EXCEPT !.at = "wait", !.sent = @ + 1]
    OBVIOUS
  <2>2. r \in CallStates /\ call' = [call EXCEPT ![c] = r] /\ r.at = "wait" /\ r.sent <= 1
        /\ r.session # 0 /\ r.session = call[c].session /\ r.key = call[c].key
        /\ r.limit = call[c].limit
    BY <1>1, <1>6, <2>1 DEF CallStates, Places, Send, At, CallsFit, Holding, Unsent
  <2> QED BY <1>2, <2>2, CallGoes DEF Holding, Unsent
<1>7. CASE CallFails(c) \/ SucceedUnpooled(c)
  <2>1. PICK r : r = [call[c] EXCEPT !.at = "close"]
    OBVIOUS
  <2>2. r \in CallStates /\ call' = [call EXCEPT ![c] = r] /\ r.at = "close" /\ r.sent <= 1
        /\ r.session # 0 /\ r.session = call[c].session /\ r.key = call[c].key
        /\ r.limit = call[c].limit
    BY <1>1, <1>7, <2>1
    DEF CallStates, Places, CallFails, SucceedUnpooled, At, CallsFit, Holding, Unsent
  <2> QED BY <1>2, <2>2, CallGoes DEF Holding, Unsent
<1> QED BY <1>3, <1>4, <1>5, <1>6, <1>7

\* A session may lose its worker or its parked flag, as long as the timers fit.
LEMMA SessionsFade ==
  ASSUME PoolInv, UNCHANGED <<now, request, call, pool, closing>>,
         session' \in [Sessions -> SessionStates], timers' \in SUBSET Timers,
         \A i \in Sessions :
           /\ session'[i].state = session[i].state /\ session'[i].key = session[i].key
           /\ session'[i].limit = session[i].limit
           /\ session'[i].parked => session[i].parked,
         TimersKnown', Armed'
  PROVE  PoolInv'
<1>1. SessionTypes'
  BY DEF PoolInv, SessionTypes
<1>2. CallsFit'
  BY DEF PoolInv, CallsFit
<1>3. \A c \in Calls : call[c].session # 0 => call[c].session \in Sessions
  BY DEF PoolInv, SessionTypes, CallStates
<1>4. HeldAlone'
  BY <1>3 DEF PoolInv, HeldAlone
<1>5. PoolsKeep'
  <2>1. \A k \in Keys : pool[k] \in SUBSET Sessions
    BY DEF PoolInv, SessionTypes
  <2> QED BY <2>1 DEF PoolInv, PoolsKeep
<1>6. IdleBounded'
  BY DEF PoolInv, IdleBounded, Idle
<1>7. Owned'
  <2>1. closing \in SUBSET Sessions
    BY DEF PoolInv, SessionTypes
  <2> QED BY <2>1 DEF PoolInv, Owned
<1> QED BY <1>1, <1>2, <1>4, <1>5, <1>6, <1>7 DEF PoolInv, PoolConstants

\* What is parked is in no call's hands, and the timers' fields.
LEMMA TimerFacts ==
  ASSUME PoolInv, NEW t \in timers
  PROVE  /\ t \in Timers /\ t.session \in Sessions /\ session[t.session] \in SessionStates
         /\ session[t.session].parked => \A c \in Calls : call[c].session # t.session
<1>1. t \in Timers /\ t.session \in Sessions /\ session[t.session] \in SessionStates
  BY DEF PoolInv, SessionTypes, Timers
<1>2. t.session # 0
  BY <1>1 DEF PoolInv, PoolConstants
<1> QED BY <1>1, <1>2 DEF PoolInv, HeldAlone

\* A timer claims its session.
LEMMA TimerClaims ==
  ASSUME PoolInv, NEW t \in timers, TimerFires(t),
         session[t.session].parks = t.park, session[t.session].parked
  PROVE  PoolInv'
<1>1. PICK i \in Sessions : i = t.session
  BY TimerFacts
<1>2. PICK u : u = [t EXCEPT !.claimed = TRUE]
  OBVIOUS
<1>3. u \in Timers /\ u.session = i /\ u.park = t.park /\ u.claimed
  BY <1>1, <1>2, TimerFacts DEF Timers
<1>4. timers' = (timers \ {t}) \cup {u} /\ UNCHANGED <<now, request, call, pool, closing>>
  BY <1>2 DEF TimerFires
<1>5. session' = [session EXCEPT ![i].parked = FALSE]
  BY <1>1 DEF TimerFires
<1>6. /\ session \in [Sessions -> SessionStates] /\ timers \in SUBSET Timers
      /\ TimersKnown /\ Armed /\ PoolsKeep
  BY DEF PoolInv, SessionTypes
<1>7. session' \in [Sessions -> SessionStates]
  BY <1>5, <1>6 DEF SessionStates
<1>8. /\ \A j \in Sessions \ {i} : session'[j] = session[j]
      /\ ~session'[i].parked /\ session'[i].state = session[i].state
      /\ session'[i].key = session[i].key /\ session'[i].limit = session[i].limit
      /\ session'[i].parks = session[i].parks /\ session'[i].alive = session[i].alive
  BY <1>5, <1>6 DEF SessionStates
<1>9. TimersKnown'
  <2>1. \A j \in Sessions : session'[j].state = "unused" => ~session'[j].parked
    BY <1>6, <1>8 DEF TimersKnown
  <2>2. \A v \in timers : v.session \in Sessions
    BY <1>6 DEF Timers
  <2>3. \A v \in timers :
          /\ session'[v.session].state # "unused"
          /\ session'[v.session].state = "open" => v.park <= session'[v.session].parks
          /\ session'[v.session].state = "open" /\ v.claimed =>
               /\ ~session'[v.session].parked
               /\ \A c \in Calls : call'[c].session # v.session
    <3>1. \A v \in timers : /\ session'[v.session].state = session[v.session].state
                            /\ session'[v.session].parks = session[v.session].parks
                            /\ session'[v.session].parked => session[v.session].parked
      BY <1>8, <2>2
    <3> QED BY <3>1, <1>4, <1>6 DEF TimersKnown
  <2>4. /\ session'[u.session].state # "unused"
        /\ session'[u.session].state = "open" => u.park <= session'[u.session].parks
        /\ ~session'[u.session].parked
        /\ \A c \in Calls : call'[c].session # u.session
    BY <2>3, <1>1, <1>3, <1>4, <1>8, TimerFacts
  <2>5. \A v, w \in timers' : v.session = w.session /\ v.park = w.park => v = w
    BY <1>1, <1>3, <1>4, <1>6 DEF TimersKnown
  <2> QED BY <1>4, <2>1, <2>3, <2>4, <2>5 DEF TimersKnown
<1>10. Armed'
  <2> SUFFICES ASSUME NEW k \in Keys, NEW j \in pool'[k], session'[j].alive
               PROVE  \E v \in timers' : /\ v.session = j /\ v.park = session'[j].parks
                                         /\ v.claimed <=> ~session'[j].parked
    BY DEF Armed
  <2>1. j \in pool[k] /\ j \in Sessions
    BY <1>4 DEF PoolInv, SessionTypes
  <2>2. CASE j = i
    <3>1. u \in timers' /\ u.park = session'[j].parks
      BY <2>2, <1>1, <1>3, <1>4, <1>8
    <3> QED BY <3>1, <2>2, <1>3, <1>8
  <2>3. CASE j # i
    <3>1. session'[j] = session[j]
      BY <2>1, <2>3, <1>8
    <3>2. PICK v \in timers : /\ v.session = j /\ v.park = session[j].parks
                              /\ v.claimed <=> ~session[j].parked
      BY <2>1, <3>1, <1>6 DEF Armed
    <3>3. v \in timers'
      BY <3>2, <2>3, <1>1, <1>4
    <3> QED BY <3>1, <3>2, <3>3
  <2> QED BY <2>2, <2>3
<1>11. timers' \in SUBSET Timers
  BY <1>3, <1>4, <1>6
<1>12. \A j \in Sessions :
         /\ session'[j].state = session[j].state /\ session'[j].key = session[j].key
         /\ session'[j].limit = session[j].limit
         /\ session'[j].parked => session[j].parked
  BY <1>8
<1> QED BY <1>4, <1>7, <1>9, <1>10, <1>11, <1>12, SessionsFade

\* A timer ends: it came too late, it has been disarmed, or it has cancelled the
\* worker of the session that it had claimed.
LEMMA TimerEnds ==
  ASSUME PoolInv, NEW t \in timers, timers' = timers \ {t},
         UNCHANGED <<now, request, call, pool, closing>>,
         \/ /\ UNCHANGED session /\ ~t.claimed
            /\ session[t.session].parks # t.park \/ ~session[t.session].parked
         \/ session' = [session EXCEPT ![t.session].alive = FALSE]
  PROVE  PoolInv'
<1>1. PICK i \in Sessions : i = t.session
  BY TimerFacts
<1>2. /\ session \in [Sessions -> SessionStates] /\ timers \in SUBSET Timers
      /\ TimersKnown /\ Armed
  BY DEF PoolInv, SessionTypes
<1>3. session' \in [Sessions -> SessionStates]
  <2>1. CASE session' = session
    BY <2>1, <1>2
  <2>2. CASE session' = [session EXCEPT ![i].alive = FALSE]
    BY <2>2, <1>2 DEF SessionStates
  <2> QED BY <2>1, <2>2, <1>1
<1>4. /\ \A j \in Sessions :
           /\ session'[j].state = session[j].state /\ session'[j].key = session[j].key
           /\ session'[j].limit = session[j].limit /\ session'[j].parks = session[j].parks
           /\ session'[j].parked = session[j].parked
      /\ \A j \in Sessions \ {i} : session'[j] = session[j]
      /\ \/ /\ UNCHANGED session /\ ~t.claimed
            /\ (session[i].parks # t.park \/ ~session[i].parked)
         \/ ~session'[i].alive
  <2>1. CASE session' = session
    BY <2>1, <1>1, <1>2 DEF SessionStates
  <2>2. CASE session' = [session EXCEPT ![i].alive = FALSE]
    BY <2>2, <1>1, <1>2 DEF SessionStates
  <2> QED BY <2>1, <2>2, <1>1
<1>5. TimersKnown'
  <2>1. \A v \in timers' : v \in timers /\ v.session \in Sessions
    BY <1>2 DEF Timers
  <2> QED BY <2>1, <1>2, <1>4 DEF TimersKnown
<1>6. Armed'
  <2> SUFFICES ASSUME NEW k \in Keys, NEW j \in pool'[k], session'[j].alive
               PROVE  \E v \in timers' : /\ v.session = j /\ v.park = session'[j].parks
                                         /\ v.claimed <=> ~session'[j].parked
    BY DEF Armed
  <2>1. j \in pool[k] /\ j \in Sessions
    BY DEF PoolInv, SessionTypes
  <2>2. session'[j] = session[j]
    BY <1>4, <2>1
  <2>3. PICK v \in timers : /\ v.session = j /\ v.park = session[j].parks
                            /\ v.claimed <=> ~session[j].parked
    BY <2>1, <2>2, <1>2 DEF Armed
  <2>4. v # t
    BY <1>1, <1>4, <2>2, <2>3
  <2> QED BY <2>2, <2>3, <2>4
<1> QED BY <1>2, <1>3, <1>4, <1>5, <1>6, SessionsFade

\* The timers.
LEMMA TimersInv ==
  ASSUME PoolInv, \E t \in timers : TimerFires(t) \/ TimerCancels(t) \/ TimerDisarmed(t)
  PROVE  PoolInv'
<1>1. PICK t \in timers : TimerFires(t) \/ TimerCancels(t) \/ TimerDisarmed(t)
  OBVIOUS
<1>2. CASE TimerFires(t) /\ session[t.session].parks = t.park /\ session[t.session].parked
  BY <1>2, TimerClaims
<1>3. CASE TimerFires(t) /\ ~(session[t.session].parks = t.park /\ session[t.session].parked)
  BY <1>3, TimerEnds DEF TimerFires
<1>4. CASE TimerCancels(t)
  BY <1>4, TimerEnds DEF TimerCancels
<1>5. CASE TimerDisarmed(t)
  BY <1>5, TimerEnds DEF TimerDisarmed
<1> QED BY <1>1, <1>2, <1>3, <1>4, <1>5

\* A worker ends by itself.
LEMMA WorkerEndsInv ==
  ASSUME PoolInv, NEW i \in Sessions, WorkerEnds(i)
  PROVE  PoolInv'
<1>1. /\ session \in [Sessions -> SessionStates] /\ timers \in SUBSET Timers
      /\ TimersKnown /\ Armed
  BY DEF PoolInv, SessionTypes
<1>2. session' = [session EXCEPT ![i].alive = FALSE]
      /\ UNCHANGED <<now, request, call, pool, timers, closing>>
  BY DEF WorkerEnds
<1>3. session' \in [Sessions -> SessionStates]
  BY <1>1, <1>2 DEF SessionStates
<1>4. /\ \A j \in Sessions :
           /\ session'[j].state = session[j].state /\ session'[j].key = session[j].key
           /\ session'[j].limit = session[j].limit /\ session'[j].parks = session[j].parks
           /\ session'[j].parked = session[j].parked
      /\ \A j \in Sessions : session'[j].alive => session[j].alive
  BY <1>1, <1>2 DEF SessionStates
<1>5. TimersKnown'
  <2>1. \A v \in timers : v.session \in Sessions
    BY <1>1 DEF Timers
  <2> QED BY <2>1, <1>1, <1>2, <1>4 DEF TimersKnown
<1>6. Armed'
  <2>1. \A k \in Keys : pool[k] \in SUBSET Sessions
    BY DEF PoolInv, SessionTypes
  <2> QED BY <2>1, <1>1, <1>2, <1>4 DEF Armed
<1> QED BY <1>1, <1>2, <1>3, <1>4, <1>5, <1>6, SessionsFade

\* A session is opened for a call.
LEMMA OpenInv ==
  ASSUME PoolInv, NEW c \in Calls, Open(c)
  PROVE  PoolInv'
<1>1. PICK i \in Sessions :
        /\ session[i].state = "unused"
        /\ session' = [session EXCEPT ![i].state = "open", ![i].alive = TRUE,
                                      ![i].key = call[c].key, ![i].limit = call[c].limit]
        /\ call' = [call EXCEPT ![c].at = "call", ![c].session = i]
  BY DEF Open
<1>2. call[c].at = "open" /\ UNCHANGED <<now, request, pool, timers, closing>>
  BY DEF Open, At
<1>3. /\ SessionTypes /\ CallsFit /\ HeldAlone /\ PoolsKeep /\ Owned /\ TimersKnown /\ Armed
      /\ call \in [Calls -> CallStates] /\ session \in [Sessions -> SessionStates]
      /\ call[c] \in CallStates /\ session[i] \in SessionStates /\ i # 0
      /\ \A k \in Keys : pool[k] \in SUBSET Sessions
  BY DEF PoolInv, PoolConstants, SessionTypes
<1>4. /\ \A j \in Sessions \ {i} : session'[j] = session[j]
      /\ session'[i].state = "open" /\ session'[i].key = call[c].key
      /\ session'[i].limit = call[c].limit /\ session'[i].parks = session[i].parks
      /\ session'[i].parked = session[i].parked
      /\ session' \in [Sessions -> SessionStates]
  BY <1>1, <1>3 DEF SessionStates, CallStates
<1>5. /\ \A d \in Calls \ {c} : call'[d] = call[d]
      /\ call'[c].at = "call" /\ call'[c].session = i /\ call'[c].key = call[c].key
      /\ call'[c].limit = call[c].limit /\ call'[c].sent = call[c].sent
      /\ call' \in [Calls -> CallStates]
  BY <1>1, <1>3 DEF CallStates, Places, Holding
<1>6. call[c].session = 0
  BY <1>2, <1>3 DEF CallsFit, Holding
<1>7. \A d \in Calls : call[d].session # i
  BY <1>1, <1>3 DEF HeldAlone
<1>8. i \notin closing /\ \A k \in Keys : i \notin pool[k]
  BY <1>1, <1>3 DEF Owned, PoolsKeep
<1>9. ~session[i].parked /\ \A t \in timers : t.session # i /\ t.session \in Sessions
  BY <1>1, <1>3 DEF TimersKnown, SessionTypes, Timers
<1>10. SessionTypes'
  BY <1>2, <1>3, <1>4, <1>5 DEF SessionTypes
<1>11. CallsFit'
  <2>1. call[c].sent = 0
    BY <1>2, <1>3 DEF CallsFit, Unsent
  <2> QED BY <2>1, <1>3, <1>5 DEF CallsFit, Holding, Unsent
<1>12. HeldAlone'
  <2>1. \A d \in Calls \ {c} : call[d].session # 0 =>
          call[d].session \in Sessions /\ call[d].session # i
    BY <1>3, <1>7 DEF CallStates
  <2>2. \A d \in Calls : call'[d].session # 0 =>
          /\ session'[call'[d].session].state = "open"
          /\ session'[call'[d].session].key = call'[d].key
          /\ session'[call'[d].session].limit = call'[d].limit
          /\ ~session'[call'[d].session].parked
          /\ call'[d].session \notin closing'
          /\ \A k \in Keys : call'[d].session \notin pool'[k]
    <3> SUFFICES ASSUME NEW d \in Calls, call'[d].session # 0
                 PROVE  /\ session'[call'[d].session].state = "open"
                        /\ session'[call'[d].session].key = call'[d].key
                        /\ session'[call'[d].session].limit = call'[d].limit
                        /\ ~session'[call'[d].session].parked
                        /\ call'[d].session \notin closing'
                        /\ \A k \in Keys : call'[d].session \notin pool'[k]
      OBVIOUS
    <3>1. CASE d = c
      BY <3>1, <1>2, <1>4, <1>5, <1>8, <1>9
    <3>2. CASE d # c
      <4>1. call'[d] = call[d] /\ session'[call[d].session] = session[call[d].session]
        BY <3>2, <1>4, <1>5, <2>1
      <4> QED BY <4>1, <1>2, <1>3 DEF HeldAlone
    <3> QED BY <3>1, <3>2
  <2>3. \A d, e \in Calls :
          call'[d].session = call'[e].session /\ call'[d].session # 0 => d = e
    BY <1>3, <1>5, <1>7 DEF HeldAlone
  <2> QED BY <2>2, <2>3 DEF HeldAlone
<1>13. PoolsKeep' /\ IdleBounded' /\ Armed'
  <2>1. \A k \in Keys : \A j \in pool[k] : session'[j] = session[j]
    BY <1>3, <1>4, <1>8
  <2>2. PoolsKeep'
    BY <2>1, <1>2, <1>3 DEF PoolsKeep
  <2>3. IdleBounded'
    BY <1>2 DEF PoolInv, IdleBounded, Idle
  <2>4. Armed'
    BY <2>1, <1>2, <1>3 DEF Armed
  <2> QED BY <2>2, <2>3, <2>4
<1>14. Owned'
  <2>1. \A j \in closing : session'[j] = session[j]
    BY <1>3, <1>4, <1>8 DEF SessionTypes
  <2>2. \A j \in Sessions : session'[j].state = "open" =>
          \/ \E d \in Calls : call'[d].session = j
          \/ \E k \in Keys : j \in pool'[k]
          \/ j \in closing'
    <3> SUFFICES ASSUME NEW j \in Sessions, session'[j].state = "open", j # i
                 PROVE  \/ \E d \in Calls : call'[d].session = j
                        \/ \E k \in Keys : j \in pool'[k]
                        \/ j \in closing'
      BY <1>5
    <3>1. \A d \in Calls : call[d].session = j => call'[d].session = j
      <4>1. j # 0
        BY DEF PoolInv, PoolConstants
      <4> QED BY <4>1, <1>5, <1>6
    <3> QED BY <3>1, <1>2, <1>3, <1>4 DEF Owned
  <2> QED BY <2>1, <2>2, <1>2, <1>3 DEF Owned
<1>15. TimersKnown'
  <2>1. \A t \in timers : session'[t.session] = session[t.session]
    BY <1>4, <1>9
  <2>2. \A t \in timers : \A d \in Calls :
          call[d].session # t.session => call'[d].session # t.session
    BY <1>5, <1>9
  <2>3. \A j \in Sessions : session'[j].state = "unused" => ~session'[j].parked
    BY <1>3, <1>4 DEF TimersKnown
  <2>4. \A t \in timers :
          /\ session'[t.session].state # "unused"
          /\ session'[t.session].state = "open" => t.park <= session'[t.session].parks
          /\ session'[t.session].state = "open" /\ t.claimed =>
               /\ ~session'[t.session].parked
               /\ \A d \in Calls : call'[d].session # t.session
    BY <2>1, <2>2, <1>3 DEF TimersKnown
  <2> QED BY <2>3, <2>4, <1>2, <1>3 DEF TimersKnown
<1> QED BY <1>10, <1>11, <1>12, <1>13, <1>14, <1>15 DEF PoolInv, PoolConstants

\* A session is closed, by the call that has it or in the background: nobody else
\* has it.
LEMMA ClosesInv ==
  ASSUME PoolInv, NEW i \in Sessions, session' = [session EXCEPT ![i] = ClosedSession],
         UNCHANGED <<now, request, pool, timers>>,
         \/ /\ \E c \in Calls : call[c].session = i /\ call' = [call EXCEPT ![c] = DoneCall]
            /\ UNCHANGED closing
         \/ i \in closing /\ closing' = closing \ {i} /\ UNCHANGED call
  PROVE  PoolInv'
<1>1. /\ SessionTypes /\ CallsFit /\ HeldAlone /\ PoolsKeep /\ Owned /\ TimersKnown /\ Armed
      /\ call \in [Calls -> CallStates] /\ session \in [Sessions -> SessionStates]
      /\ i # 0 /\ closing \in SUBSET Sessions
      /\ \A k \in Keys : pool[k] \in SUBSET Sessions
  BY DEF PoolInv, PoolConstants, SessionTypes
<1>2. /\ \A j \in Sessions \ {i} : session'[j] = session[j]
      /\ session'[i].state = "closed" /\ ~session'[i].parked
      /\ session' \in [Sessions -> SessionStates]
  BY <1>1 DEF SessionStates, ClosedSession, NewSession
<1>3. DoneCall \in CallStates /\ DoneCall.session = 0 /\ DoneCall.at = "done" /\ DoneCall.sent = 0
  BY DEF CallStates, DoneCall, NewCall, Places
<1>4. call' \in [Calls -> CallStates]
      /\ \A d \in Calls : call'[d] = DoneCall \/ (call'[d] = call[d] /\ call[d].session # i)
  <2>1. CASE \E c \in Calls : call[c].session = i /\ call' = [call EXCEPT ![c] = DoneCall]
    BY <2>1, <1>1, <1>3 DEF HeldAlone
  <2>2. CASE i \in closing /\ UNCHANGED call
    BY <2>2, <1>1 DEF HeldAlone
  <2> QED BY <2>1, <2>2
<1>5. /\ i \notin closing' /\ closing' \in SUBSET closing
      /\ \A j \in closing : j # i => j \in closing'
      /\ \A k \in Keys : i \notin pool[k]
  BY <1>1 DEF HeldAlone, PoolsKeep
<1>6. \A d \in Calls : \A j \in Sessions \ {i} : call[d].session = j => call'[d].session = j
  <2>1. CASE \E c \in Calls : call[c].session = i /\ call' = [call EXCEPT ![c] = DoneCall]
    BY <2>1, <1>1
  <2>2. CASE UNCHANGED call
    BY <2>2
  <2> QED BY <2>1, <2>2
<1>7. SessionTypes'
  BY <1>1, <1>2, <1>4, <1>5 DEF SessionTypes
<1>8. CallsFit'
  BY <1>1, <1>3, <1>4 DEF CallsFit, Holding, Unsent
<1>9. HeldAlone'
  <2>1. \A d \in Calls : call'[d].session # 0 =>
          /\ call'[d] = call[d] /\ call[d].session \in Sessions \ {i}
          /\ session'[call[d].session] = session[call[d].session]
    BY <1>1, <1>2, <1>3, <1>4 DEF CallStates
  <2> QED BY <2>1, <1>1, <1>5 DEF HeldAlone
<1>10. PoolsKeep' /\ IdleBounded' /\ Armed'
  <2>1. \A k \in Keys : \A j \in pool[k] : session'[j] = session[j]
    BY <1>1, <1>2, <1>5
  <2>2. PoolsKeep'
    BY <2>1, <1>1, <1>5 DEF PoolsKeep
  <2>3. IdleBounded'
    BY DEF PoolInv, IdleBounded, Idle
  <2>4. Armed'
    BY <2>1, <1>1 DEF Armed
  <2> QED BY <2>2, <2>3, <2>4
<1>11. Owned'
  <2>1. \A j \in closing' : session'[j].state = "open"
    BY <1>1, <1>2, <1>5 DEF Owned
  <2>2. \A j \in Sessions : session'[j].state = "open" =>
          \/ \E d \in Calls : call'[d].session = j
          \/ \E k \in Keys : j \in pool'[k]
          \/ j \in closing'
    <3> SUFFICES ASSUME NEW j \in Sessions, session'[j].state = "open"
                 PROVE  \/ \E d \in Calls : call'[d].session = j
                        \/ \E k \in Keys : j \in pool'[k]
                        \/ j \in closing'
      OBVIOUS
    <3>1. j # i /\ session[j].state = "open"
      BY <1>2
    <3> QED BY <3>1, <1>1, <1>5, <1>6 DEF Owned
  <2> QED BY <2>1, <2>2 DEF Owned
<1>12. TimersKnown'
  <2>1. \A t \in timers : t.session \in Sessions
    BY <1>1 DEF SessionTypes, Timers
  <2>2. \A j \in Sessions : session'[j].state = "unused" => ~session'[j].parked
    BY <1>1, <1>2 DEF TimersKnown
  <2>3. \A t \in timers : \A d \in Calls :
          call[d].session # t.session => call'[d].session # t.session
    BY <2>1, <1>1, <1>3, <1>4 DEF PoolInv, PoolConstants
  <2>4. ASSUME NEW t \in timers
        PROVE  /\ session'[t.session].state # "unused"
               /\ session'[t.session].state = "open" => t.park <= session'[t.session].parks
               /\ session'[t.session].state = "open" /\ t.claimed =>
                    /\ ~session'[t.session].parked
                    /\ \A d \in Calls : call'[d].session # t.session
    <3>1. CASE t.session = i
      BY <3>1, <1>2
    <3>2. CASE t.session # i
      BY <3>2, <2>1, <2>3, <1>1, <1>2 DEF TimersKnown
    <3> QED BY <3>1, <3>2
  <2> QED BY <2>2, <2>4, <1>1 DEF TimersKnown
<1> QED BY <1>7, <1>8, <1>9, <1>10, <1>11, <1>12 DEF PoolInv, PoolConstants

\* Fewer idle sessions are within the limit as well.
LEMMA FewerIdle ==
  ASSUME PoolInv, pool' \in [Keys -> SUBSET Sessions], \A k \in Keys : pool'[k] \in SUBSET pool[k]
  PROVE  IdleBounded'
<1>1. Idle' \in SUBSET Idle
  BY DEF Idle
<1>2. PICK A : A = Idle
  OBVIOUS
<1>3. PICK B : B = Idle'
  OBVIOUS
<1>4. IsFiniteSet(A) /\ Cardinality(A) <= MAX_TOTAL_IDLE /\ MAX_TOTAL_IDLE \in Nat
  BY <1>2 DEF PoolInv, IdleBounded, PoolConstants
<1>5. IsFiniteSet(B) /\ Cardinality(B) <= Cardinality(A)
  BY <1>1, <1>2, <1>3, <1>4, FS_Subset
<1>6. Cardinality(A) \in Nat /\ Cardinality(B) \in Nat
  BY <1>4, <1>5, FS_CardinalityType
<1> QED BY <1>3, <1>4, <1>5, <1>6 DEF IdleBounded

\* A check-out takes the idle session of its key, or closes it.
LEMMA CheckoutTakesInv ==
  ASSUME PoolInv, NEW c \in Calls, CheckoutTakes(c)
  PROVE  PoolInv'
<1>1. /\ SessionTypes /\ CallsFit /\ HeldAlone /\ PoolsKeep /\ Owned /\ TimersKnown /\ Armed
      /\ call \in [Calls -> CallStates] /\ session \in [Sessions -> SessionStates]
      /\ call[c] \in CallStates /\ closing \in SUBSET Sessions /\ 0 \notin Sessions
      /\ pool \in [Keys -> SUBSET Sessions]
  BY DEF PoolInv, PoolConstants, SessionTypes
<1>2. /\ call[c].at = "checkout" /\ request = "live" /\ call[c].session = 0
      /\ call[c].sent = 0 /\ UNCHANGED <<now, request, timers>>
  BY <1>1 DEF CheckoutTakes, At, CallsFit, Holding, Unsent
<1>3. PICK k \in Keys : k = call[c].key
  BY <1>1, <1>2 DEF CallsFit
<1>4. PICK found \in SUBSET Sessions : found = pool[k]
  BY <1>1
<1>5. PICK took \in Sessions \cup {0} :
        /\ \/ /\ took \in found /\ session[took].parked /\ session[took].limit = call[c].limit
              /\ call' = [call EXCEPT ![c].at = "call", ![c].session = took, ![c].read = 0]
           \/ took = 0 /\ call' = [call EXCEPT ![c].at = "open", ![c].read = 0]
        /\ closing' = closing \cup (found \ {took})
  <2>1. CASE \E i \in found :
               /\ Usable(c, i)
               /\ call' = [call EXCEPT ![c].at = "call", ![c].session = i, ![c].read = 0]
               /\ closing' = closing \cup (found \ {i})
    BY <2>1 DEF Usable, UnparkClaims
  <2>2. CASE /\ call' = [call EXCEPT ![c].at = "open", ![c].read = 0]
             /\ closing' = closing \cup found
    <3>1. found \ {0} = found
      BY <1>1
    <3> QED BY <2>2, <3>1
  <2> QED BY <2>1, <2>2, <1>3, <1>4 DEF CheckoutTakes
<1>6. /\ pool' = [pool EXCEPT ![k] = {}]
      /\ session' = [i \in Sessions |->
                       IF i \in found THEN [session[i] EXCEPT !.parked = FALSE] ELSE session[i]]
  BY <1>3, <1>4 DEF CheckoutTakes
<1>7. /\ session' \in [Sessions -> SessionStates]
      /\ \A i \in Sessions :
           /\ session'[i].state = session[i].state /\ session'[i].key = session[i].key
           /\ session'[i].limit = session[i].limit /\ session'[i].parks = session[i].parks
           /\ session'[i].parked => session[i].parked
           /\ i \in found => ~session'[i].parked
           /\ i \notin found => session'[i] = session[i]
  <2>1. \A i \in Sessions : session[i] \in SessionStates
    BY <1>1
  <2>2. \A i \in Sessions : [session[i] EXCEPT !.parked = FALSE] \in SessionStates
    BY <2>1 DEF SessionStates
  <2>3. \A i \in Sessions :
          \/ i \in found /\ session'[i] = [session[i] EXCEPT !.parked = FALSE]
          \/ i \notin found /\ session'[i] = session[i]
    BY <1>6
  <2>4. session' \in [Sessions -> SessionStates]
    BY <2>1, <2>2, <1>6
  <2> QED BY <2>1, <2>3, <2>4 DEF SessionStates
<1>8. /\ call' \in [Calls -> CallStates] /\ \A d \in Calls \ {c} : call'[d] = call[d]
      /\ call'[c].session = took /\ call'[c].key = k /\ call'[c].limit = call[c].limit
      /\ call'[c].sent = 0
      /\ call'[c].at = IF took = 0 THEN "open" ELSE "call"
  <2>1. CASE took = 0
    <3>1. call' = [call EXCEPT ![c].at = "open", ![c].read = 0]
      BY <2>1, <1>1, <1>5
    <3> QED BY <3>1, <2>1, <1>1, <1>2, <1>3 DEF CallStates, Places
  <2>2. CASE took # 0
    <3>1. call' = [call EXCEPT ![c].at = "call", ![c].session = took, ![c].read = 0]
      BY <2>2, <1>5
    <3> QED BY <3>1, <2>2, <1>1, <1>2, <1>3 DEF CallStates, Places, Holding
  <2> QED BY <2>1, <2>2
<1>9. pool' \in [Keys -> SUBSET Sessions] /\ pool'[k] = {} /\ \A j \in Keys \ {k} : pool'[j] = pool[j]
  BY <1>1, <1>6
<1>10. /\ \A i \in found : session[i].state = "open" /\ session[i].key = k /\ i \notin closing
       /\ \A i \in found : \A d \in Calls : call[d].session # i
       /\ \A i \in found : \A j \in Keys : i \notin pool'[j]
  BY <1>1, <1>4, <1>9 DEF PoolsKeep, HeldAlone
<1>11. SessionTypes'
  BY <1>1, <1>2, <1>5, <1>7, <1>8, <1>9 DEF SessionTypes
<1>12. CallsFit'
  BY <1>1, <1>8 DEF CallsFit, Holding, Unsent
<1>13. HeldAlone'
  <2>1. ASSUME NEW d \in Calls, call'[d].session # 0
        PROVE  /\ session'[call'[d].session].state = "open"
               /\ session'[call'[d].session].key = call'[d].key
               /\ session'[call'[d].session].limit = call'[d].limit
               /\ ~session'[call'[d].session].parked
               /\ call'[d].session \notin closing'
               /\ \A j \in Keys : call'[d].session \notin pool'[j]
    <3>1. CASE d = c
      <4>1. /\ took \in found /\ call'[d].session = took /\ took \notin closing'
            /\ session[took].limit = call[c].limit
        BY <3>1, <2>1, <1>5, <1>8, <1>10
      <4> QED BY <4>1, <3>1, <1>7, <1>8, <1>10
    <3>2. CASE d # c
      <4>1. call'[d] = call[d] /\ call[d].session \in Sessions /\ call[d].session \notin found
        BY <3>2, <2>1, <1>1, <1>8, <1>10 DEF CallStates
      <4>2. session'[call[d].session] = session[call[d].session]
        BY <4>1, <1>7
      <4>3. \A j \in Keys : pool'[j] \in SUBSET pool[j]
        BY <1>9
      <4>4. /\ session[call[d].session].state = "open" /\ session[call[d].session].key = call[d].key
            /\ session[call[d].session].limit = call[d].limit
            /\ ~session[call[d].session].parked /\ call[d].session \notin closing
            /\ \A j \in Keys : call[d].session \notin pool[j]
        BY <4>1, <2>1, <1>1 DEF HeldAlone
      <4>5. call[d].session \notin closing' /\ \A j \in Keys : call[d].session \notin pool'[j]
        BY <4>1, <4>3, <4>4, <1>5
      <4> QED BY <4>1, <4>2, <4>4, <4>5
    <3> QED BY <3>1, <3>2
  <2>2. ASSUME NEW d \in Calls, NEW e \in Calls, call'[d].session = call'[e].session,
               call'[d].session # 0
        PROVE  d = e
    <3>1. call'[d].session \in found => d = c /\ e = c
      BY <2>2, <1>8, <1>10
    <3>2. call'[d].session \notin found => call'[d] = call[d] /\ call'[e] = call[e]
      BY <2>2, <1>5, <1>8
    <3> QED BY <3>1, <3>2, <2>2, <1>1 DEF HeldAlone
  <2> QED BY <2>1, <2>2 DEF HeldAlone
<1>14. PoolsKeep'
  <2>1. \A j \in Keys : \A i \in pool'[j] : i \in pool[j] /\ i \in Sessions /\ i \notin found
    BY <1>1, <1>9, <1>10
  <2> QED BY <2>1, <1>1, <1>2, <1>5, <1>7, <1>9 DEF PoolsKeep
<1>15. IdleBounded'
  BY <1>9, FewerIdle
<1>16. Owned'
  <2>1. \A i \in closing' : session'[i].state = "open"
    BY <1>1, <1>5, <1>7, <1>10 DEF Owned
  <2>2. ASSUME NEW i \in Sessions, session'[i].state = "open"
        PROVE  \/ \E d \in Calls : call'[d].session = i
               \/ \E j \in Keys : i \in pool'[j]
               \/ i \in closing'
    <3>1. CASE i \in found
      BY <3>1, <1>5, <1>8
    <3>2. CASE i \notin found
      <4>1. \A d \in Calls : call[d].session = i => call'[d].session = i
        BY <1>1, <1>2, <1>8
      <4>2. \A j \in Keys : i \in pool[j] => i \in pool'[j]
        BY <3>2, <1>4, <1>9
      <4> QED BY <4>1, <4>2, <2>2, <1>1, <1>5, <1>7 DEF Owned
    <3> QED BY <3>1, <3>2
  <2> QED BY <2>1, <2>2 DEF Owned
<1>17. TimersKnown'
  <2>1. \A t \in timers : t.session \in Sessions
    BY <1>1 DEF SessionTypes, Timers
  <2>2. \A i \in Sessions : session'[i].state = "unused" => ~session'[i].parked
    BY <1>1, <1>7 DEF TimersKnown
  <2>3. ASSUME NEW t \in timers, session[t.session].state = "open", t.claimed
        PROVE  \A d \in Calls : call'[d].session # t.session
    <3>1. ~session[t.session].parked /\ \A d \in Calls : call[d].session # t.session
      BY <2>3, <1>1 DEF TimersKnown
    <3>2. took # t.session
      BY <3>1, <2>1, <1>1, <1>5
    <3> QED BY <3>1, <3>2, <1>8
  <2>4. \A t \in timers :
          /\ session'[t.session].state # "unused"
          /\ session'[t.session].state = "open" => t.park <= session'[t.session].parks
          /\ session'[t.session].state = "open" /\ t.claimed =>
               /\ ~session'[t.session].parked
               /\ \A d \in Calls : call'[d].session # t.session
    BY <2>1, <2>3, <1>1, <1>7 DEF TimersKnown
  <2> QED BY <2>2, <2>4, <1>1, <1>2 DEF TimersKnown
<1>18. Armed'
  <2>1. \A j \in Keys : \A i \in pool'[j] : i \in pool[j] /\ session'[i] = session[i]
    BY <1>1, <1>7, <1>9, <1>10
  <2> QED BY <2>1, <1>1, <1>2 DEF Armed
<1> QED BY <1>11, <1>12, <1>13, <1>14, <1>15, <1>16, <1>17, <1>18 DEF PoolInv, PoolConstants

\* A call gives its session back: it is closed, or parked with a timer of its own in
\* place of the idle sessions of another limit.
LEMMA CheckinInv ==
  ASSUME PoolInv, NEW c \in Calls, Checkin(c)
  PROVE  PoolInv'
<1>1. /\ SessionTypes /\ CallsFit /\ HeldAlone /\ PoolsKeep /\ Owned /\ TimersKnown /\ Armed
      /\ call \in [Calls -> CallStates] /\ session \in [Sessions -> SessionStates]
      /\ call[c] \in CallStates /\ closing \in SUBSET Sessions /\ 0 \notin Sessions
      /\ pool \in [Keys -> SUBSET Sessions] /\ timers \in SUBSET Timers /\ now \in Nat
  BY DEF PoolInv, PoolConstants, SessionTypes
<1>2. call[c].at = "wait" /\ request = "live" /\ UNCHANGED <<now, request>>
  BY DEF Checkin, At
<1>3. PICK k \in Keys : k = call[c].key
  BY <1>1 DEF Checkin, CallStates
<1>4. PICK i \in Sessions : i = call[c].session
  BY <1>1, <1>2 DEF CallsFit, CallStates, Holding
<1>5. PICK old \in SUBSET Sessions : old = pool[k]
  BY <1>1
<1>6. PICK kept \in SUBSET old : kept = {j \in pool[k] : session[j].limit = session[i].limit}
  BY <1>5
<1>7. \/ /\ pool' = [pool EXCEPT ![k] = kept]
         /\ closing' = closing \cup (old \ kept) \cup {i}
         /\ UNCHANGED <<session, timers>>
      \/ /\ kept = {} /\ ~(Cardinality(Idle) - Cardinality(old) >= MAX_TOTAL_IDLE)
         /\ pool' = [pool EXCEPT ![k] = {i}]
         /\ closing' = closing \cup old
         /\ Park(i)
  <2>1. old \ {} = old
    OBVIOUS
  <2> QED BY <2>1, <1>3, <1>4, <1>5, <1>6 DEF Checkin
<1>8. DoneCall \in CallStates /\ DoneCall.session = 0 /\ DoneCall.at = "done" /\ DoneCall.sent = 0
  BY DEF CallStates, DoneCall, NewCall, Places
<1>9. /\ call' \in [Calls -> CallStates] /\ call'[c] = DoneCall
      /\ \A d \in Calls \ {c} : call'[d] = call[d]
  BY <1>1, <1>8 DEF Checkin
<1>10. /\ session[i].state = "open" /\ session[i].key = k /\ ~session[i].parked
       /\ i \notin closing /\ \A j \in Keys : i \notin pool[j]
       /\ \A d \in Calls \ {c} : call[d].session # i
  BY <1>1, <1>3, <1>4 DEF HeldAlone
<1>11. \A d \in Calls : \A j \in Sessions : j # i =>
         (call'[d].session = j <=> call[d].session = j)
  BY <1>1, <1>4, <1>8, <1>9
<1>12. \A d \in Calls : call'[d].session # 0 =>
         /\ d # c /\ call'[d] = call[d] /\ call[d].session # i
         /\ call[d].session \in Sessions /\ call[d].session \notin old
         /\ call[d].session \notin closing
  BY <1>1, <1>5, <1>8, <1>9, <1>10 DEF HeldAlone, CallStates
<1>13. CallsFit'
  BY <1>1, <1>8, <1>9 DEF CallsFit, Holding, Unsent
<1>14. \A j \in old : session[j].state = "open" /\ j # i /\ j \notin closing
  BY <1>1, <1>5, <1>10 DEF PoolsKeep
<1>15. CASE /\ pool' = [pool EXCEPT ![k] = kept]
            /\ closing' = closing \cup (old \ kept) \cup {i}
            /\ UNCHANGED <<session, timers>>
  <2>1. /\ pool' \in [Keys -> SUBSET Sessions] /\ pool'[k] = kept
        /\ \A j \in Keys \ {k} : pool'[j] = pool[j]
        /\ \A j \in Keys : pool'[j] \in SUBSET pool[j]
    BY <1>1, <1>5, <1>6, <1>15
  <2>2. SessionTypes'
    BY <1>1, <1>2, <1>9, <1>15, <2>1 DEF SessionTypes
  <2>3. HeldAlone'
    <3>1. ASSUME NEW d \in Calls, call'[d].session # 0
          PROVE  /\ session'[call'[d].session].state = "open"
                 /\ session'[call'[d].session].key = call'[d].key
                 /\ session'[call'[d].session].limit = call'[d].limit
                 /\ ~session'[call'[d].session].parked
                 /\ call'[d].session \notin closing'
                 /\ \A j \in Keys : call'[d].session \notin pool'[j]
      BY <3>1, <2>1, <1>1, <1>12, <1>15 DEF HeldAlone
    <3> QED BY <3>1, <1>1, <1>12 DEF HeldAlone
  <2>4. PoolsKeep'
    <3>1. \A j \in Keys : \A x \in pool'[j] : x \notin closing'
      <4>1. \A j \in Keys : \A x \in pool'[j] : x \in pool[j] /\ x \notin closing /\ x # i
        BY <2>1, <1>1, <1>10 DEF PoolsKeep
      <4>2. \A j \in Keys : \A x \in pool[j] : x \in old => j = k
        BY <1>1, <1>5 DEF PoolsKeep
      <4>3. \A j \in Keys : \A x \in pool'[j] : x \notin old \ kept
        BY <4>1, <4>2, <2>1
      <4> QED BY <4>1, <4>3, <1>15
    <3> QED BY <3>1, <2>1, <1>1, <1>2, <1>15 DEF PoolsKeep
  <2>5. IdleBounded'
    BY <2>1, FewerIdle
  <2>6. Owned'
    <3>1. \A j \in closing' : session'[j].state = "open"
      BY <1>1, <1>10, <1>14, <1>15 DEF Owned
    <3>2. ASSUME NEW j \in Sessions, session'[j].state = "open"
          PROVE  \/ \E d \in Calls : call'[d].session = j
                 \/ \E x \in Keys : j \in pool'[x]
                 \/ j \in closing'
      <4>1. CASE j = i \/ j \in old
        BY <4>1, <1>15, <2>1
      <4>2. CASE j # i /\ j \notin old
        <5>1. \A x \in Keys : j \in pool[x] => j \in pool'[x]
          BY <4>2, <2>1, <1>5
        <5> QED BY <5>1, <4>2, <3>2, <1>1, <1>11, <1>15 DEF Owned
      <4> QED BY <4>1, <4>2
    <3> QED BY <3>1, <3>2 DEF Owned
  <2>7. TimersKnown'
    <3>1. \A t \in timers : t.session \in Sessions
      BY <1>1 DEF Timers
    <3>2. \A t \in timers : \A d \in Calls :
            call[d].session # t.session => call'[d].session # t.session
      BY <3>1, <1>1, <1>8, <1>9
    <3> QED BY <3>2, <1>1, <1>15 DEF TimersKnown
  <2>8. Armed'
    BY <2>1, <1>1, <1>15 DEF Armed
  <2> QED BY <1>13, <2>2, <2>3, <2>4, <2>5, <2>6, <2>7, <2>8 DEF PoolInv, PoolConstants
<1>16. CASE /\ kept = {} /\ ~(Cardinality(Idle) - Cardinality(old) >= MAX_TOTAL_IDLE)
            /\ pool' = [pool EXCEPT ![k] = {i}]
            /\ closing' = closing \cup old
            /\ Park(i)
  <2>1. /\ pool' \in [Keys -> SUBSET Sessions] /\ pool'[k] = {i}
        /\ \A j \in Keys \ {k} : pool'[j] = pool[j]
    BY <1>1, <1>16
  <2>2. PICK p \in Nat : p = session[i].parks /\ p + 1 \in Nat
    BY <1>1 DEF SessionStates
  <2>3. PICK u : u = [session |-> i, park |-> session[i].parks + 1, due |-> now + MAX_IDLE_AGE,
                      claimed |-> FALSE]
    OBVIOUS
  <2>4. /\ u \in Timers /\ u.session = i /\ u.park = p + 1 /\ ~u.claimed
        /\ timers' = timers \cup {u}
    <3>1. MAX_IDLE_AGE \in Nat
      BY DEF PoolInv, PoolConstants
    <3> QED BY <3>1, <2>2, <2>3, <1>1, <1>16 DEF Timers, Park
  <2>5. /\ session' \in [Sessions -> SessionStates]
        /\ \A j \in Sessions \ {i} : session'[j] = session[j]
        /\ session'[i].state = "open" /\ session'[i].key = k /\ session'[i].parked
        /\ session'[i].parks = p + 1
    <3>1. session' = [session EXCEPT ![i].parked = TRUE, ![i].parkedAt = now, ![i].parks = @ + 1]
      BY <1>16 DEF Park
    <3>2. session[i] \in SessionStates
      BY <1>1
    <3> QED BY <3>1, <3>2, <2>2, <1>1, <1>10 DEF SessionStates
  <2>6. SessionTypes'
    BY <1>1, <1>2, <1>9, <1>16, <2>1, <2>4, <2>5 DEF SessionTypes
  <2>7. HeldAlone'
    <3>1. ASSUME NEW d \in Calls, call'[d].session # 0
          PROVE  /\ session'[call'[d].session].state = "open"
                 /\ session'[call'[d].session].key = call'[d].key
                 /\ session'[call'[d].session].limit = call'[d].limit
                 /\ ~session'[call'[d].session].parked
                 /\ call'[d].session \notin closing'
                 /\ \A j \in Keys : call'[d].session \notin pool'[j]
      <4>1. /\ call'[d] = call[d] /\ call[d].session # i /\ call[d].session \notin closing'
            /\ session'[call[d].session] = session[call[d].session]
        BY <3>1, <2>5, <1>12, <1>16
      <4>2. \A j \in Keys : call[d].session \notin pool'[j]
        BY <3>1, <4>1, <2>1, <1>1 DEF HeldAlone
      <4>3. call[d].session # 0
        BY <3>1, <4>1
      <4>4. /\ session[call[d].session].state = "open"
            /\ session[call[d].session].key = call[d].key
            /\ session[call[d].session].limit = call[d].limit
            /\ ~session[call[d].session].parked
        BY <4>3, <1>1 DEF HeldAlone
      <4> QED BY <4>1, <4>2, <4>4
    <3> QED BY <3>1, <1>1, <1>12 DEF HeldAlone
  <2>8. PoolsKeep'
    <3>1. \A j \in Keys \ {k} : \A x \in pool[j] :
            x \in Sessions /\ x # i /\ x \notin old /\ x \notin closing
      BY <1>1, <1>5, <1>10 DEF PoolsKeep
    <3>2. \A j \in Keys \ {k} : \A x \in pool'[j] :
            /\ session'[x].state = "open" /\ session'[x].key = j /\ x \notin closing'
            /\ \A y \in pool'[j] : x = y
      BY <3>1, <2>1, <2>5, <1>1, <1>16 DEF PoolsKeep
    <3>3. i \notin closing'
      BY <1>10, <1>14, <1>16
    <3> QED BY <3>2, <3>3, <2>1, <2>5, <1>2 DEF PoolsKeep
  <2>9. IdleBounded'
    <3>1. PICK A : A = Idle
      OBVIOUS
    <3>2. IsFiniteSet(A) /\ MAX_TOTAL_IDLE \in Nat
      BY <3>1 DEF PoolInv, IdleBounded, PoolConstants
    <3>3. old \in SUBSET A
      BY <3>1, <1>5 DEF Idle
    <3>4. PICK B : B = A \ old
      OBVIOUS
    <3>5. IsFiniteSet(B) /\ IsFiniteSet(old) /\ Cardinality(B) = Cardinality(A) - Cardinality(old)
      <4>1. A \cap old = old
        BY <3>3
      <4>2. IsFiniteSet(old)
        BY <3>2, <3>3, FS_Subset
      <4> QED BY <4>1, <4>2, <3>2, <3>4, FS_Difference
    <3>6. Cardinality(B) \in Nat
      BY <3>5, FS_CardinalityType
    <3>7. Cardinality(B) < MAX_TOTAL_IDLE
      <4>1. ~(Cardinality(B) >= MAX_TOTAL_IDLE)
        BY <3>1, <3>5, <1>16
      <4> QED BY <4>1, <3>2, <3>6
    <3>8. Idle' = B \cup {i}
      <4>1. \A x \in Idle' : x \in B \cup {i}
        <5> SUFFICES ASSUME NEW j \in Keys, NEW x \in pool'[j], x # i
                     PROVE  x \in B
          BY DEF Idle
        <5>1. j # k /\ x \in pool[j]
          BY <2>1
        <5>2. x \notin old
          BY <5>1, <1>1, <1>5 DEF PoolsKeep
        <5>3. x \in A
          BY <5>1, <3>1 DEF Idle
        <5> QED BY <5>2, <5>3, <3>4
      <4>2. \A x \in B : x \in Idle'
        <5> SUFFICES ASSUME NEW j \in Keys, NEW x \in pool[j], x \notin old
                     PROVE  x \in Idle'
          BY <3>1, <3>4 DEF Idle
        <5>1. x \in pool'[j]
          BY <2>1, <1>5
        <5> QED BY <5>1 DEF Idle
      <4>3. i \in Idle'
        BY <2>1 DEF Idle
      <4> QED BY <4>1, <4>2, <4>3
    <3>9. IsFiniteSet(B \cup {i}) /\ Cardinality(B \cup {i}) <= Cardinality(B) + 1
          /\ Cardinality(B \cup {i}) \in Nat
      <4>1. /\ IsFiniteSet(B \cup {i})
            /\ Cardinality(B \cup {i}) = IF i \in B THEN Cardinality(B) ELSE Cardinality(B) + 1
        BY <3>5, FS_AddElement
      <4> QED BY <4>1, <3>6
    <3> QED BY <3>2, <3>6, <3>7, <3>8, <3>9 DEF IdleBounded
  <2>10. Owned'
    <3>1. \A j \in closing' : session'[j].state = "open"
      <4>1. \A j \in closing' : j \in Sessions /\ j # i /\ session[j].state = "open"
        BY <1>1, <1>10, <1>14, <1>16 DEF Owned
      <4> QED BY <4>1, <2>5
    <3>2. ASSUME NEW j \in Sessions, session'[j].state = "open"
          PROVE  \/ \E d \in Calls : call'[d].session = j
                 \/ \E x \in Keys : j \in pool'[x]
                 \/ j \in closing'
      <4>1. CASE j = i \/ j \in old
        BY <4>1, <1>16, <2>1
      <4>2. CASE j # i /\ j \notin old
        <5>1. \A x \in Keys : j \in pool[x] => j \in pool'[x]
          BY <4>2, <2>1, <1>5
        <5>2. session[j].state = "open"
          BY <4>2, <3>2, <2>5
        <5> QED BY <5>1, <5>2, <4>2, <1>1, <1>11, <1>16 DEF Owned
      <4> QED BY <4>1, <4>2
    <3> QED BY <3>1, <3>2 DEF Owned
  <2>11. TimersKnown'
    <3>1. \A t \in timers : t.session \in Sessions /\ t.park \in Nat
      BY <1>1 DEF Timers
    <3>2. \A j \in Sessions : session'[j].state = "unused" => ~session'[j].parked
      BY <1>1, <2>5 DEF TimersKnown
    <3>3. \A t \in timers : t.session = i => t.park <= p /\ ~t.claimed
      BY <1>1, <1>4, <1>10, <2>2 DEF TimersKnown
    <3>4. ASSUME NEW t \in timers
          PROVE  /\ session'[t.session].state # "unused"
                 /\ session'[t.session].state = "open" => t.park <= session'[t.session].parks
                 /\ session'[t.session].state = "open" /\ t.claimed =>
                      /\ ~session'[t.session].parked
                      /\ \A d \in Calls : call'[d].session # t.session
      <4>1. CASE t.session = i
        BY <4>1, <3>1, <3>3, <2>2, <2>5
      <4>2. CASE t.session # i
        <5>1. session'[t.session] = session[t.session]
          BY <4>2, <3>1, <2>5
        <5>2. \A d \in Calls : call[d].session # t.session => call'[d].session # t.session
          BY <3>1, <4>2, <1>11
        <5> QED BY <5>1, <5>2, <1>1 DEF TimersKnown
      <4> QED BY <4>1, <4>2
    <3>5. /\ session'[u.session].state = "open" /\ u.park <= session'[u.session].parks
          /\ ~u.claimed
      BY <2>2, <2>4, <2>5
    <3>6. \A t \in timers : ~(t.session = u.session /\ t.park = u.park)
      BY <3>1, <3>3, <2>2, <2>4
    <3>7. \A t, v \in timers' : t.session = v.session /\ t.park = v.park => t = v
      BY <3>6, <2>4, <1>1 DEF TimersKnown
    <3> QED BY <3>2, <3>4, <3>5, <3>7, <2>4 DEF TimersKnown
  <2>12. Armed'
    <3> SUFFICES ASSUME NEW j \in Keys, NEW x \in pool'[j], session'[x].alive
                 PROVE  \E t \in timers' : /\ t.session = x /\ t.park = session'[x].parks
                                           /\ t.claimed <=> ~session'[x].parked
      BY DEF Armed
    <3>1. CASE x = i
      <4>1. u \in timers' /\ u.session = x /\ u.park = session'[x].parks
            /\ (u.claimed <=> ~session'[x].parked)
        BY <3>1, <2>4, <2>5
      <4> QED BY <4>1
    <3>2. CASE x # i
      <4>1. x \in pool[j] /\ x \in Sessions /\ session'[x] = session[x]
        BY <3>2, <2>1, <2>5
      <4>2. PICK t \in timers : /\ t.session = x /\ t.park = session[x].parks
                                /\ t.claimed <=> ~session[x].parked
        BY <4>1, <1>1 DEF Armed
      <4> QED BY <4>1, <4>2, <2>4
    <3> QED BY <3>1, <3>2
  <2> QED BY <1>13, <2>6, <2>7, <2>8, <2>9, <2>10, <2>11, <2>12 DEF PoolInv, PoolConstants
<1> QED BY <1>7, <1>15, <1>16

\* The request ends and its pool is drained.
LEMMA ResponseEndsInv == PoolInv /\ ResponseEnds => PoolInv'
<1> SUFFICES ASSUME PoolInv, ResponseEnds PROVE PoolInv'
  OBVIOUS
<1>1. /\ SessionTypes /\ CallsFit /\ HeldAlone /\ PoolsKeep /\ Owned /\ TimersKnown /\ Armed
      /\ \A k \in Keys : pool[k] \in SUBSET Sessions
  BY DEF PoolInv, SessionTypes
<1>2. /\ request' = "ended" /\ UNCHANGED <<now, call, session, timers>>
      /\ pool' \in [Keys -> SUBSET Sessions] /\ (\A k \in Keys : pool'[k] = {})
      /\ closing' = closing \cup Idle
  BY DEF ResponseEnds
<1>3. Idle \in SUBSET Sessions
  BY <1>1 DEF Idle
<1>4. SessionTypes'
  BY <1>1, <1>2, <1>3 DEF SessionTypes
<1>5. CallsFit' /\ TimersKnown'
  BY <1>1, <1>2 DEF CallsFit, TimersKnown
<1>6. HeldAlone'
  <2>1. \A c \in Calls : call[c].session # 0 => call[c].session \notin Idle
    BY <1>1 DEF HeldAlone, Idle
  <2> QED BY <2>1, <1>1, <1>2 DEF HeldAlone
<1>7. PoolsKeep' /\ Armed'
  BY <1>2 DEF PoolsKeep, Armed
<1>8. IdleBounded'
  BY <1>2, FewerIdle
<1>9. Owned'
  <2>1. \A i \in Idle : session[i].state = "open"
    BY <1>1 DEF Idle, PoolsKeep
  <2>2. \A i \in Sessions : (\E k \in Keys : i \in pool[k]) => i \in Idle
    BY DEF Idle
  <2> QED BY <2>1, <2>2, <1>1, <1>2 DEF Owned
<1> QED BY <1>4, <1>5, <1>6, <1>7, <1>8, <1>9 DEF PoolInv, PoolConstants

\* The request is dropped with its calls and their sessions, and the pool drained.
LEMMA CancelledInv == PoolInv /\ Cancelled => PoolInv'
<1> SUFFICES ASSUME PoolInv, Cancelled PROVE PoolInv'
  OBVIOUS
<1>1. /\ SessionTypes /\ CallsFit /\ HeldAlone /\ PoolsKeep /\ Owned /\ TimersKnown /\ Armed
      /\ session \in [Sessions -> SessionStates] /\ timers \in SUBSET Timers
      /\ (\A k \in Keys : pool[k] \in SUBSET Sessions) /\ 0 \notin Sessions
      /\ closing \in SUBSET Sessions
  BY DEF PoolInv, PoolConstants, SessionTypes
<1>2. /\ request' = "cancelled" /\ UNCHANGED <<now, timers>>
      /\ pool' \in [Keys -> SUBSET Sessions] /\ (\A k \in Keys : pool'[k] = {})
      /\ closing' = closing \cup Idle
  BY DEF Cancelled
<1>3. DoneCall \in CallStates /\ DoneCall.session = 0 /\ DoneCall.at = "done" /\ DoneCall.sent = 0
  BY DEF CallStates, DoneCall, NewCall, Places
<1>4. call' \in [Calls -> CallStates] /\ \A c \in Calls : call'[c] = DoneCall
  BY <1>3 DEF Cancelled
<1>5. ClosedSession \in SessionStates /\ ClosedSession.state = "closed" /\ ~ClosedSession.parked
  BY DEF SessionStates, ClosedSession, NewSession
<1>6. /\ session' \in [Sessions -> SessionStates]
      /\ \A i \in Sessions :
           \/ (\E c \in Calls : call[c].session = i) /\ session'[i] = ClosedSession
           \/ (\A c \in Calls : call[c].session # i) /\ session'[i] = session[i]
  BY <1>1, <1>5 DEF Cancelled
<1>7. Idle \in SUBSET Sessions
  BY <1>1 DEF Idle
<1>8. \A i \in closing' : i \in Sessions /\ session[i].state = "open" /\ session'[i] = session[i]
  <2>1. \A i \in closing' : session[i].state = "open" /\ \A c \in Calls : call[c].session # i
    BY <1>1, <1>2 DEF HeldAlone, Idle, PoolsKeep, Owned
  <2> QED BY <2>1, <1>1, <1>2, <1>6, <1>7
<1>9. SessionTypes'
  BY <1>1, <1>2, <1>4, <1>6, <1>7 DEF SessionTypes
<1>10. CallsFit' /\ HeldAlone'
  BY <1>3, <1>4 DEF CallsFit, HeldAlone, Holding, Unsent
<1>11. PoolsKeep' /\ Armed'
  BY <1>2 DEF PoolsKeep, Armed
<1>12. IdleBounded'
  BY <1>2, FewerIdle
<1>13. Owned'
  <2>1. \A i \in Sessions : session'[i].state = "open" => i \in closing'
    <3> SUFFICES ASSUME NEW i \in Sessions, session'[i].state = "open"
                 PROVE  i \in closing'
      OBVIOUS
    <3>1. session[i].state = "open" /\ \A c \in Calls : call[c].session # i
      BY <1>5, <1>6
    <3>2. (\E k \in Keys : i \in pool[k]) => i \in Idle
      BY DEF Idle
    <3> QED BY <3>1, <3>2, <1>1, <1>2 DEF Owned
  <2> QED BY <2>1, <1>8 DEF Owned
<1>14. TimersKnown'
  <2>1. \A t \in timers : t.session \in Sessions
    BY <1>1 DEF Timers
  <2>2. \A i \in Sessions : session'[i].state = "unused" => ~session'[i].parked
    BY <1>1, <1>5, <1>6 DEF TimersKnown
  <2>3. ASSUME NEW t \in timers
        PROVE  /\ session'[t.session].state # "unused"
               /\ session'[t.session].state = "open" => t.park <= session'[t.session].parks
               /\ session'[t.session].state = "open" /\ t.claimed =>
                    /\ ~session'[t.session].parked
                    /\ \A c \in Calls : call'[c].session # t.session
    <3>1. CASE session'[t.session] = ClosedSession
      BY <3>1, <1>5
    <3>2. CASE session'[t.session] = session[t.session]
      BY <3>2, <2>1, <1>1, <1>3, <1>4 DEF TimersKnown
    <3> QED BY <3>1, <3>2, <2>1, <1>6
  <2> QED BY <2>2, <2>3, <1>1, <1>2 DEF TimersKnown
<1> QED BY <1>9, <1>10, <1>11, <1>12, <1>13, <1>14 DEF PoolInv, PoolConstants

-----------------------------------------------------------------------------
(* The theorem                                                             *)

\* Every step keeps the invariant.
LEMMA SessionsStep == PoolInv /\ [SessionsNext]_sessionVars => PoolInv'
<1> SUFFICES ASSUME PoolInv, [SessionsNext]_sessionVars PROVE PoolInv'
  OBVIOUS
<1>1. CASE \E c \in Calls, l \in Limits : StartRound(c, l)
  BY <1>1, StartRoundInv
<1>2. ASSUME NEW c \in Calls,
             \/ Checkout(c) \/ CheckoutTakes(c) \/ Open(c) \/ OpenFails(c) \/ Send(c)
             \/ CallFails(c) \/ CloseBefore(c) \/ SucceedUnpooled(c) \/ Checkin(c)
      PROVE  PoolInv'
  <2>1. CASE CloseBefore(c)
    <3>1. call[c].session \in Sessions
      BY <2>1 DEF CloseBefore, At, PoolInv, SessionTypes, CallStates, CallsFit, Holding
    <3> QED BY <2>1, <3>1, ClosesInv DEF CloseBefore
  <2> QED BY <2>1, <1>2, CallStepsInv, CheckoutTakesInv, OpenInv, CheckinInv
<1>3. CASE \E t \in timers : TimerFires(t) \/ TimerCancels(t) \/ TimerDisarmed(t)
  BY <1>3, TimersInv
<1>4. ASSUME NEW i \in Sessions, CloseInBackground(i) \/ WorkerEnds(i)
      PROVE  PoolInv'
  <2>1. CASE CloseInBackground(i)
    BY <2>1, ClosesInv DEF CloseInBackground
  <2> QED BY <2>1, <1>4, WorkerEndsInv
<1>5. CASE ResponseEnds \/ Cancelled
  BY <1>5, ResponseEndsInv, CancelledInv
<1>6. CASE Tick \/ UNCHANGED sessionVars
  <2>1. UNCHANGED <<request, call, session, pool, timers, closing>> /\ now' \in Nat
    BY <1>6 DEF Tick, sessionVars, PoolInv, SessionTypes
  <2>2. call' \in [Calls -> CallStates] /\ CallsFit'
    BY <2>1 DEF PoolInv, SessionTypes, CallsFit
  <2> QED BY <2>1, <2>2, CallsMove
<1> QED BY <1>1, <1>2, <1>3, <1>4, <1>5, <1>6 DEF SessionsNext

\* A set all of whose members are one has at most one.
LEMMA AtMostOneSession ==
  ASSUME NEW S, \A x, y \in S : x = y
  PROVE  /\ S # {} => Cardinality(S) = 1
         /\ S = {} => Cardinality(S) = 0
<1>1. CASE S = {}
  BY <1>1, FS_EmptySet
<1>2. CASE S # {}
  <2>1. PICK x : S = {x}
    BY <1>2
  <2> QED BY <2>1, <1>2, FS_Singleton
<1> QED BY <1>1, <1>2

\* What the pool promises follows from the invariant.
LEMMA InvSound == PoolInv => SessionsSound
<1> SUFFICES ASSUME PoolInv PROVE SessionsSound
  OBVIOUS
<1>1. /\ SessionTypes /\ CallsFit /\ HeldAlone /\ PoolsKeep /\ Owned /\ TimersKnown /\ Armed
      /\ 0 \notin Sessions /\ call \in [Calls -> CallStates] /\ timers \in SUBSET Timers
  BY DEF PoolInv, PoolConstants, SessionTypes
<1>2. CallsExclusive
  <2> SUFFICES ASSUME NEW c \in Calls, call[c].at \in {"call", "wait"}
               PROVE  /\ session[call[c].session].key = call[c].key
                      /\ session[call[c].session].limit = call[c].limit
                      /\ call[c].session \notin Idle \cup closing
                      /\ \A d \in Calls \ {c} : call[d].session # call[c].session
                      /\ \A t \in timers : t.session = call[c].session => ~t.claimed
    BY <1>1 DEF CallsExclusive, CallsFit
  <2>1. call[c].session # 0
    BY <1>1 DEF CallsFit, Holding
  <2>2. call[c].session \notin Idle \cup closing
    BY <2>1, <1>1 DEF HeldAlone, Idle
  <2>3. \A t \in timers : t.session = call[c].session => ~t.claimed
    BY <2>1, <1>1 DEF HeldAlone, TimersKnown
  <2> QED BY <2>1, <2>2, <2>3, <1>1 DEF HeldAlone
<1>3. NoSessionLeaked
  <2>1. ASSUME NEW i \in Sessions, session[i].state = "open"
        PROVE  Cardinality({c \in Calls : call[c].session = i})
                 + Cardinality({k \in Keys : i \in pool[k]})
                 + (IF i \in closing THEN 1 ELSE 0) = 1
    <3>1. PICK C : C = {c \in Calls : call[c].session = i}
      OBVIOUS
    <3>2. PICK K : K = {k \in Keys : i \in pool[k]}
      OBVIOUS
    <3>3. (\A x, y \in C : x = y) /\ (\A x, y \in K : x = y)
      BY <3>1, <3>2, <1>1 DEF HeldAlone, PoolsKeep
    <3>4. /\ C # {} => K = {} /\ i \notin closing
          /\ K # {} => i \notin closing
          /\ C # {} \/ K # {} \/ i \in closing
      BY <3>1, <3>2, <2>1, <1>1 DEF HeldAlone, PoolsKeep, Owned
    <3>5. /\ C # {} => Cardinality(C) = 1
          /\ C = {} => Cardinality(C) = 0
          /\ K # {} => Cardinality(K) = 1
          /\ K = {} => Cardinality(K) = 0
      BY <3>3, AtMostOneSession
    <3> QED BY <3>1, <3>2, <3>4, <3>5
  <2>2. request # "live" => Idle = {}
    BY <1>1 DEF PoolsKeep, Idle
  <2>3. \A i \in Idle : session[i].alive =>
          \E t \in timers : t.session = i /\ t.park = session[i].parks
    BY <1>1 DEF Armed, Idle
  <2>4. \A k \in Keys : Cardinality(pool[k]) <= 1
    <3>1. \A k \in Keys : Cardinality(pool[k]) = 1 \/ Cardinality(pool[k]) = 0
      BY <1>1, AtMostOneSession DEF PoolsKeep
    <3> QED BY <3>1
  <2>5. Cardinality(Idle) <= MAX_TOTAL_IDLE
    BY DEF PoolInv, IdleBounded
  <2> QED BY <2>1, <2>2, <2>3, <2>4, <2>5 DEF NoSessionLeaked
<1> QED BY <1>2, <1>3 DEF SessionsSound

\* No two calls, no close and no timer share a session that a call uses, and every
\* session opened has one owner until it is closed (checkout, checkin, park and
\* unpark of session_pool.rs), whatever the order of the threads.
THEOREM SessionsStaySound == SessionsSpec => []SessionsSound
<1>1. SessionsInit => PoolInv
  BY PoolAssumption, SessionsBegin
<1>2. PoolInv /\ [SessionsNext]_sessionVars => PoolInv'
  BY SessionsStep
<1>3. PoolInv => SessionsSound
  BY InvSound
<1> QED BY <1>1, <1>2, <1>3, PTL DEF SessionsSpec

-----------------------------------------------------------------------------
(* The response rows: the inductive invariant                              *)

Deleters ==
  [pc : {"idle", "approvals", "rows", "done", "failed"}, hit : BOOLEAN,
   todo : SUBSET Approvals, at : Approvals \cup {None}]
Turns ==
  [pc : {"idle", "claim", "rejected", "accepted", "unanswered", "done"},
   batch : Batches \cup {<<>>}, claimed : Nat]
Replays ==
  [pc : {"idle", "page", "clean", "truncated", "refused"},
   cursor : Nat, term : Nat, from : Nat, sent : SUBSET Nat]

RowTypes ==
  /\ resp \in BOOLEAN /\ appr \in [Approvals -> {"none", "open", "used"}]
  /\ log \in {{}, 1..LastEvent}
  /\ respLock \in {None, Writer, Deleter}
  /\ apprLock \in [Approvals -> Resumes \cup {None, Deleter}]
  /\ writer \in {"persist", "pin", "insert", "done", "failed"}
  /\ deleter \in Deleters
  /\ resume \in [Resumes -> Turns]
  /\ replay \in Replays
  /\ executed \in [Approvals -> Nat]

\* Whoever is about to insert events, or to delete the response that it found, has
\* the response row locked, and the row is there.
ParentHeld ==
  /\ writer = "persist" => ~resp
  /\ writer = "insert" => resp /\ respLock = Writer
  /\ deleter.pc \in {"approvals", "rows"} /\ deleter.hit => resp /\ respLock = Deleter

\* A DELETE that found the response has locked its approvals, or has yet to.
DeleteSees ==
  deleter.pc = "rows" /\ deleter.hit =>
    \A a \in Approvals : appr[a] # "none" => a \in deleter.todo \/ apprLock[a] = Deleter

\* A turn has locked the first of its batch, as many as it has claimed.
Claimed(turn) == {Ordered(turn.batch)[k] : k \in 1..turn.claimed}

LocksKnown ==
  /\ \A r \in Resumes : resume[r].claimed <= Len(resume[r].batch)
  /\ \A r \in Resumes, a \in Approvals :
       apprLock[a] = r <=> resume[r].pc = "claim" /\ a \in Claimed(resume[r])
  /\ \A a \in Approvals : apprLock[a] \in Resumes => appr[a] = "open"

\* An approval is in the batch of one committed turn at most, and then it is used or
\* gone; a call was executed once, by such a turn.
ConsentKept ==
  /\ \A r, q \in Committed, a \in Approvals : Names(r, a) /\ Names(q, a) => r = q
  /\ \A r \in Committed, a \in Approvals : Names(r, a) => appr[a] # "open"
  /\ \A a \in Approvals : appr[a] = "used" => \E r \in Committed : Names(r, a)
  /\ \A a \in Approvals : executed[a] # 0 =>
       executed[a] = 1 /\ \E r \in Resumes : resume[r].pc = "done" /\ Names(r, a)
  /\ \A r \in Resumes, a \in Approvals :
       writer = "persist" /\ Names(r, a) => resume[r].pc = "rejected"

\* What a replay has sent so far.
ReplayKnown ==
  /\ replay.pc = "idle" => replay.sent = {}
  /\ replay.pc = "page" =>
       /\ replay.term = LastEvent /\ replay.from <= replay.cursor
       /\ replay.cursor <= LastEvent
       /\ replay.sent = (replay.from + 1)..replay.cursor
  /\ ReplayComplete

RowsInv ==
  /\ RowsConstants /\ RowTypes /\ NoOrphanRows /\ ParentHeld /\ DeleteSees
  /\ LocksKnown /\ ConsentKept /\ ReplayKnown

-----------------------------------------------------------------------------
(* The order in which a batch is claimed                                   *)

\* The positions of a batch below a value, and how many there are.
Below(b, x) == {n \in DOMAIN b : b[n] < x}
Rank(b, x) == Cardinality(Below(b, x))

\* A batch is a sequence of approvals that repeats none.
IsBatch(b) == b \in Seq(Approvals) /\ \A m, n \in DOMAIN b : b[m] = b[n] => m = n

\* Ranks are numbers below the length of the batch, and grow with the value.
LEMMA RankFacts ==
  ASSUME RowsConstants, NEW b, IsBatch(b)
  PROVE  /\ Len(b) \in Nat /\ DOMAIN b = 1..Len(b)
         /\ \A n \in DOMAIN b : b[n] \in Approvals /\ b[n] \in Nat
         /\ \A x \in Nat : IsFiniteSet(Below(b, x)) /\ Rank(b, x) \in Nat
         /\ \A x, y \in Nat : x <= y => Rank(b, x) <= Rank(b, y)
         /\ \A n \in DOMAIN b, y \in Nat : b[n] < y => Rank(b, b[n]) < Rank(b, y)
         /\ \A n \in DOMAIN b : Rank(b, b[n]) < Len(b)
<1>1. /\ Len(b) \in Nat /\ DOMAIN b = 1..Len(b)
      /\ \A n \in DOMAIN b : b[n] \in Approvals /\ b[n] \in Nat
  <2>1. b \in Seq(Approvals) /\ Approvals \subseteq Nat
    BY DEF IsBatch, RowsConstants
  <2>2. Len(b) \in Nat /\ DOMAIN b = 1..Len(b)
    BY <2>1, LenProperties
  <2>3. \A n \in 1..Len(b) : b[n] \in Approvals
    BY <2>1, ElementOfSeq
  <2> QED BY <2>1, <2>2, <2>3
<1>2. IsFiniteSet(DOMAIN b) /\ Cardinality(DOMAIN b) = Len(b)
  <2>1. PICK n \in Nat : n = Len(b)
    BY <1>1
  <2>2. IsFiniteSet(1..n) /\ Cardinality(1..n) = IF 1 > n THEN 0 ELSE n - 1 + 1
    BY FS_Interval
  <2> QED BY <1>1, <2>1, <2>2
<1>3. ASSUME NEW x \in Nat
      PROVE  IsFiniteSet(Below(b, x)) /\ Rank(b, x) \in Nat
  <2>1. Below(b, x) \in SUBSET DOMAIN b
    BY DEF Below
  <2>2. IsFiniteSet(Below(b, x))
    BY <1>2, <2>1, FS_Subset
  <2> QED BY <2>2, FS_CardinalityType DEF Rank
<1>4. ASSUME NEW x \in Nat, NEW y \in Nat, x <= y
      PROVE  Rank(b, x) <= Rank(b, y)
  <2>1. Below(b, x) \in SUBSET Below(b, y)
    BY <1>1, <1>4 DEF Below
  <2> QED BY <1>3, <2>1, FS_Subset DEF Rank
<1>5. ASSUME NEW n \in DOMAIN b, NEW T, IsFiniteSet(T), n \in T,
             Below(b, b[n]) \in SUBSET T
      PROVE  Rank(b, b[n]) < Cardinality(T)
  <2>1. n \notin Below(b, b[n])
    BY <1>1 DEF Below
  <2>2. PICK U : U = T \ {n}
    OBVIOUS
  <2>3. IsFiniteSet(U) /\ Cardinality(U) = Cardinality(T) - 1
    BY <1>5, <2>2, FS_RemoveElement
  <2>4. Below(b, b[n]) \in SUBSET U
    BY <1>5, <2>1, <2>2
  <2>5. Rank(b, b[n]) <= Cardinality(U)
    BY <2>3, <2>4, FS_Subset DEF Rank
  <2>6. Cardinality(T) \in Nat /\ Rank(b, b[n]) \in Nat
    BY <1>1, <1>3, <1>5, FS_CardinalityType
  <2> QED BY <2>3, <2>5, <2>6
<1>6. ASSUME NEW n \in DOMAIN b, NEW y \in Nat, b[n] < y
      PROVE  Rank(b, b[n]) < Rank(b, y)
  <2>1. n \in Below(b, y) /\ Below(b, b[n]) \in SUBSET Below(b, y)
    BY <1>1, <1>6 DEF Below
  <2> QED BY <2>1, <1>3, <1>5 DEF Rank
<1>7. ASSUME NEW n \in DOMAIN b
      PROVE  Rank(b, b[n]) < Len(b)
  <2>1. Below(b, b[n]) \in SUBSET DOMAIN b
    BY DEF Below
  <2> QED BY <2>1, <1>2, <1>5
<1> QED BY <1>1, <1>3, <1>4, <1>6, <1>7

\* consume_approvals goes through the batch in ascending order: every approval of the
\* batch has its turn.
LEMMA OrderedFacts ==
  ASSUME RowsConstants, NEW b, IsBatch(b)
  PROVE  /\ \A k \in 1..Len(b) : \E n \in DOMAIN b : Ordered(b)[k] = b[n]
         /\ \A n \in DOMAIN b : \E k \in 1..Len(b) : Ordered(b)[k] = b[n]
         /\ \A k, l \in 1..Len(b) : k < l => Ordered(b)[k] < Ordered(b)[l]
<1>1. /\ Len(b) \in Nat /\ DOMAIN b = 1..Len(b)
      /\ \A n \in DOMAIN b : b[n] \in Approvals /\ b[n] \in Nat
      /\ \A x \in Nat : Rank(b, x) \in Nat
      /\ \A x, y \in Nat : x <= y => Rank(b, x) <= Rank(b, y)
      /\ \A n \in DOMAIN b, y \in Nat : b[n] < y => Rank(b, b[n]) < Rank(b, y)
      /\ \A n \in DOMAIN b : Rank(b, b[n]) < Len(b)
  BY RankFacts
<1>2. PICK N \in Nat : N = Len(b)
  BY <1>1
<1>3. PICK f : f = [n \in 1..N |-> Rank(b, b[n]) + 1]
  OBVIOUS
<1>4. f \in [1..N -> 1..N]
  <2>1. \A n \in 1..N : Rank(b, b[n]) + 1 \in 1..N
    <3>1. \A n \in 1..N : Rank(b, b[n]) \in Nat /\ Rank(b, b[n]) < N
      BY <1>1, <1>2
    <3> QED BY <3>1
  <2> QED BY <2>1, <1>3
<1>5. \A m, n \in 1..N : f[m] = f[n] => m = n
  <2> SUFFICES ASSUME NEW m \in 1..N, NEW n \in 1..N, f[m] = f[n] PROVE m = n
    OBVIOUS
  <2>1. Rank(b, b[m]) \in Nat /\ Rank(b, b[n]) \in Nat /\ b[m] \in Nat /\ b[n] \in Nat
    BY <1>1, <1>2
  <2>2. Rank(b, b[m]) = Rank(b, b[n])
    BY <2>1, <1>3
  <2>3. ~(b[m] < b[n]) /\ ~(b[n] < b[m])
    <3>1. b[m] < b[n] => Rank(b, b[m]) < Rank(b, b[n])
      BY <2>1, <1>1, <1>2
    <3>2. b[n] < b[m] => Rank(b, b[n]) < Rank(b, b[m])
      BY <2>1, <1>1, <1>2
    <3> QED BY <3>1, <3>2, <2>1, <2>2
  <2>4. b[m] = b[n]
    BY <2>1, <2>3
  <2> QED BY <2>4, <1>1, <1>2 DEF IsBatch
<1>6. \A k \in 1..N : \E n \in 1..N : f[n] = k
  <2>1. f \in Injection(1..N, 1..N)
    BY <1>4, <1>5 DEF Injection, IsInjective
  <2>2. IsFiniteSet(1..N)
    BY <1>2, FS_Interval
  <2>3. f \in Surjection(1..N, 1..N)
    BY <2>1, <2>2, FS_Injection
  <2> QED BY <2>3 DEF Surjection
<1>7. ASSUME NEW k \in 1..N
      PROVE  /\ \E n \in DOMAIN b : Ordered(b)[k] = b[n]
             /\ Ordered(b)[k] \in Nat /\ Rank(b, Ordered(b)[k]) = k - 1
  <2>1. PICK m \in 1..N : Rank(b, b[m]) + 1 = k
    BY <1>3, <1>6
  <2>2. Rank(b, b[m]) = k - 1
    <3>1. b[m] \in Nat
      BY <1>1, <1>2
    <3>2. Rank(b, b[m]) \in Nat
      BY <3>1, <1>1
    <3> QED BY <3>2, <2>1
  <2>3. b[m] \in {b[n] : n \in DOMAIN b}
    BY <1>1, <1>2
  <2>4. \E a \in {b[n] : n \in DOMAIN b} : Cardinality({n \in DOMAIN b : b[n] < a}) = k - 1
    <3>1. PICK y : y = b[m]
      OBVIOUS
    <3>2. Cardinality({n \in DOMAIN b : b[n] < y}) = k - 1
      BY <2>2, <3>1 DEF Rank, Below
    <3> QED BY <2>3, <3>1, <3>2
  <2>5. Ordered(b)[k] \in {b[n] : n \in DOMAIN b} /\ Rank(b, Ordered(b)[k]) = k - 1
    <3>1. PICK x : x = CHOOSE a \in {b[n] : n \in DOMAIN b} :
                         Cardinality({n \in DOMAIN b : b[n] < a}) = k - 1
      OBVIOUS
    <3>2. x \in {b[n] : n \in DOMAIN b} /\ Cardinality({n \in DOMAIN b : b[n] < x}) = k - 1
      BY <2>4, <3>1
    <3>3. k \in DOMAIN b
      BY <1>1, <1>2
    <3>4. Ordered(b)[k] = x
      BY <3>1, <3>3 DEF Ordered
    <3> QED BY <3>2, <3>4 DEF Rank, Below
  <2> QED BY <2>5, <1>1
<1>8. ASSUME NEW n \in DOMAIN b
      PROVE  \E k \in 1..Len(b) : Ordered(b)[k] = b[n]
  <2>1. PICK r \in Nat : r = Rank(b, b[n]) /\ r < N
    BY <1>1, <1>2
  <2>2. PICK k \in 1..N : k = r + 1
    BY <2>1
  <2>3. PICK m \in DOMAIN b : Ordered(b)[k] = b[m] /\ Rank(b, b[m]) = r
    BY <1>7, <2>2
  <2>4. f[m] = f[n] /\ m \in 1..N /\ n \in 1..N
    BY <2>1, <2>3, <1>1, <1>2, <1>3
  <2> QED BY <2>3, <2>4, <1>2, <1>5
<1>9. ASSUME NEW k \in 1..N, NEW l \in 1..N, k < l
      PROVE  Ordered(b)[k] < Ordered(b)[l]
  <2>1. PICK x \in Nat : x = Ordered(b)[k] /\ Rank(b, x) = k - 1
    BY <1>7
  <2>2. PICK y \in Nat : y = Ordered(b)[l] /\ Rank(b, y) = l - 1
    BY <1>7
  <2>3. ~(y <= x)
    <3>1. y <= x => Rank(b, y) <= Rank(b, x)
      BY <1>1
    <3> QED BY <3>1, <2>1, <2>2, <1>9
  <2> QED BY <2>1, <2>2, <2>3
<1> QED BY <1>2, <1>7, <1>8, <1>9

-----------------------------------------------------------------------------
(* What the steps keep                                                     *)

\* What is known of a turn's batch and of the row it will claim next.
LEMMA TurnFacts ==
  ASSUME RowsInv, NEW r \in Resumes
  PROVE  /\ resume[r] \in Turns /\ IsBatch(resume[r].batch) /\ resume[r].claimed \in Nat
         /\ Len(resume[r].batch) \in Nat
         /\ DOMAIN resume[r].batch = 1..Len(resume[r].batch)
         /\ resume[r].claimed <= Len(resume[r].batch)
         /\ r \notin {None, Writer, Deleter}
<1>1. RowsConstants
  BY DEF RowsInv
<1>2. resume[r] \in Turns
  BY DEF RowsInv, RowTypes
<1>3. resume[r].batch \in Batches \cup {<<>>} /\ resume[r].claimed \in Nat
  BY <1>2 DEF Turns
<1>4. \A b \in Batches : IsBatch(b)
  BY <1>1 DEF RowsConstants, IsBatch
<1>5. IsBatch(<<>>)
  BY DEF IsBatch
<1>6. PICK b : b = resume[r].batch
  OBVIOUS
<1>7. IsBatch(b)
  BY <1>3, <1>4, <1>5, <1>6
<1>8. Len(b) \in Nat /\ DOMAIN b = 1..Len(b)
  BY <1>1, <1>7, RankFacts
<1>9. resume[r].claimed <= Len(resume[r].batch)
  BY DEF RowsInv, LocksKnown
<1>10. r \notin {None, Writer, Deleter}
  BY <1>1 DEF RowsConstants
<1> QED BY <1>2, <1>3, <1>6, <1>7, <1>8, <1>9, <1>10

\* The next row is an approval of the batch that is not claimed yet, and comes after
\* those that are.
LEMMA NextRowFacts ==
  ASSUME RowsInv, NEW r \in Resumes, resume[r].claimed < Len(resume[r].batch)
  PROVE  /\ NextRow(r) \in Approvals /\ NextRow(r) \in Nat /\ Names(r, NextRow(r))
         /\ \A a \in Claimed(resume[r]) : a \in Nat /\ a < NextRow(r)
<1>1. PICK b : b = resume[r].batch
  OBVIOUS
<1>2. PICK n \in Nat : n = resume[r].claimed
  BY TurnFacts
<1>3. PICK m \in 1..Len(b) : m = n + 1
  BY <1>1, <1>2, TurnFacts
<1>4. IsBatch(b) /\ RowsConstants /\ Len(b) \in Nat /\ DOMAIN b = 1..Len(b)
  BY <1>1, TurnFacts DEF RowsInv
<1>5. NextRow(r) = Ordered(b)[m]
  BY <1>1, <1>2, <1>3 DEF NextRow
<1>6. \A k \in 1..Len(b) : \E i \in DOMAIN b : Ordered(b)[k] = b[i]
  BY <1>4, OrderedFacts
<1>7. \A i \in DOMAIN b : b[i] \in Approvals /\ b[i] \in Nat
  BY <1>4, RankFacts
<1>8. \A k \in 1..Len(b) : Ordered(b)[k] \in Approvals /\ Ordered(b)[k] \in Nat
  BY <1>6, <1>7
<1>9. PICK i \in DOMAIN b : Ordered(b)[m] = b[i]
  BY <1>6
<1>10. ASSUME NEW a \in Claimed(resume[r])
       PROVE  a \in Nat /\ a < NextRow(r)
  <2>1. PICK k \in 1..n : a = Ordered(b)[k]
    BY <1>1, <1>2 DEF Claimed
  <2>2. k \in 1..Len(b) /\ k < m
    BY <1>3, <1>4
  <2>3. Ordered(b)[k] < Ordered(b)[m]
    BY <2>2, <1>4, OrderedFacts
  <2> QED BY <2>1, <2>2, <2>3, <1>5, <1>8
<1> QED BY <1>1, <1>5, <1>8, <1>9, <1>10 DEF Names

\* A turn that has claimed as many rows as its batch names has claimed all of them.
LEMMA AllClaimed ==
  ASSUME RowsInv, NEW r \in Resumes, resume[r].claimed = Len(resume[r].batch)
  PROVE  \A a \in Approvals : Names(r, a) <=> a \in Claimed(resume[r])
<1>1. PICK b : b = resume[r].batch
  OBVIOUS
<1>2. IsBatch(b) /\ RowsConstants
  BY <1>1, TurnFacts DEF RowsInv
<1>3. /\ \A k \in 1..Len(b) : \E n \in DOMAIN b : Ordered(b)[k] = b[n]
      /\ \A n \in DOMAIN b : \E k \in 1..Len(b) : Ordered(b)[k] = b[n]
  BY <1>2, OrderedFacts
<1>4. Claimed(resume[r]) = {Ordered(b)[k] : k \in 1..Len(b)}
  BY <1>1 DEF Claimed
<1>5. \A a : Names(r, a) <=> \E n \in DOMAIN b : b[n] = a
  BY <1>1 DEF Names
<1>6. \A a : a \in Claimed(resume[r]) <=> \E k \in 1..Len(b) : a = Ordered(b)[k]
  BY <1>4
<1> QED BY <1>3, <1>5, <1>6

\* The initial states.
LEMMA RowsBegin == RowsConstants /\ RowsInit => RowsInv
<1> SUFFICES ASSUME RowsConstants, RowsInit PROVE RowsInv
  OBVIOUS
<1>1. PICK idle : idle = [pc |-> "idle", batch |-> <<>>, claimed |-> 0]
  OBVIOUS
<1>2. idle \in Turns /\ idle.pc = "idle" /\ idle.batch = <<>> /\ idle.claimed = 0
  BY <1>1 DEF Turns
<1>3. resume = [r \in Resumes |-> idle]
  BY <1>1 DEF RowsInit
<1>4. deleter \in Deleters /\ replay \in Replays
  BY DEF RowsInit, Deleters, Replays
<1>5. RowTypes
  BY <1>2, <1>3, <1>4 DEF RowsInit, RowTypes
<1>6. NoOrphanRows /\ ParentHeld /\ DeleteSees
  BY DEF RowsInit, NoOrphanRows, ParentHeld, DeleteSees
<1>7. LocksKnown
  <2>1. \A r \in Resumes : resume[r].claimed <= Len(resume[r].batch) /\ resume[r].pc = "idle"
    <3>1. Len(<<>>) = 0
      OBVIOUS
    <3> QED BY <3>1, <1>2, <1>3
  <2>2. \A a \in Approvals : apprLock[a] = None /\ None \notin Resumes
    BY DEF RowsInit, RowsConstants
  <2> QED BY <2>1, <2>2 DEF LocksKnown
<1>8. ConsentKept
  <2>1. \A r \in Resumes, a \in Approvals : ~Names(r, a)
    <3>1. DOMAIN <<>> = {}
      OBVIOUS
    <3> QED BY <3>1, <1>2, <1>3 DEF Names
  <2>2. \A a \in Approvals : appr[a] = "none" /\ executed[a] = 0
    BY DEF RowsInit
  <2> QED BY <2>1, <2>2 DEF ConsentKept, Committed
<1>9. ReplayKnown
  BY DEF RowsInit, ReplayKnown, ReplayComplete
<1> QED BY <1>5, <1>6, <1>7, <1>8, <1>9 DEF RowsInv

\* Of the rows, a step may change what turns and replays do not depend on.
LEMMA ResumeSame ==
  ASSUME UNCHANGED resume
  PROVE  /\ Committed' = Committed /\ \A r, a : Names(r, a)' <=> Names(r, a)
BY DEF Committed, Names

\* The response is persisted with its approvals.
LEMMA PersistInv == RowsInv /\ Persist => RowsInv'
<1> SUFFICES ASSUME RowsInv, Persist PROVE RowsInv'
  OBVIOUS
<1>1. /\ RowsConstants /\ RowTypes /\ NoOrphanRows /\ ParentHeld /\ DeleteSees
      /\ LocksKnown /\ ConsentKept /\ ReplayKnown
  BY DEF RowsInv
<1>2. /\ writer = "persist" /\ ~resp
      /\ UNCHANGED <<log, respLock, apprLock, deleter, resume, replay, executed>>
  BY <1>1 DEF Persist, ParentHeld, locks
<1>3. \/ /\ resp' = TRUE /\ (\A a \in Approvals : appr'[a] = "open")
         /\ appr' \in [Approvals -> {"none", "open", "used"}]
         /\ writer' \in {"pin", "done", "failed"}
      \/ writer' = "failed" /\ UNCHANGED <<resp, appr>>
  BY DEF Persist
<1>4. RowTypes'
  BY <1>1, <1>2, <1>3 DEF RowTypes
<1>5. NoOrphanRows'
  BY <1>1, <1>2, <1>3 DEF NoOrphanRows
<1>6. ParentHeld' /\ DeleteSees'
  BY <1>1, <1>2, <1>3 DEF ParentHeld, DeleteSees
<1>7. LocksKnown'
  BY <1>1, <1>2, <1>3 DEF LocksKnown
<1>8. ConsentKept'
  <2>1. \A r \in Committed, a \in Approvals : ~Names(r, a)
    BY <1>1, <1>2 DEF ConsentKept, Committed
  <2>2. Committed' = Committed /\ \A r, a : Names(r, a)' <=> Names(r, a)
    BY <1>2, ResumeSame
  <2>3. \A a \in Approvals : appr'[a] # "used"
    BY <1>1, <1>2, <1>3 DEF NoOrphanRows
  <2> QED BY <2>1, <2>2, <2>3, <1>1, <1>2, <1>3 DEF ConsentKept
<1>9. ReplayKnown'
  BY <1>1, <1>2 DEF ReplayKnown, ReplayComplete
<1> QED BY <1>1, <1>4, <1>5, <1>6, <1>7, <1>8, <1>9 DEF RowsInv, RowsConstants

\* The parent row is locked, and the events inserted under the lock.
LEMMA AppendInv == RowsInv /\ (Pin \/ InsertEvents) => RowsInv'
<1> SUFFICES ASSUME RowsInv, Pin \/ InsertEvents PROVE RowsInv'
  OBVIOUS
<1>1. /\ RowsConstants /\ RowTypes /\ NoOrphanRows /\ ParentHeld /\ DeleteSees
      /\ LocksKnown /\ ConsentKept /\ ReplayKnown
  BY DEF RowsInv
<1>2. UNCHANGED <<resp, appr, apprLock, deleter, resume, replay, executed>>
  BY DEF Pin, InsertEvents, rows
<1>3. None # Deleter /\ Writer # Deleter /\ None # Writer
  BY <1>1 DEF RowsConstants, Writer, Deleter
<1>4. /\ writer \in {"pin", "insert"} /\ writer' \in {"insert", "done", "failed"}
      /\ log' \in {log, 1..LastEvent} /\ (log' # log => resp)
      /\ respLock' \in {None, respLock, Writer} /\ respLock # Deleter
      /\ writer' = "insert" => resp /\ respLock' = Writer
  BY <1>1, <1>3 DEF Pin, InsertEvents, PinLock, ParentHeld, rows
<1>5. RowTypes'
  BY <1>1, <1>2, <1>4 DEF RowTypes
<1>6. NoOrphanRows'
  BY <1>1, <1>2, <1>4 DEF NoOrphanRows
<1>7. ParentHeld' /\ DeleteSees'
  BY <1>1, <1>2, <1>4 DEF ParentHeld, DeleteSees
<1>8. LocksKnown'
  BY <1>1, <1>2 DEF LocksKnown
<1>9. ConsentKept'
  <2>1. Committed' = Committed /\ \A r, a : Names(r, a)' <=> Names(r, a)
    BY <1>2, ResumeSame
  <2> QED BY <2>1, <1>1, <1>2, <1>4 DEF ConsentKept
<1>10. ReplayKnown'
  BY <1>1, <1>2 DEF ReplayKnown, ReplayComplete
<1> QED BY <1>1, <1>5, <1>6, <1>7, <1>8, <1>9, <1>10 DEF RowsInv, RowsConstants

\* A DELETE looks for the response row, lists the approvals, and goes to the next.
LEMMA DeleteStepsInv ==
  ASSUME RowsInv,
         DeleteResponse \/ DeleteApprovals \/ (\E a \in Approvals : DeleteMeets(a))
  PROVE  RowsInv'
<1>1. /\ RowsConstants /\ RowTypes /\ NoOrphanRows /\ ParentHeld /\ DeleteSees
      /\ LocksKnown /\ ConsentKept /\ ReplayKnown /\ deleter \in Deleters
  BY DEF RowsInv, RowTypes
<1>2. UNCHANGED <<resp, appr, log, apprLock, writer, resume, replay, executed>>
  BY DEF DeleteResponse, DeleteApprovals, DeleteMeets, rows, locks
<1>3. None # Deleter /\ Writer # Deleter /\ None # Writer
  BY <1>1 DEF RowsConstants, Writer, Deleter
<1>4. /\ deleter' \in Deleters /\ respLock' \in {None, Writer, Deleter}
      /\ writer = "insert" => respLock' = Writer
      /\ deleter'.pc \in {"approvals", "rows"} /\ deleter'.hit => resp /\ respLock' = Deleter
      /\ deleter'.pc = "rows" /\ deleter'.hit =>
           \A a \in Approvals : appr[a] # "none" => a \in deleter'.todo \/ apprLock[a] = Deleter
  <2>1. CASE DeleteResponse
    <3>1. /\ deleter' = [deleter EXCEPT !.pc = "approvals", !.hit = resp]
          /\ respLock = None /\ respLock' = IF resp THEN Deleter ELSE None
      BY <2>1 DEF DeleteResponse
    <3>2. deleter' \in Deleters /\ deleter'.pc = "approvals" /\ (deleter'.hit <=> resp)
      BY <3>1, <1>1 DEF Deleters, RowTypes
    <3> QED BY <3>1, <3>2, <1>1, <1>3 DEF ParentHeld
  <2>2. CASE DeleteApprovals
    <3>1. PICK T \in SUBSET Approvals : T = {a \in Approvals : appr[a] # "none"}
      OBVIOUS
    <3>2. /\ deleter.pc = "approvals" /\ respLock' = respLock
          /\ deleter' = [deleter EXCEPT !.pc = "rows", !.todo = T]
      BY <2>2, <3>1 DEF DeleteApprovals, locks
    <3>3. deleter' \in Deleters /\ deleter'.pc = "rows" /\ deleter'.hit = deleter.hit
          /\ deleter'.todo = T
      BY <3>2, <1>1 DEF Deleters
    <3> QED BY <3>1, <3>2, <3>3, <1>1 DEF ParentHeld, RowTypes
  <2>3. CASE \E a \in Approvals : DeleteMeets(a)
    <3>1. PICK a \in Approvals : DeleteMeets(a)
      BY <2>3
    <3>2. /\ deleter.pc = "rows" /\ respLock' = respLock
          /\ deleter' = [deleter EXCEPT !.at = a]
      BY <3>1 DEF DeleteMeets, locks
    <3>3. deleter' \in Deleters /\ deleter'.pc = "rows" /\ deleter'.hit = deleter.hit
          /\ deleter'.todo = deleter.todo
      BY <3>2, <1>1 DEF Deleters
    <3> QED BY <3>2, <3>3, <1>1 DEF ParentHeld, DeleteSees, RowTypes
  <2> QED BY <2>1, <2>2, <2>3
<1>5. RowTypes'
  BY <1>1, <1>2, <1>4 DEF RowTypes
<1>6. NoOrphanRows' /\ LocksKnown'
  BY <1>1, <1>2 DEF NoOrphanRows, LocksKnown
<1>7. ParentHeld' /\ DeleteSees'
  BY <1>1, <1>2, <1>4 DEF ParentHeld, DeleteSees
<1>8. ConsentKept'
  <2>1. Committed' = Committed /\ \A r, a : Names(r, a)' <=> Names(r, a)
    BY <1>2, ResumeSame
  <2> QED BY <2>1, <1>1, <1>2 DEF ConsentKept
<1>9. ReplayKnown'
  BY <1>1, <1>2 DEF ReplayKnown, ReplayComplete
<1> QED BY <1>1, <1>5, <1>6, <1>7, <1>8, <1>9 DEF RowsInv, RowsConstants

\* A DELETE locks the row of an approval that nobody has locked.
LEMMA DeleteRowInv == RowsInv /\ DeleteRow => RowsInv'
<1> SUFFICES ASSUME RowsInv, DeleteRow PROVE RowsInv'
  OBVIOUS
<1>1. /\ RowsConstants /\ RowTypes /\ NoOrphanRows /\ ParentHeld /\ DeleteSees
      /\ LocksKnown /\ ConsentKept /\ ReplayKnown /\ deleter \in Deleters
  BY DEF RowsInv, RowTypes
<1>2. UNCHANGED <<resp, appr, log, respLock, writer, resume, replay, executed>>
  BY DEF DeleteRow, rows
<1>3. PICK a \in Approvals : a = deleter.at /\ apprLock[a] = None
  BY <1>1 DEF DeleteRow, Deleters
<1>4. PICK T \in SUBSET Approvals : T = deleter.todo \ {a}
  BY <1>1 DEF Deleters
<1>5. /\ deleter.pc = "rows" /\ apprLock' = [apprLock EXCEPT ![a] = Deleter]
      /\ deleter' = [deleter EXCEPT !.at = None, !.todo = T]
  BY <1>3, <1>4 DEF DeleteRow
<1>6. /\ deleter' \in Deleters /\ deleter'.pc = "rows" /\ deleter'.hit = deleter.hit
      /\ deleter'.todo = T
  BY <1>5, <1>1 DEF Deleters
<1>7. /\ apprLock' \in [Approvals -> Resumes \cup {None, Deleter}] /\ apprLock'[a] = Deleter
      /\ \A x \in Approvals \ {a} : apprLock'[x] = apprLock[x]
  BY <1>5, <1>1 DEF RowTypes
<1>8. RowTypes'
  BY <1>1, <1>2, <1>6, <1>7 DEF RowTypes
<1>9. NoOrphanRows' /\ ParentHeld'
  BY <1>1, <1>2, <1>5, <1>6 DEF NoOrphanRows, ParentHeld
<1>10. DeleteSees'
  BY <1>1, <1>2, <1>4, <1>5, <1>6, <1>7 DEF DeleteSees
<1>11. LocksKnown'
  <2>1. \A r \in Resumes : r # None /\ r # Deleter
    BY <1>1 DEF RowsConstants
  <2>2. \A r \in Resumes, x \in Approvals : apprLock'[x] = r <=> apprLock[x] = r
    BY <2>1, <1>3, <1>7
  <2>3. \A x \in Approvals : apprLock'[x] \in Resumes => apprLock[x] \in Resumes
    BY <2>2
  <2> QED BY <2>2, <2>3, <1>1, <1>2 DEF LocksKnown
<1>12. ConsentKept'
  <2>1. Committed' = Committed /\ \A r, x : Names(r, x)' <=> Names(r, x)
    BY <1>2, ResumeSame
  <2> QED BY <2>1, <1>1, <1>2 DEF ConsentKept
<1>13. ReplayKnown'
  BY <1>1, <1>2 DEF ReplayKnown, ReplayComplete
<1> QED BY <1>1, <1>8, <1>9, <1>10, <1>11, <1>12, <1>13 DEF RowsInv, RowsConstants

\* A DELETE commits, or is rolled back: its locks go, and with a commit the rows.
LEMMA DeleteEndsInv == RowsInv /\ (DeleteCommit \/ DeleteFails) => RowsInv'
<1> SUFFICES ASSUME RowsInv, DeleteCommit \/ DeleteFails PROVE RowsInv'
  OBVIOUS
<1>1. /\ RowsConstants /\ RowTypes /\ NoOrphanRows /\ ParentHeld /\ DeleteSees
      /\ LocksKnown /\ ConsentKept /\ ReplayKnown /\ deleter \in Deleters
      /\ apprLock \in [Approvals -> Resumes \cup {None, Deleter}]
  BY DEF RowsInv, RowTypes
<1>2. /\ UNCHANGED <<writer, resume, replay, executed>> /\ apprLock' = Unlocked(Deleter)
      /\ respLock' = IF respLock = Deleter THEN None ELSE respLock
      /\ deleter.pc \in {"approvals", "rows"}
  BY DEF DeleteCommit, DeleteFails
<1>3. None # Deleter /\ Writer # Deleter /\ None # Writer
      /\ \A r \in Resumes : r # None /\ r # Deleter
  BY <1>1 DEF RowsConstants, Writer, Deleter
<1>4. deleter' \in Deleters /\ deleter'.pc \in {"done", "failed"}
  <2>1. CASE DeleteCommit
    <3>1. PICK T \in SUBSET Approvals : T = {a \in Approvals : apprLock[a] = Deleter}
      OBVIOUS
    <3>2. deleter' = [deleter EXCEPT !.pc = "done", !.todo = T]
      BY <2>1, <3>1 DEF DeleteCommit
    <3> QED BY <3>2, <1>1 DEF Deleters
  <2>2. CASE DeleteFails
    <3>1. deleter' = [deleter EXCEPT !.pc = "failed", !.todo = {}, !.at = None]
      BY <2>2 DEF DeleteFails
    <3> QED BY <3>1, <1>1 DEF Deleters
  <2> QED BY <2>1, <2>2
<1>5. /\ apprLock' \in [Approvals -> Resumes \cup {None, Deleter}]
      /\ \A r \in Resumes, a \in Approvals : apprLock'[a] = r <=> apprLock[a] = r
  <2>1. \A a \in Approvals :
          apprLock'[a] = IF apprLock[a] = Deleter THEN None ELSE apprLock[a]
    BY <1>2 DEF Unlocked
  <2>2. apprLock' \in [Approvals -> Resumes \cup {None, Deleter}]
    BY <1>1, <1>2 DEF Unlocked
  <2> QED BY <2>1, <2>2, <1>3
<1>6. \/ UNCHANGED <<resp, appr, log>>
      \/ /\ deleter.pc = "rows" /\ deleter.todo = {}
         /\ resp' = (resp /\ ~deleter.hit) /\ log' = {}
         /\ appr' = [a \in Approvals |-> IF apprLock[a] = Deleter THEN "none" ELSE appr[a]]
  BY DEF DeleteCommit, DeleteFails, rows
<1>7. /\ resp' \in BOOLEAN /\ (resp' => resp) /\ log' \in {{}, 1..LastEvent}
      /\ appr' \in [Approvals -> {"none", "open", "used"}]
      /\ \A a \in Approvals : \/ appr'[a] = appr[a]
                              \/ appr'[a] = "none" /\ apprLock[a] = Deleter
  <2>1. resp \in BOOLEAN /\ log \in {{}, 1..LastEvent}
        /\ appr \in [Approvals -> {"none", "open", "used"}]
    BY <1>1 DEF RowTypes
  <2>2. CASE UNCHANGED <<resp, appr, log>>
    BY <2>1, <2>2
  <2>3. CASE /\ resp' = (resp /\ ~deleter.hit) /\ log' = {}
             /\ appr' = [a \in Approvals |-> IF apprLock[a] = Deleter THEN "none" ELSE appr[a]]
    <3>1. resp' \in BOOLEAN /\ (resp' => resp) /\ log' \in {{}, 1..LastEvent}
      BY <2>3
    <3> QED BY <3>1, <2>1, <2>3
  <2> QED BY <2>2, <2>3, <1>6
<1>8. RowTypes'
  <2>1. respLock' \in {None, Writer, Deleter}
    BY <1>1, <1>2 DEF RowTypes
  <2> QED BY <2>1, <1>1, <1>2, <1>4, <1>5, <1>7 DEF RowTypes
<1>9. NoOrphanRows'
  <2>1. CASE UNCHANGED <<resp, appr, log>>
    BY <2>1, <1>1 DEF NoOrphanRows
  <2>2. CASE /\ deleter.pc = "rows" /\ deleter.todo = {}
             /\ resp' = (resp /\ ~deleter.hit) /\ log' = {}
             /\ appr' = [a \in Approvals |-> IF apprLock[a] = Deleter THEN "none" ELSE appr[a]]
    <3>1. CASE deleter.hit
      <4>1. \A a \in Approvals : appr[a] # "none" => apprLock[a] = Deleter
        BY <2>2, <3>1, <1>1 DEF DeleteSees
      <4> QED BY <4>1, <2>2 DEF NoOrphanRows
    <3>2. CASE ~deleter.hit
      BY <3>2, <2>2, <1>1 DEF NoOrphanRows
    <3> QED BY <3>1, <3>2
  <2> QED BY <2>1, <2>2, <1>6
<1>10. ParentHeld'
  <2>1. writer = "insert" => resp' /\ respLock' = Writer
    <3> SUFFICES ASSUME writer = "insert" PROVE resp' /\ respLock' = Writer
      OBVIOUS
    <3>1. resp /\ respLock = Writer /\ ~deleter.hit
      BY <1>1, <1>2, <1>3 DEF ParentHeld
    <3> QED BY <3>1, <1>2, <1>3, <1>6
  <2> QED BY <2>1, <1>1, <1>2, <1>4, <1>7 DEF ParentHeld
<1>11. DeleteSees'
  BY <1>4 DEF DeleteSees
<1>12. LocksKnown'
  <2>1. \A a \in Approvals : apprLock'[a] \in Resumes => appr'[a] = "open"
    BY <1>1, <1>3, <1>5, <1>7 DEF LocksKnown
  <2> QED BY <2>1, <1>1, <1>2, <1>5 DEF LocksKnown
<1>13. ConsentKept'
  <2>1. Committed' = Committed /\ \A r, a : Names(r, a)' <=> Names(r, a)
    BY <1>2, ResumeSame
  <2>2. \A a \in Approvals : appr'[a] # "none" => appr'[a] = appr[a]
    BY <1>7
  <2> QED BY <2>1, <2>2, <1>1, <1>2 DEF ConsentKept
<1>14. ReplayKnown'
  BY <1>1, <1>2 DEF ReplayKnown, ReplayComplete
<1> QED BY <1>1, <1>8, <1>9, <1>10, <1>11, <1>12, <1>13, <1>14 DEF RowsInv, RowsConstants

\* One turn goes on: what the others name, hold and have committed stays.
LEMMA TurnGoes ==
  ASSUME RowsInv, NEW r \in Resumes, NEW x \in Turns, resume' = [resume EXCEPT ![r] = x]
  PROVE  /\ resume' \in [Resumes -> Turns] /\ resume'[r] = x
         /\ \A q \in Resumes \ {r} : resume'[q] = resume[q]
         /\ \A q \in Resumes \ {r} : q \in Committed' <=> q \in Committed
         /\ \A q \in Resumes \ {r} : \A a : Names(q, a)' <=> Names(q, a)
         /\ x.batch = resume[r].batch => \A a : Names(r, a)' <=> Names(r, a)
         /\ r \in Committed' <=> x.pc \in {"accepted", "unanswered", "done"}
         /\ Committed \in SUBSET Resumes /\ Committed' \in SUBSET Resumes
<1>1. resume \in [Resumes -> Turns]
  BY DEF RowsInv, RowTypes
<1>2. /\ resume' \in [Resumes -> Turns] /\ resume'[r] = x
      /\ \A q \in Resumes \ {r} : resume'[q] = resume[q]
  BY <1>1
<1>3. \A q \in Resumes \ {r} : \A a : Names(q, a)' <=> Names(q, a)
  BY <1>2 DEF Names
<1>4. x.batch = resume[r].batch => \A a : Names(r, a)' <=> Names(r, a)
  BY <1>2 DEF Names
<1> QED BY <1>2, <1>3, <1>4 DEF Committed

\* A turn loads its batch.
LEMMA LoadInv ==
  ASSUME RowsInv, NEW r \in Resumes, NEW b \in Batches, Load(r, b)
  PROVE  RowsInv'
<1>1. /\ RowsConstants /\ RowTypes /\ NoOrphanRows /\ ParentHeld /\ DeleteSees
      /\ LocksKnown /\ ConsentKept /\ ReplayKnown
  BY DEF RowsInv
<1>2. /\ UNCHANGED <<resp, appr, log, respLock, apprLock, writer, deleter, replay, executed>>
      /\ resume[r].pc = "idle"
  BY DEF Load, rows, locks
<1>3. PICK x : /\ resume' = [resume EXCEPT ![r] = x]
               /\ \/ /\ x = [pc |-> "claim", batch |-> b, claimed |-> 0]
                     /\ \A n \in DOMAIN b : appr[b[n]] # "none"
                  \/ x = [pc |-> "rejected", batch |-> b, claimed |-> 0]
  BY DEF Load
<1>4. /\ x \in Turns /\ x.batch = b /\ x.claimed = 0
      /\ \/ x.pc = "claim" /\ \A n \in DOMAIN b : appr[b[n]] # "none"
         \/ x.pc = "rejected"
  BY <1>3 DEF Turns
<1>5. /\ resume' \in [Resumes -> Turns] /\ resume'[r] = x
      /\ \A q \in Resumes \ {r} : resume'[q] = resume[q]
      /\ \A q \in Resumes \ {r} : q \in Committed' <=> q \in Committed
      /\ \A q \in Resumes \ {r} : \A a : Names(q, a)' <=> Names(q, a)
      /\ r \in Committed' <=> x.pc \in {"accepted", "unanswered", "done"}
      /\ Committed \in SUBSET Resumes /\ Committed' \in SUBSET Resumes
  BY <1>3, <1>4, TurnGoes
<1>6. r \notin Committed /\ r \notin Committed'
  BY <1>2, <1>4, <1>5 DEF Committed
<1>7. RowTypes'
  BY <1>1, <1>2, <1>5 DEF RowTypes
<1>8. NoOrphanRows' /\ ParentHeld' /\ DeleteSees' /\ ReplayKnown'
  BY <1>1, <1>2 DEF NoOrphanRows, ParentHeld, DeleteSees, ReplayKnown, ReplayComplete
<1>9. LocksKnown'
  <2>1. Claimed(x) = {}
    BY <1>4 DEF Claimed
  <2>2. \A a \in Approvals : apprLock[a] # r
    BY <1>1, <1>2 DEF LocksKnown
  <2>3. \A q \in Resumes, a \in Approvals :
          apprLock'[a] = q <=> resume'[q].pc = "claim" /\ a \in Claimed(resume'[q])
    BY <2>1, <2>2, <1>1, <1>2, <1>5 DEF LocksKnown
  <2>4. \A q \in Resumes : resume'[q].claimed <= Len(resume'[q].batch)
    <3>1. IsBatch(b)
      BY <1>1 DEF RowsConstants, IsBatch
    <3>2. Len(b) \in Nat
      BY <3>1, <1>1, RankFacts
    <3>3. x.claimed <= Len(x.batch)
      BY <3>2, <1>4
    <3> QED BY <3>3, <1>1, <1>5 DEF LocksKnown
  <2> QED BY <2>3, <2>4, <1>1, <1>2 DEF LocksKnown
<1>10. ConsentKept'
  <2>1. \A q \in Committed' : q \in Committed /\ q # r /\ q \in Resumes
    BY <1>5, <1>6
  <2>2. \A q \in Committed : q \in Committed' /\ q # r /\ q \in Resumes
    BY <1>5, <1>6
  <2>3. \A q, p \in Committed', a \in Approvals : Names(q, a)' /\ Names(p, a)' => q = p
    BY <2>1, <1>1, <1>5 DEF ConsentKept
  <2>4. \A q \in Committed', a \in Approvals : Names(q, a)' => appr'[a] # "open"
    BY <2>1, <1>1, <1>2, <1>5 DEF ConsentKept
  <2>5. \A a \in Approvals : appr'[a] = "used" => \E q \in Committed' : Names(q, a)'
    BY <2>2, <1>1, <1>2, <1>5 DEF ConsentKept
  <2>6. \A a \in Approvals : executed'[a] # 0 =>
          executed'[a] = 1 /\ \E q \in Resumes : resume'[q].pc = "done" /\ Names(q, a)'
    <3>1. \A q \in Resumes : resume[q].pc = "done" => q # r
      BY <1>2
    <3> QED BY <3>1, <1>1, <1>2, <1>5 DEF ConsentKept
  <2>7. \A q \in Resumes, a \in Approvals :
          writer' = "persist" /\ Names(q, a)' => resume'[q].pc = "rejected"
    <3>1. ASSUME NEW a \in Approvals, writer' = "persist", Names(r, a)'
          PROVE  x.pc = "rejected"
      <4>1. \A y \in Approvals : appr[y] = "none"
        BY <3>1, <1>1, <1>2 DEF ParentHeld, NoOrphanRows
      <4>2. \E n \in DOMAIN b : b[n] = a
        BY <3>1, <1>4, <1>5 DEF Names
      <4> QED BY <4>1, <4>2, <1>4
    <3>2. \A q \in Resumes \ {r}, a \in Approvals :
            writer' = "persist" /\ Names(q, a)' => resume'[q].pc = "rejected"
      BY <1>1, <1>2, <1>5 DEF ConsentKept
    <3> QED BY <3>1, <3>2, <1>5
  <2> QED BY <2>3, <2>4, <2>5, <2>6, <2>7 DEF ConsentKept
<1> QED BY <1>1, <1>7, <1>8, <1>9, <1>10 DEF RowsInv, RowsConstants

\* While a turn only claims, or gives up, what is committed stays as it is.
LEMMA ClaimKeepsConsent ==
  ASSUME RowsInv, NEW r \in Resumes, NEW x \in Turns, resume' = [resume EXCEPT ![r] = x],
         resume[r].pc = "claim", x.pc \in {"claim", "rejected"}, x.batch = resume[r].batch,
         UNCHANGED <<appr, writer, executed>>
  PROVE  ConsentKept'
<1>1. /\ ConsentKept /\ resume'[r] = x
      /\ \A q \in Resumes \ {r} : resume'[q] = resume[q]
      /\ \A q \in Resumes \ {r} : q \in Committed' <=> q \in Committed
      /\ \A q \in Resumes : \A a : Names(q, a)' <=> Names(q, a)
      /\ r \in Committed' <=> x.pc \in {"accepted", "unanswered", "done"}
      /\ Committed \in SUBSET Resumes /\ Committed' \in SUBSET Resumes
  BY TurnGoes DEF RowsInv
<1>2. Committed' = Committed /\ r \notin Committed
  <2>1. r \notin Committed /\ r \notin Committed'
    BY <1>1 DEF Committed
  <2> QED BY <2>1, <1>1
<1>3. \A q, p \in Committed', a \in Approvals : Names(q, a)' /\ Names(p, a)' => q = p
  BY <1>1, <1>2 DEF ConsentKept
<1>4. \A q \in Committed', a \in Approvals : Names(q, a)' => appr'[a] # "open"
  BY <1>1, <1>2 DEF ConsentKept
<1>5. \A a \in Approvals : appr'[a] = "used" => \E q \in Committed' : Names(q, a)'
  BY <1>1, <1>2 DEF ConsentKept
<1>6. \A a \in Approvals : executed'[a] # 0 =>
        executed'[a] = 1 /\ \E q \in Resumes : resume'[q].pc = "done" /\ Names(q, a)'
  <2>1. \A q \in Resumes : resume[q].pc = "done" => resume'[q].pc = "done"
    BY <1>1
  <2> QED BY <2>1, <1>1 DEF ConsentKept
<1>7. \A q \in Resumes, a \in Approvals :
        writer' = "persist" /\ Names(q, a)' => resume'[q].pc = "rejected"
  <2>1. \A a \in Approvals : ~(writer = "persist" /\ Names(r, a))
    BY <1>1 DEF ConsentKept
  <2> QED BY <2>1, <1>1 DEF ConsentKept
<1> QED BY <1>3, <1>4, <1>5, <1>6, <1>7 DEF ConsentKept

\* A turn is refused and rolled back.
LEMMA RollBackInv ==
  ASSUME RowsInv, NEW r \in Resumes, resume[r].pc = "claim", RollBack(r, "rejected")
  PROVE  RowsInv'
<1>1. /\ RowsConstants /\ RowTypes /\ NoOrphanRows /\ ParentHeld /\ DeleteSees
      /\ LocksKnown /\ ReplayKnown /\ apprLock \in [Approvals -> Resumes \cup {None, Deleter}]
  BY DEF RowsInv, RowTypes
<1>2. /\ UNCHANGED <<resp, appr, log, respLock, writer, deleter, replay, executed>>
      /\ apprLock' = Unlocked(r)
  BY DEF RollBack, rows
<1>3. PICK x : x = [resume[r] EXCEPT !.pc = "rejected"]
  OBVIOUS
<1>4. /\ x \in Turns /\ x.batch = resume[r].batch /\ x.claimed = resume[r].claimed
      /\ x.pc = "rejected"
  BY <1>3, TurnFacts DEF Turns
<1>5. resume' = [resume EXCEPT ![r] = x]
  BY <1>1, <1>3 DEF RollBack, RowTypes
<1>6. /\ resume' \in [Resumes -> Turns] /\ resume'[r] = x
      /\ \A q \in Resumes \ {r} : resume'[q] = resume[q]
  BY <1>4, <1>5, TurnGoes
<1>7. /\ \A a \in Approvals : apprLock'[a] = IF apprLock[a] = r THEN None ELSE apprLock[a]
      /\ apprLock' \in [Approvals -> Resumes \cup {None, Deleter}]
  BY <1>1, <1>2 DEF Unlocked
<1>8. None \notin Resumes /\ r # Deleter
  BY <1>1 DEF RowsConstants
<1>9. RowTypes'
  BY <1>1, <1>2, <1>6, <1>7 DEF RowTypes
<1>10. NoOrphanRows' /\ ParentHeld' /\ ReplayKnown'
  BY <1>1, <1>2 DEF NoOrphanRows, ParentHeld, ReplayKnown, ReplayComplete
<1>11. DeleteSees'
  BY <1>1, <1>2, <1>7, <1>8 DEF DeleteSees
<1>12. LocksKnown'
  <2>1. \A q \in Resumes, a \in Approvals :
          apprLock'[a] = q <=> resume'[q].pc = "claim" /\ a \in Claimed(resume'[q])
    BY <1>1, <1>4, <1>6, <1>7, <1>8 DEF LocksKnown
  <2>2. \A q \in Resumes : resume'[q].claimed <= Len(resume'[q].batch)
    BY <1>1, <1>4, <1>6 DEF LocksKnown
  <2>3. \A a \in Approvals : apprLock'[a] \in Resumes => appr'[a] = "open"
    BY <1>1, <1>2, <1>7, <1>8 DEF LocksKnown
  <2> QED BY <2>1, <2>2, <2>3 DEF LocksKnown
<1>13. ConsentKept'
  BY <1>2, <1>4, <1>5, ClaimKeepsConsent
<1> QED BY <1>1, <1>9, <1>10, <1>11, <1>12, <1>13 DEF RowsInv, RowsConstants

\* A turn claims its next row, which is outstanding and not locked.
LEMMA ClaimRowInv ==
  ASSUME RowsInv, NEW r \in Resumes, ClaimRow(r)
  PROVE  RowsInv'
<1>1. /\ RowsConstants /\ RowTypes /\ NoOrphanRows /\ ParentHeld /\ DeleteSees
      /\ LocksKnown /\ ReplayKnown /\ apprLock \in [Approvals -> Resumes \cup {None, Deleter}]
  BY DEF RowsInv, RowTypes
<1>2. resume[r].pc = "claim" /\ resume[r].claimed < Len(resume[r].batch)
  BY DEF ClaimRow
<1>3. CASE RollBack(r, "rejected")
  BY <1>2, <1>3, RollBackInv
<1>4. CASE /\ apprLock[NextRow(r)] = None /\ Outstanding(NextRow(r))
           /\ apprLock' = [apprLock EXCEPT ![NextRow(r)] = r]
           /\ resume' = [resume EXCEPT ![r].claimed = @ + 1]
           /\ UNCHANGED <<rows, respLock, writer, deleter, replay, executed>>
  <2>1. UNCHANGED <<resp, appr, log, respLock, writer, deleter, replay, executed>>
    BY <1>4 DEF rows
  <2>2. PICK row \in Approvals : row = NextRow(r)
    BY <1>2, NextRowFacts
  <2>3. /\ apprLock[row] = None /\ appr[row] = "open"
        /\ apprLock' = [apprLock EXCEPT ![row] = r]
    BY <1>4, <2>2 DEF Outstanding
  <2>4. PICK n \in Nat : n = resume[r].claimed /\ n + 1 \in Nat
    BY TurnFacts
  <2>5. PICK x : x = [resume[r] EXCEPT !.claimed = n + 1]
    OBVIOUS
  <2>6. /\ x \in Turns /\ x.batch = resume[r].batch /\ x.claimed = n + 1
        /\ x.pc = "claim"
    BY <1>2, <2>4, <2>5, TurnFacts DEF Turns
  <2>7. resume' = [resume EXCEPT ![r] = x]
    BY <1>1, <1>4, <2>4, <2>5 DEF RowTypes
  <2>8. /\ resume' \in [Resumes -> Turns] /\ resume'[r] = x
        /\ \A q \in Resumes \ {r} : resume'[q] = resume[q]
    BY <2>6, <2>7, TurnGoes
  <2>9. /\ apprLock' \in [Approvals -> Resumes \cup {None, Deleter}] /\ apprLock'[row] = r
        /\ \A a \in Approvals \ {row} : apprLock'[a] = apprLock[a]
    BY <1>1, <2>3
  <2>10. None \notin Resumes /\ r # Deleter /\ None # Deleter
    BY <1>1 DEF RowsConstants
  <2>11. RowTypes'
    BY <1>1, <2>1, <2>8, <2>9 DEF RowTypes
  <2>12. NoOrphanRows' /\ ParentHeld' /\ ReplayKnown'
    BY <1>1, <2>1 DEF NoOrphanRows, ParentHeld, ReplayKnown, ReplayComplete
  <2>13. DeleteSees'
    BY <1>1, <2>1, <2>3, <2>9, <2>10 DEF DeleteSees
  <2>14. LocksKnown'
    <3>1. Claimed(x) = Claimed(resume[r]) \cup {row}
      <4>1. 1..(n + 1) = 1..n \cup {n + 1}
        BY <2>4
      <4>2. row = Ordered(x.batch)[n + 1]
        BY <2>2, <2>4, <2>6 DEF NextRow
      <4>3. Claimed(x) = {Ordered(x.batch)[k] : k \in 1..n \cup {n + 1}}
        BY <4>1, <2>6 DEF Claimed
      <4>4. Claimed(resume[r]) = {Ordered(x.batch)[k] : k \in 1..n}
        BY <2>4, <2>6 DEF Claimed
      <4> QED BY <4>2, <4>3, <4>4
    <3>2. \A a \in Approvals : apprLock'[a] = r <=> a \in Claimed(x)
      BY <3>1, <2>9, <1>1, <1>2 DEF LocksKnown
    <3>3. \A q \in Resumes \ {r}, a \in Approvals :
            apprLock'[a] = q <=> resume'[q].pc = "claim" /\ a \in Claimed(resume'[q])
      BY <1>1, <2>3, <2>8, <2>9, <2>10 DEF LocksKnown
    <3>4. x.claimed <= Len(x.batch)
      BY <1>2, <2>4, <2>6, TurnFacts
    <3>5. \A q \in Resumes : resume'[q].claimed <= Len(resume'[q].batch)
      BY <3>4, <1>1, <2>8 DEF LocksKnown
    <3>6. \A a \in Approvals : apprLock'[a] \in Resumes => appr'[a] = "open"
      BY <1>1, <2>1, <2>3, <2>9 DEF LocksKnown
    <3>7. \A q \in Resumes, a \in Approvals :
            apprLock'[a] = q <=> resume'[q].pc = "claim" /\ a \in Claimed(resume'[q])
      BY <3>2, <3>3, <2>6, <2>8
    <3> QED BY <3>5, <3>6, <3>7 DEF LocksKnown
  <2>15. ConsentKept'
    BY <1>2, <2>1, <2>6, <2>7, ClaimKeepsConsent
  <2> QED BY <1>1, <2>11, <2>12, <2>13, <2>14, <2>15 DEF RowsInv, RowsConstants
<1> QED BY <1>3, <1>4 DEF ClaimRow

\* A turn commits its claims: exactly the approvals of its batch become used.
LEMMA ClaimCommitInv ==
  ASSUME RowsInv, NEW r \in Resumes, ClaimCommit(r)
  PROVE  RowsInv'
<1>1. /\ RowsConstants /\ RowTypes /\ NoOrphanRows /\ ParentHeld /\ DeleteSees
      /\ LocksKnown /\ ConsentKept /\ ReplayKnown
      /\ apprLock \in [Approvals -> Resumes \cup {None, Deleter}]
      /\ appr \in [Approvals -> {"none", "open", "used"}]
  BY DEF RowsInv, RowTypes
<1>2. /\ UNCHANGED <<resp, log, respLock, writer, deleter, replay, executed>>
      /\ resume[r].pc = "claim" /\ resume[r].claimed = Len(resume[r].batch)
      /\ apprLock' = Unlocked(r)
      /\ appr' = [a \in Approvals |-> IF apprLock[a] = r THEN "used" ELSE appr[a]]
  BY DEF ClaimCommit
<1>3. PICK end \in {"accepted", "unanswered"} : resume' = [resume EXCEPT ![r].pc = end]
  BY DEF ClaimCommit
<1>4. PICK x : x = [resume[r] EXCEPT !.pc = end]
  OBVIOUS
<1>5. /\ x \in Turns /\ x.batch = resume[r].batch /\ x.claimed = resume[r].claimed
      /\ x.pc \in {"accepted", "unanswered"}
  BY <1>4, TurnFacts DEF Turns
<1>6. resume' = [resume EXCEPT ![r] = x]
  BY <1>1, <1>3, <1>4 DEF RowTypes
<1>7. /\ resume' \in [Resumes -> Turns] /\ resume'[r] = x
      /\ \A q \in Resumes \ {r} : resume'[q] = resume[q]
      /\ \A q \in Resumes \ {r} : q \in Committed' <=> q \in Committed
      /\ \A q \in Resumes : \A a : Names(q, a)' <=> Names(q, a)
      /\ r \in Committed'
      /\ Committed \in SUBSET Resumes /\ Committed' \in SUBSET Resumes
  BY <1>5, <1>6, TurnGoes
<1>8. Committed' = Committed \cup {r}
  BY <1>7
<1>9. /\ \A a \in Approvals : apprLock'[a] = IF apprLock[a] = r THEN None ELSE apprLock[a]
      /\ apprLock' \in [Approvals -> Resumes \cup {None, Deleter}]
  BY <1>1, <1>2 DEF Unlocked
<1>10. None \notin Resumes /\ r # Deleter
  BY <1>1 DEF RowsConstants
<1>11. \A a \in Approvals :
         /\ Names(r, a) <=> apprLock[a] = r
         /\ apprLock[a] = r => appr[a] = "open" /\ appr'[a] = "used"
         /\ apprLock[a] # r => appr'[a] = appr[a]
  <2>1. \A a \in Approvals : Names(r, a) <=> a \in Claimed(resume[r])
    BY <1>2, AllClaimed
  <2> QED BY <2>1, <1>1, <1>2 DEF LocksKnown
<1>12. appr' \in [Approvals -> {"none", "open", "used"}]
  BY <1>1, <1>2
<1>13. RowTypes'
  BY <1>1, <1>2, <1>7, <1>9, <1>12 DEF RowTypes
<1>14. NoOrphanRows'
  BY <1>1, <1>2, <1>11 DEF NoOrphanRows
<1>15. ParentHeld' /\ ReplayKnown'
  BY <1>1, <1>2 DEF ParentHeld, ReplayKnown, ReplayComplete
<1>16. DeleteSees'
  BY <1>1, <1>2, <1>9, <1>10, <1>11 DEF DeleteSees
<1>17. LocksKnown'
  <2>1. \A q \in Resumes, a \in Approvals :
          apprLock'[a] = q <=> resume'[q].pc = "claim" /\ a \in Claimed(resume'[q])
    BY <1>1, <1>5, <1>7, <1>9, <1>10 DEF LocksKnown
  <2>2. \A q \in Resumes : resume'[q].claimed <= Len(resume'[q].batch)
    BY <1>1, <1>5, <1>7 DEF LocksKnown
  <2>3. \A a \in Approvals : apprLock'[a] \in Resumes => appr'[a] = "open"
    BY <1>1, <1>9, <1>10, <1>11 DEF LocksKnown
  <2> QED BY <2>1, <2>2, <2>3 DEF LocksKnown
<1>18. ConsentKept'
  <2>1. \A q \in Committed, a \in Approvals : ~(Names(q, a) /\ Names(r, a))
    BY <1>1, <1>11 DEF ConsentKept
  <2>2. \A q, p \in Committed', a \in Approvals : Names(q, a)' /\ Names(p, a)' => q = p
    BY <2>1, <1>1, <1>7, <1>8 DEF ConsentKept
  <2>3. \A q \in Committed', a \in Approvals : Names(q, a)' => appr'[a] # "open"
    <3>1. \A a \in Approvals : Names(r, a)' => appr'[a] # "open"
      BY <1>7, <1>11
    <3>2. \A q \in Committed, a \in Approvals : Names(q, a)' => appr'[a] # "open"
      BY <1>1, <1>7, <1>11 DEF ConsentKept
    <3> QED BY <3>1, <3>2, <1>8
  <2>4. \A a \in Approvals : appr'[a] = "used" => \E q \in Committed' : Names(q, a)'
    <3>1. \A a \in Approvals : apprLock[a] = r => Names(r, a)'
      BY <1>7, <1>11
    <3>2. \A a \in Approvals : appr[a] = "used" => \E q \in Committed : Names(q, a)'
      BY <1>1, <1>7 DEF ConsentKept
    <3> QED BY <3>1, <3>2, <1>8, <1>11
  <2>5. \A a \in Approvals : executed'[a] # 0 =>
          executed'[a] = 1 /\ \E q \in Resumes : resume'[q].pc = "done" /\ Names(q, a)'
    <3>1. \A q \in Resumes : resume[q].pc = "done" => resume'[q].pc = "done"
      BY <1>2, <1>7
    <3> QED BY <3>1, <1>1, <1>2, <1>7 DEF ConsentKept
  <2>6. \A q \in Resumes, a \in Approvals :
          writer' = "persist" /\ Names(q, a)' => resume'[q].pc = "rejected"
    <3>1. \A a \in Approvals : ~(writer = "persist" /\ Names(r, a))
      BY <1>1, <1>2 DEF ConsentKept
    <3> QED BY <3>1, <1>1, <1>2, <1>7 DEF ConsentKept
  <2> QED BY <2>2, <2>3, <2>4, <2>5, <2>6 DEF ConsentKept
<1> QED BY <1>1, <1>13, <1>14, <1>15, <1>16, <1>17, <1>18 DEF RowsInv, RowsConstants

\* An approval is once in a batch that names it.
LEMMA TimesNamed ==
  ASSUME RowsInv, NEW r \in Resumes, NEW a \in Approvals
  PROVE  Cardinality({n \in DOMAIN resume[r].batch : resume[r].batch[n] = a})
           = IF Names(r, a) THEN 1 ELSE 0
<1>1. PICK b : b = resume[r].batch
  OBVIOUS
<1>2. PICK S : S = {n \in DOMAIN b : b[n] = a}
  OBVIOUS
<1>3. IsBatch(b)
  BY <1>1, TurnFacts
<1>4. CASE Names(r, a)
  <2>1. PICK n \in DOMAIN b : b[n] = a
    BY <1>1, <1>4 DEF Names
  <2>2. S = {n}
    BY <1>2, <1>3, <2>1 DEF IsBatch
  <2> QED BY <1>1, <1>2, <1>4, <2>2, FS_Singleton
<1>5. CASE ~Names(r, a)
  <2>1. S = {}
    BY <1>1, <1>2, <1>5 DEF Names
  <2> QED BY <1>1, <1>2, <1>5, <2>1, FS_EmptySet
<1> QED BY <1>4, <1>5

\* The calls of an accepted turn are executed, or the gateway stops before.
LEMMA ExecuteInv ==
  ASSUME RowsInv, NEW r \in Resumes, Execute(r)
  PROVE  RowsInv'
<1>1. /\ RowsConstants /\ RowTypes /\ NoOrphanRows /\ ParentHeld /\ DeleteSees
      /\ LocksKnown /\ ConsentKept /\ ReplayKnown
      /\ executed \in [Approvals -> Nat]
  BY DEF RowsInv, RowTypes
<1>2. /\ UNCHANGED <<resp, appr, log, respLock, apprLock, writer, deleter, replay>>
      /\ resume[r].pc = "accepted"
  BY DEF Execute, rows, locks
<1>3. PICK x : x = [resume[r] EXCEPT !.pc = "done"]
  OBVIOUS
<1>4. /\ x \in Turns /\ x.batch = resume[r].batch /\ x.claimed = resume[r].claimed
      /\ x.pc = "done"
  BY <1>3, TurnFacts DEF Turns
<1>5. resume' = [resume EXCEPT ![r] = x]
  BY <1>1, <1>3 DEF Execute, RowTypes
<1>6. /\ resume' \in [Resumes -> Turns] /\ resume'[r] = x
      /\ \A q \in Resumes \ {r} : resume'[q] = resume[q]
      /\ \A q \in Resumes \ {r} : q \in Committed' <=> q \in Committed
      /\ \A q \in Resumes : \A a : Names(q, a)' <=> Names(q, a)
      /\ r \in Committed' /\ r \in Committed
      /\ Committed \in SUBSET Resumes /\ Committed' \in SUBSET Resumes
  <2>1. r \in Committed
    BY <1>2 DEF Committed
  <2> QED BY <2>1, <1>4, <1>5, TurnGoes
<1>7. Committed' = Committed
  BY <1>6
<1>8. /\ executed' \in [Approvals -> Nat]
      /\ \A a \in Approvals : \/ executed'[a] = executed[a]
                              \/ Names(r, a) /\ executed'[a] = executed[a] + 1
  <2>1. CASE UNCHANGED executed
    BY <2>1, <1>1
  <2>2. CASE executed' = [a \in Approvals |->
               executed[a] + Cardinality({n \in DOMAIN resume[r].batch : resume[r].batch[n] = a})]
    <3>1. \A a \in Approvals : executed'[a] = executed[a] + (IF Names(r, a) THEN 1 ELSE 0)
      BY <2>2, TimesNamed
    <3>2. \A a \in Approvals : executed[a] \in Nat
      BY <1>1
    <3>3. \A a \in Approvals : executed'[a] \in Nat
      BY <3>1, <3>2
    <3>4. executed' \in [Approvals -> Nat]
      BY <2>2, <3>3
    <3> QED BY <3>1, <3>2, <3>4
  <2> QED BY <2>1, <2>2 DEF Execute
<1>9. RowTypes'
  BY <1>1, <1>2, <1>6, <1>8 DEF RowTypes
<1>10. NoOrphanRows' /\ ParentHeld' /\ DeleteSees' /\ ReplayKnown'
  BY <1>1, <1>2 DEF NoOrphanRows, ParentHeld, DeleteSees, ReplayKnown, ReplayComplete
<1>11. LocksKnown'
  <2>1. \A a \in Approvals : apprLock[a] # r
    BY <1>1, <1>2 DEF LocksKnown
  <2>2. \A q \in Resumes, a \in Approvals :
          apprLock'[a] = q <=> resume'[q].pc = "claim" /\ a \in Claimed(resume'[q])
    BY <2>1, <1>1, <1>2, <1>4, <1>6 DEF LocksKnown
  <2>3. \A q \in Resumes : resume'[q].claimed <= Len(resume'[q].batch)
    BY <1>1, <1>4, <1>6 DEF LocksKnown
  <2> QED BY <2>2, <2>3, <1>1, <1>2 DEF LocksKnown
<1>12. ConsentKept'
  <2>1. ASSUME NEW a \in Approvals, executed'[a] # 0
        PROVE  executed'[a] = 1 /\ \E q \in Resumes : resume'[q].pc = "done" /\ Names(q, a)'
    <3>1. CASE executed'[a] = executed[a]
      <4>1. PICK q \in Resumes : resume[q].pc = "done" /\ Names(q, a)
        BY <2>1, <3>1, <1>1 DEF ConsentKept
      <4>2. resume'[q].pc = "done" /\ Names(q, a)'
        BY <4>1, <1>2, <1>6
      <4> QED BY <4>2, <2>1, <3>1, <1>1 DEF ConsentKept
    <3>2. CASE Names(r, a) /\ executed'[a] = executed[a] + 1
      <4>1. executed[a] = 0
        <5> SUFFICES ASSUME executed[a] # 0 PROVE FALSE
          OBVIOUS
        <5>1. PICK q \in Resumes : resume[q].pc = "done" /\ Names(q, a)
          BY <1>1 DEF ConsentKept
        <5>2. q \in Committed /\ q # r
          BY <5>1, <1>2 DEF Committed
        <5> QED BY <5>1, <5>2, <3>2, <1>1, <1>6 DEF ConsentKept
      <4>2. executed'[a] = 1
        BY <4>1, <3>2
      <4> QED BY <4>2, <3>2, <1>4, <1>6
    <3> QED BY <3>1, <3>2, <1>8
  <2>2. \A q \in Resumes, a \in Approvals :
          writer' = "persist" /\ Names(q, a)' => resume'[q].pc = "rejected"
    <3>1. \A a \in Approvals : ~(writer = "persist" /\ Names(r, a))
      BY <1>1, <1>2 DEF ConsentKept
    <3> QED BY <3>1, <1>1, <1>2, <1>6 DEF ConsentKept
  <2>3. \A q, p \in Committed', a \in Approvals : Names(q, a)' /\ Names(p, a)' => q = p
    BY <1>1, <1>6, <1>7 DEF ConsentKept
  <2>4. \A q \in Committed', a \in Approvals : Names(q, a)' => appr'[a] # "open"
    BY <1>1, <1>2, <1>6, <1>7 DEF ConsentKept
  <2>5. \A a \in Approvals : appr'[a] = "used" => \E q \in Committed' : Names(q, a)'
    BY <1>1, <1>2, <1>6, <1>7 DEF ConsentKept
  <2> QED BY <2>1, <2>2, <2>3, <2>4, <2>5 DEF ConsentKept
<1> QED BY <1>1, <1>9, <1>10, <1>11, <1>12 DEF RowsInv, RowsConstants

\* A replay begins, or reads a page.
LEMMA ReplayInv ==
  RowsInv /\ ((\E from \in 0..LastEvent : ReplayBegin(from)) \/ NextChunk) => RowsInv'
<1> SUFFICES ASSUME RowsInv, (\E from \in 0..LastEvent : ReplayBegin(from)) \/ NextChunk
             PROVE  RowsInv'
  OBVIOUS
<1>1. /\ RowsConstants /\ RowTypes /\ NoOrphanRows /\ ParentHeld /\ DeleteSees
      /\ LocksKnown /\ ConsentKept /\ ReplayKnown
      /\ LastEvent \in Nat \ {0} /\ PageLimit \in Nat \ {0}
      /\ replay \in Replays /\ log \in {{}, 1..LastEvent}
  BY DEF RowsInv, RowTypes, RowsConstants
<1>2. UNCHANGED <<resp, appr, log, respLock, apprLock, writer, deleter, resume, executed>>
  BY DEF ReplayBegin, NextChunk, rows, locks
<1>3. Committed' = Committed /\ \A r, a : Names(r, a)' <=> Names(r, a)
  BY <1>2, ResumeSame
<1>4. /\ replay.cursor \in Nat /\ replay.term \in Nat /\ replay.from \in Nat
      /\ replay.sent \in SUBSET Nat
  BY <1>1 DEF Replays
<1>5. ASSUME \E from \in 0..LastEvent : ReplayBegin(from)
      PROVE  replay' \in Replays /\ ReplayKnown'
  <2>1. PICK from \in 0..LastEvent : ReplayBegin(from)
    BY <1>5
  <2>2. from \in Nat /\ from <= LastEvent /\ replay.pc = "idle" /\ replay.sent = {}
    <3>1. from \in Nat /\ from <= LastEvent
      BY <1>1
    <3>2. replay.pc = "idle"
      BY <2>1 DEF ReplayBegin
    <3> QED BY <3>1, <3>2, <1>1 DEF ReplayKnown
  <2>3. (from + 1)..from = {}
    BY <2>2
  <2>4. CASE LastEvent \in log
    <3>1. replay' = [replay EXCEPT !.pc = "page", !.cursor = from, !.from = from,
                                   !.term = LastEvent]
      BY <2>1, <2>4 DEF ReplayBegin
    <3>2. /\ replay' \in Replays /\ replay'.pc = "page" /\ replay'.cursor = from
          /\ replay'.from = from /\ replay'.term = LastEvent /\ replay'.sent = {}
      BY <3>1, <2>2, <1>1, <1>4 DEF Replays
    <3> QED BY <3>2, <2>2, <2>3, <1>1 DEF ReplayKnown, ReplayComplete
  <2>5. CASE LastEvent \notin log
    <3>1. replay' = [replay EXCEPT !.pc = "refused"]
      BY <2>1, <2>5 DEF ReplayBegin
    <3>2. replay' \in Replays /\ replay'.pc = "refused"
      BY <3>1, <1>1 DEF Replays
    <3> QED BY <3>2 DEF ReplayKnown, ReplayComplete
  <2> QED BY <2>4, <2>5
<1>6. ASSUME NextChunk
      PROVE  replay' \in Replays /\ ReplayKnown'
  <2>1. PICK more : more = {e \in log : e > replay.cursor}
    OBVIOUS
  <2>2. PICK page : page = {e \in more : Cardinality({f \in more : f < e}) < PageLimit}
    OBVIOUS
  <2>3. PICK last : last = CHOOSE e \in page : \A f \in page : f <= e
    OBVIOUS
  <2>4. /\ replay.pc = "page"
        /\ replay' = IF page = {} THEN [replay EXCEPT !.pc = AfterEmptyPage]
                     ELSE [replay EXCEPT !.cursor = last, !.sent = @ \cup page,
                             !.pc = IF last = LastEvent THEN "clean" ELSE "page"]
    BY <1>6, <2>1, <2>2, <2>3 DEF NextChunk
  <2>5. /\ replay.term = LastEvent /\ replay.from <= replay.cursor
        /\ replay.cursor <= LastEvent
        /\ replay.sent = (replay.from + 1)..replay.cursor
    BY <1>1, <2>4 DEF ReplayKnown
  <2>6. CASE page = {}
    <3>1. replay' = [replay EXCEPT !.pc = AfterEmptyPage]
      BY <2>4, <2>6
    <3>2. /\ replay' \in Replays /\ replay'.pc = AfterEmptyPage
          /\ replay'.from = replay.from /\ replay'.term = replay.term
          /\ replay'.sent = replay.sent
          /\ AfterEmptyPage \in {"clean", "truncated"}
      BY <3>1, <1>1 DEF Replays, AfterEmptyPage
    <3>3. AfterEmptyPage = "clean" => replay.cursor = LastEvent
      BY <2>5, <1>1, <1>4 DEF AfterEmptyPage
    <3> QED BY <3>2, <3>3, <2>5 DEF ReplayKnown, ReplayComplete
  <2>7. CASE page # {}
    <3>1. PICK c \in Nat : c = replay.cursor
      BY <1>4
    <3>2. log = 1..LastEvent
      BY <2>7, <2>1, <2>2, <1>1
    <3>3. more = (c + 1)..LastEvent
      BY <3>1, <3>2, <2>1, <1>1
    <3>4. \A e \in more : e \in Nat /\ Cardinality({f \in more : f < e}) = e - 1 - c
      <4> TAKE e \in more
      <4>1. e \in Nat /\ c < e /\ e <= LastEvent
        BY <3>3, <1>1
      <4>2. PICK d \in Int : d = e - 1
        BY <4>1
      <4>3. {f \in more : f < e} = (c + 1)..d
        BY <4>1, <4>2, <3>3, <1>1
      <4>4. PICK k \in Int : k = c + 1
        OBVIOUS
      <4>5. Cardinality(k..d) = IF k > d THEN 0 ELSE d - k + 1
        BY FS_Interval
      <4>6. (IF k > d THEN 0 ELSE d - k + 1) = e - 1 - c
        BY <4>1, <4>2, <4>4
      <4>7. {f \in more : f < e} = k..d
        BY <4>3, <4>4
      <4> QED BY <4>1, <4>5, <4>6, <4>7
    <3>5. \A e \in Nat : e \in page <=> c < e /\ e <= LastEvent /\ e <= c + PageLimit
      BY <3>3, <3>4, <2>2, <1>1
    <3>6. page \in SUBSET Nat
      BY <3>4, <2>2
    <3>7. PICK z \in Nat : z = IF c + PageLimit <= LastEvent THEN c + PageLimit ELSE LastEvent
      BY <1>1
    <3>8. page = (c + 1)..z
      <4>1. \A e \in Nat : e \in page <=> c + 1 <= e /\ e <= z
        BY <3>5, <3>7, <1>1
      <4>2. \A e : e \in page <=> e \in (c + 1)..z
        <5>1. \A e \in (c + 1)..z : e \in Nat /\ c + 1 <= e /\ e <= z
          OBVIOUS
        <5>2. \A e \in Nat : c + 1 <= e /\ e <= z => e \in (c + 1)..z
          OBVIOUS
        <5> QED BY <5>1, <5>2, <4>1, <3>6
      <4> QED BY <4>2
    <3>9. z \in page /\ \A f \in page : f <= z
      <4>1. PICK f : f \in page
        BY <2>7
      <4>2. f \in Nat /\ c + 1 <= f /\ f <= z
        BY <4>1, <3>6, <3>8
      <4>3. c + 1 <= z
        BY <4>2
      <4> QED BY <4>3, <3>8
    <3>10. last \in page /\ \A f \in page : f <= last
      BY <3>9, <2>3
    <3>11. last = z /\ c < z /\ z <= LastEvent
      BY <3>6, <3>7, <3>8, <3>9, <3>10, <1>1
    <3>12. PICK sent : sent = replay.sent \cup page
      OBVIOUS
    <3>13. sent = (replay.from + 1)..z
      <4>1. PICK g \in Nat : g = replay.from
        BY <1>4
      <4>2. g <= c /\ sent = ((g + 1)..c) \cup ((c + 1)..z)
        BY <4>1, <3>1, <3>8, <3>12, <2>5
      <4>3. ((g + 1)..c) \cup ((c + 1)..z) = (g + 1)..z
        BY <4>2, <3>11
      <4> QED BY <4>1, <4>2, <4>3
    <3>14. sent \in SUBSET Nat
      BY <3>13, <1>4
    <3>15. replay' = [replay EXCEPT !.cursor = z, !.sent = sent,
                       !.pc = IF z = LastEvent THEN "clean" ELSE "page"]
      BY <2>4, <2>7, <3>11, <3>12
    <3>16. /\ replay' \in Replays /\ replay'.cursor = z /\ replay'.sent = sent
           /\ replay'.from = replay.from /\ replay'.term = replay.term
           /\ replay'.pc = IF z = LastEvent THEN "clean" ELSE "page"
      BY <3>14, <3>15, <1>1, <1>4 DEF Replays
    <3> QED BY <3>1, <3>11, <3>13, <3>16, <2>5, <1>1, <1>4 DEF ReplayKnown, ReplayComplete
  <2> QED BY <2>6, <2>7
<1>7. replay' \in Replays /\ ReplayKnown'
  BY <1>5, <1>6
<1>8. RowTypes'
  BY <1>1, <1>2, <1>7 DEF RowTypes
<1>9. NoOrphanRows' /\ ParentHeld' /\ DeleteSees' /\ LocksKnown'
  BY <1>1, <1>2 DEF NoOrphanRows, ParentHeld, DeleteSees, LocksKnown
<1>10. ConsentKept'
  BY <1>1, <1>2, <1>3 DEF ConsentKept
<1> QED BY <1>1, <1>7, <1>8, <1>9, <1>10 DEF RowsInv, RowsConstants

\* Every step keeps the invariant.
LEMMA RowsStep == RowsInv /\ [RowsNext]_rowVars => RowsInv'
<1> SUFFICES ASSUME RowsInv, [RowsNext]_rowVars PROVE RowsInv'
  OBVIOUS
<1>1. CASE UNCHANGED rowVars
  <2>1. /\ RowsConstants /\ RowTypes /\ NoOrphanRows /\ ParentHeld /\ DeleteSees
        /\ LocksKnown /\ ConsentKept /\ ReplayKnown
    BY DEF RowsInv
  <2>2. UNCHANGED <<resp, appr, log, respLock, apprLock, writer, deleter, resume, replay,
                    executed>>
    BY <1>1 DEF rowVars, rows, locks
  <2>3. Committed' = Committed /\ \A r, a : Names(r, a)' <=> Names(r, a)
    BY <2>2, ResumeSame
  <2>4. RowTypes' /\ NoOrphanRows' /\ ParentHeld' /\ DeleteSees'
    BY <2>1, <2>2 DEF RowTypes, NoOrphanRows, ParentHeld, DeleteSees
  <2>5. LocksKnown' /\ ReplayKnown'
    BY <2>1, <2>2 DEF LocksKnown, ReplayKnown, ReplayComplete
  <2>6. ConsentKept'
    BY <2>1, <2>2, <2>3 DEF ConsentKept
  <2> QED BY <2>1, <2>4, <2>5, <2>6 DEF RowsInv, RowsConstants
<1>2. CASE Persist \/ Pin \/ InsertEvents
  BY <1>2, PersistInv, AppendInv
<1>3. CASE \/ DeleteResponse \/ DeleteApprovals \/ DeleteRow \/ DeleteCommit \/ DeleteFails
           \/ \E a \in Approvals : DeleteMeets(a)
  BY <1>3, DeleteStepsInv, DeleteRowInv, DeleteEndsInv
<1>4. ASSUME NEW r \in Resumes,
             \/ \E b \in Batches : Load(r, b)
             \/ ClaimRow(r) \/ ClaimFails(r) \/ ClaimCommit(r) \/ Execute(r)
      PROVE  RowsInv'
  <2>1. CASE \E b \in Batches : Load(r, b)
    BY <2>1, LoadInv
  <2>2. CASE ClaimRow(r)
    BY <2>2, ClaimRowInv
  <2>3. CASE ClaimFails(r)
    BY <2>3, RollBackInv DEF ClaimFails
  <2>4. CASE ClaimCommit(r)
    BY <2>4, ClaimCommitInv
  <2>5. CASE Execute(r)
    BY <2>5, ExecuteInv
  <2> QED BY <1>4, <2>1, <2>2, <2>3, <2>4, <2>5
<1>5. CASE (\E from \in 0..LastEvent : ReplayBegin(from)) \/ NextChunk
  BY <1>5, ReplayInv
<1> QED BY <1>1, <1>2, <1>3, <1>4, <1>5 DEF RowsNext

-----------------------------------------------------------------------------
(* What the rows promise                                                   *)

\* A set all of whose members are one has at most one.
LEMMA AtMostOne ==
  ASSUME NEW S, \A x, y \in S : x = y
  PROVE  Cardinality(S) <= 1
<1>1. CASE S = {}
  BY <1>1, FS_EmptySet
<1>2. CASE S # {}
  <2>1. PICK x : S = {x}
    BY <1>2
  <2> QED BY <2>1, FS_Singleton
<1> QED BY <1>1, <1>2

\* Consent is used once.
LEMMA InvConsent == RowsInv => ConsentUsedOnce
<1> SUFFICES ASSUME RowsInv, NEW a \in Approvals, NEW by, by = {r \in Committed : Names(r, a)}
             PROVE  /\ Cardinality(by) <= 1 /\ executed[a] <= 1
                    /\ appr[a] = "used" => by # {}
                    /\ appr[a] = "open" => by = {}
                    /\ executed[a] = 1 => by # {}
  BY DEF ConsentUsedOnce
<1>1. ConsentKept /\ executed[a] \in Nat
  BY DEF RowsInv, RowTypes
<1>2. \A r, q \in by : r = q
  BY <1>1 DEF ConsentKept
<1>3. Cardinality(by) <= 1
  BY <1>2, AtMostOne
<1>4. executed[a] <= 1
  BY <1>1 DEF ConsentKept
<1>5. (appr[a] = "used" => by # {}) /\ (appr[a] = "open" => by = {})
  BY <1>1 DEF ConsentKept
<1>6. ASSUME executed[a] = 1 PROVE by # {}
  <2>1. executed[a] # 0
    BY <1>6
  <2>2. PICK r \in Resumes : resume[r].pc = "done" /\ Names(r, a)
    BY <1>1, <2>1 DEF ConsentKept
  <2>3. r \in Committed
    BY <2>2 DEF Committed
  <2> QED BY <2>2, <2>3
<1> QED BY <1>3, <1>4, <1>5, <1>6

\* A set of numbers that is not empty has a least one.
LEMMA LeastNumber ==
  ASSUME NEW T, T \subseteq Nat, T # {}
  PROVE  \E x \in T : \A y \in T : ~(y < x)
<1>1. PICK R : R = OpToRel(<, Nat)
  OBVIOUS
<1>2. IsWellFoundedOn(R, Nat)
  BY <1>1, NatLessThanWellFounded
<1>3. PICK x \in T : \A y \in T : <<y, x>> \notin R
  BY <1>2, WFMin
<1>4. \A y \in Nat, z \in Nat : y < z => <<y, z>> \in R
  BY <1>1 DEF OpToRel
<1> QED BY <1>3, <1>4

\* Rows are claimed in ascending order, so the turn of a circle that waits for the
\* least row would have to hold a lesser one.
LEMMA InvDeadlock == RowsInv => ResumesNeverDeadlock
<1> SUFFICES ASSUME RowsInv, NEW S \in SUBSET Resumes, InCircle(S)
             PROVE  FALSE
  BY DEF ResumesNeverDeadlock
<1>1. /\ LocksKnown /\ None \notin Resumes /\ S # {}
      /\ \A p \in S : WaitsFor(p) \in S /\ \E q \in S : WaitsFor(q) = p
  BY DEF RowsInv, RowsConstants, InCircle
<1>2. \A p \in Resumes : WaitsFor(p) =
         IF resume[p].pc = "claim" /\ resume[p].claimed < Len(resume[p].batch)
           THEN apprLock[NextRow(p)] ELSE None
  <2> TAKE p \in Resumes
  <2>1. p \in Resumes /\ p # Deleter /\ p # Writer
    BY TurnFacts
  <2> QED BY <2>1 DEF WaitsFor
<1>3. \A p \in S : /\ p \in Resumes /\ resume[p].claimed < Len(resume[p].batch)
                   /\ WaitsFor(p) = apprLock[NextRow(p)]
  BY <1>1, <1>2
<1>4. \A p \in S : NextRow(p) \in Approvals /\ NextRow(p) \in Nat
  BY <1>3, NextRowFacts
<1>5. PICK T : T = {NextRow(p) : p \in S}
  OBVIOUS
<1>6. T \subseteq Nat /\ T # {}
  BY <1>1, <1>4, <1>5
<1>7. PICK x \in T : \A y \in T : ~(y < x)
  BY <1>6, LeastNumber
<1>8. PICK p \in S : x = NextRow(p)
  BY <1>5
<1>9. PICK q \in S : WaitsFor(q) = p
  BY <1>1
<1>10. NextRow(q) \in Claimed(resume[p])
  BY <1>1, <1>3, <1>4, <1>9 DEF LocksKnown
<1>11. NextRow(q) < NextRow(p)
  BY <1>3, <1>10, NextRowFacts
<1> QED BY <1>5, <1>7, <1>8, <1>11

\* What is stored of a response goes with it (delete_response, append_events of
\* postgres.rs), and a replay that ends cleanly has sent every event after its cursor
\* (serve_replay), whichever transactions race.
THEOREM RowsStaySound == RowsSpec => []RowsSound
<1>1. RowsInit => RowsInv
  BY RowsAssumption, RowsBegin
<1>2. RowsInv /\ [RowsNext]_rowVars => RowsInv'
  BY RowsStep
<1>3. RowsInv => RowsSound
  BY DEF RowsInv, ReplayKnown, RowsSound
<1> QED BY <1>1, <1>2, <1>3, PTL DEF RowsSpec

\* An approval admits one execution at most, of one turn whose whole batch was
\* claimed, and resume turns never wait for each other in a circle, in whatever order
\* their batches name the approvals (consume_approvals of postgres.rs), however
\* resumes, a DELETE and failures interleave.
THEOREM ConsentStaysSound == RowsSpec => []ConsentSound
<1>1. RowsInit => RowsInv
  BY RowsAssumption, RowsBegin
<1>2. RowsInv /\ [RowsNext]_rowVars => RowsInv'
  BY RowsStep
<1>3. RowsInv => ConsentSound
  BY InvConsent, InvDeadlock DEF ConsentSound
<1> QED BY <1>1, <1>2, <1>3, PTL DEF RowsSpec

=============================================================================
