--------------------------- MODULE TransactionPool ---------------------------
(***************************************************************************)
(* The dedicated connections for WATCH transactions: a semaphore bounds    *)
(* those checked out, a short list keeps idle ones for reuse.  WATCH is    *)
(* state of the connection, so one that still watches, or that failed,     *)
(* must not be handed to another transaction.  The server may restart at   *)
(* any time, which kills every open connection, and a request may be       *)
(* cancelled at any await.                                                 *)
(***************************************************************************)
EXTENDS Naturals, Sequences, FiniteSets, SequencesExt

CONSTANTS
    PoolUsers,        \* tasks that run transactions
    Connections,      \* connections that can ever be opened (a bound)
    MaxIdle,          \* MAX_IDLE_TRANSACTION_CONNECTIONS
    MaxOut            \* MAX_TRANSACTION_CONNECTIONS

ASSUME ConnectionsAssumption == MaxIdle \in Nat /\ MaxOut \in Nat

VARIABLES
    permits,          \* free permits of the semaphore
    idle,             \* idle connections, the last returned one on top
    dead, watching,   \* connections the server dropped; connections with a WATCH
    opened,           \* connections opened so far
    user,             \* user[u]: where task u is, with its connection
    failures          \* history: requests each connection has failed

poolVars == <<permits, idle, dead, watching, opened, user, failures>>

OutOfPool == [at |-> "out"]

PoolInit ==
    /\ permits = MaxOut /\ idle = <<>>
    /\ dead = {} /\ watching = {} /\ opened = {}
    /\ user = [u \in PoolUsers |-> OutOfPool]
    /\ failures = [c \in Connections |-> 0]

AtStage(u, l) == user[u].at = l
Holding(u, l, c) == user' = [user EXCEPT ![u] = [at |-> l, conn |-> c]]

\* The permit, or a timeout, which leaves the task where it was.
Acquire(u) ==
    /\ AtStage(u, "out") /\ permits > 0
    /\ permits' = permits - 1
    /\ user' = [user EXCEPT ![u] = [at |-> "permit"]]
    /\ UNCHANGED <<idle, dead, watching, opened, failures>>

\* The connection returned last is taken out of the list.
CheckOutIdle(u) ==
    /\ AtStage(u, "permit") /\ idle # <<>>
    /\ Holding(u, "conn", Last(idle))
    /\ idle' = Front(idle)
    /\ UNCHANGED <<permits, dead, watching, opened, failures>>

CheckOutNew(u) ==
    /\ AtStage(u, "permit") /\ idle = <<>>
    /\ \E c \in Connections \ opened : Holding(u, "conn", c) /\ opened' = opened \cup {c}
    /\ UNCHANGED <<permits, idle, dead, watching, failures>>

\* WATCH and the reads of an attempt.
Watch(u) ==
    /\ AtStage(u, "conn") /\ user[u].conn \notin dead
    /\ watching' = watching \cup {user[u].conn}
    /\ Holding(u, "watched", user[u].conn)
    /\ UNCHANGED <<permits, idle, dead, opened, failures>>

\* Defect: an attempt that needs no EXEC leaves its WATCH in place.
EndWatchForgotten(c) == watching

\* EXEC, run or aborted, and UNWATCH both end the connection's WATCH.
EndWatch(c) == watching \ {c}

Complete(u) ==
    /\ AtStage(u, "watched") /\ user[u].conn \notin dead
    /\ watching' = EndWatch(user[u].conn)
    /\ Holding(u, "done", user[u].conn)
    /\ UNCHANGED <<permits, idle, dead, opened, failures>>

\* finish: kept for reuse while there is room, dropped otherwise.
FinishWith(u) ==
    /\ AtStage(u, "done")
    /\ idle' = IF Len(idle) < MaxIdle THEN Append(idle, user[u].conn) ELSE idle
    /\ permits' = permits + 1
    /\ user' = [user EXCEPT ![u] = OutOfPool]
    /\ UNCHANGED <<dead, watching, opened, failures>>

\* The permit goes with whatever held it.
Released(u) == permits + 1

\* A failed connection is dropped with the guard that holds it.
AfterFailure(u) == idle

\* A command fails, on a dead connection or for want of a reply in time.
Fails(u) ==
    /\ user[u].at \in {"conn", "watched"}
    /\ failures' = [failures EXCEPT ![user[u].conn] = @ + 1]
    /\ idle' = AfterFailure(u)
    /\ permits' = permits + 1
    /\ user' = [user EXCEPT ![u] = OutOfPool]
    /\ UNCHANGED <<dead, watching, opened>>

\* The task is dropped at an await, or no connection could be opened.
Abandon(u) ==
    /\ user[u].at \in {"permit", "conn", "watched", "done"}
    /\ permits' = Released(u)
    /\ user' = [user EXCEPT ![u] = OutOfPool]
    /\ UNCHANGED <<idle, dead, watching, opened, failures>>

\* The server restarts; its clients find out when they next use a connection.
Restart ==
    /\ dead # opened
    /\ dead' = opened /\ watching' = {}
    /\ UNCHANGED <<permits, idle, opened, user, failures>>

PoolStep(u) == \/ Acquire(u) \/ CheckOutIdle(u) \/ CheckOutNew(u) \/ Watch(u) \/ Complete(u)
               \/ FinishWith(u) \/ Fails(u) \/ Abandon(u)

PoolNext == (\E u \in PoolUsers : PoolStep(u)) \/ Restart

PoolSpec == PoolInit /\ [][PoolNext]_poolVars

-----------------------------------------------------------------------------
Holders == {u \in PoolUsers : user[u].at # "out"}
Held(u) == user[u].at \in {"conn", "watched", "done"}

\* No connection is used by two tasks, or is idle and used, or idle twice.
ConnectionsExclusive ==
    /\ \A u, v \in PoolUsers : Held(u) /\ Held(v) /\ user[u].conn = user[v].conn => u = v
    /\ \A u \in PoolUsers : Held(u) => user[u].conn \notin ToSet(idle)
    /\ Cardinality(ToSet(idle)) = Len(idle) /\ Len(idle) <= MaxIdle

\* "a connection with a dangling WATCH or a mid-flight error never comes back":
\* whoever checks a connection out finds no WATCH of an earlier transaction.
NoDanglingWatch ==
    /\ ToSet(idle) \cap watching = {}
    /\ \A u \in PoolUsers : AtStage(u, "conn") => user[u].conn \notin watching

\* Permits are never lost: whatever fails or is cancelled, they come back.
PermitsConserved == permits + Cardinality(Holders) = MaxOut

\* "every idle connection is one potential failed request after an outage",
\* and no more than one: a connection fails at most one request.
OneFailureEach == \A c \in Connections : failures[c] <= 1

\* A connection is never shared and never handed on with a WATCH, no permit is
\* lost, and an outage costs each connection one request at most.
PoolSound == ConnectionsExclusive /\ NoDanglingWatch /\ PermitsConserved /\ OneFailureEach

=============================================================================
