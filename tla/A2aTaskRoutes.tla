---------------------------- MODULE A2aTaskRoutes ----------------------------
(***************************************************************************)
(* Task-ownership routing of the A2A filter (filters/src/agentic/a2a): the   *)
(* in-process store of task and context routes, the lookups of requests and  *)
(* the captures of responses that write it, by several exchanges at once.    *)
(* A lookup that finds an expired route drops the read lock and takes the    *)
(* write lock in a second step; a capture computes the expiry before it      *)
(* waits for the lock, and writes the task map and the context map in two    *)
(* critical sections.  The backends are external: a task belongs to the      *)
(* cluster that created it, and only that cluster knows about it.            *)
(***************************************************************************)
EXTENDS Naturals, FiniteSets

CONSTANTS
    Exchanges, Tasks, Contexts, Clusters,
    Ttl, TerminalTtl,   \* ttl_seconds, terminal_ttl_seconds (0: remove)
    MaxRoutes,          \* MAX_TASK_ROUTES and MAX_CONTEXT_ROUTES
    EvictionInterval,   \* EVICTION_INTERVAL
    MaxTime,            \* bound: the clock
    Methods,            \* the methods clients use in this instance
    None

(* TaskRoute and ContextRoute: the cluster that owns the id, and the expiry. *)
Routes == [cluster : Clusters, expires : Nat]

ASSUME RoutesAssumption ==
    /\ Ttl \in Nat \ {0} /\ TerminalTtl \in Nat /\ MaxRoutes \in Nat \ {0}
    /\ EvictionInterval \in Nat /\ MaxTime \in Nat
    /\ None \notin Tasks \cup Contexts \cup Clusters
    /\ Tasks \cap Contexts = {}     \* the two maps have keys of their own
    /\ None \notin Routes
    /\ Methods \subseteq {"SendMessage", "SendStreamingMessage",
                          "SubscribeToTask", "CancelTask"}

VARIABLES
    now,
    routes,    \* routes[id]: the route of a task or context id, or None
    swept,     \* swept[m]: when map m ("task", "context") was last swept
    ex,        \* ex[e]: the exchange e runs, or None
    owner,     \* owner[t]: the cluster that created task t, or None
    finished   \* the tasks that reached a terminal state

vars == <<now, routes, swept, ex, owner, finished>>

Ids == Tasks \cup Contexts

MapOf(id) == IF id \in Tasks THEN "task" ELSE "context"

InMap(m) == {id \in Ids : MapOf(id) = m /\ routes[id] # None}

task_routable(m) == m \in {"SubscribeToTask", "CancelTask"}

sse_capable(m) == m \in {"SendStreamingMessage", "SubscribeToTask"}

Init ==
    /\ now = 0 /\ finished = {}
    /\ routes = [id \in Ids |-> None]
    /\ swept = [m \in {"task", "context"} |-> 0]
    /\ ex = [e \in Exchanges |-> None]
    /\ owner = [t \in Tasks |-> None]

At(e, pcs) == ex[e] # None /\ ex[e].pc \in pcs

Move(e, r) == ex' = [ex EXCEPT ![e] = r]

-----------------------------------------------------------------------------
(* Request side.  A task method consults the task map only, a message method *)
(* the context map only; the other id of the request plays no part.          *)
\* Defect: a task without a route falls through to its context.
LookupKeyFallThrough(m, t, c) ==
    IF task_routable(m) /\ routes[t] # None THEN t ELSE c
LookupKey(m, t, c) == IF task_routable(m) THEN t ELSE c

Fresh(id) == routes[id] # None /\ now < routes[id].expires

(* on_request_body: the read-locked half of the lookup. *)
Lookup(e, m, t, c) ==
    LET key == LookupKey(m, t, c)
        base == [pc |-> "forward", method |-> m, task |-> t, context |-> c,
                 cluster |-> None, event |-> None, expires |-> 0]
    IN  /\ ex[e] = None
        /\ Move(e, IF key = None \/ routes[key] = None THEN base
                   ELSE IF Fresh(key)
                     THEN [base EXCEPT !.cluster = routes[key].cluster]
                   ELSE [base EXCEPT !.pc = "purge"])
        /\ UNCHANGED <<now, routes, swept, owner, finished>>

(* The write-locked half: the route may have been refreshed in between. *)
\* Defect: the route is removed without a second look.
PurgedBlind(id) == [routes EXCEPT ![id] = None]
Purged(id) == IF Fresh(id) THEN routes ELSE [routes EXCEPT ![id] = None]

Purge(e) ==
    /\ At(e, {"purge"})
    /\ routes' = Purged(LookupKey(ex[e].method, ex[e].task, ex[e].context))
    /\ Move(e, [ex[e] EXCEPT !.pc = "forward"])
    /\ UNCHANGED <<now, swept, owner, finished>>

(* External: the router obeys the route header, or picks a cluster itself. *)
Sent(e, cl) == At(e, {"forward"}) /\ ex[e].cluster \in {None, cl}

(* External: a cluster that does not know the task answers with an error. *)
ForwardTask(e, cl) ==
    /\ Sent(e, cl) /\ task_routable(ex[e].method)
    /\ Move(e, IF owner[ex[e].task] # cl THEN None
               ELSE [ex[e] EXCEPT !.pc = "reply", !.cluster = cl])
    /\ UNCHANGED <<now, routes, swept, owner, finished>>

(* External: a message creates a task, in the request's context or a new one.*)
ForwardMessage(e, cl, t, c) ==
    /\ Sent(e, cl) /\ ~task_routable(ex[e].method)
    /\ owner[t] = None /\ ex[e].context \in {None, c}
    /\ owner' = [owner EXCEPT ![t] = cl]
    /\ Move(e, [ex[e] EXCEPT !.pc = "reply", !.cluster = cl, !.task = t,
                             !.context = c])
    /\ UNCHANGED <<now, routes, swept, finished>>

(* External: a backend completes one of its tasks. *)
CompleteTask(t) ==
    /\ owner[t] # None /\ t \notin finished
    /\ finished' = finished \cup {t}
    /\ UNCHANGED <<now, routes, swept, ex, owner>>

(***************************************************************************)
(* on_response captures SendMessage replies and the event streams of the two *)
(* streaming methods; a CancelTask reply passes through unread.              *)
(***************************************************************************)
Cancel(e) ==
    LET t == ex[e].task
    IN  /\ At(e, {"reply"}) /\ ex[e].method = "CancelTask"
        /\ finished' = finished \cup {t}
        /\ Move(e, None)
        /\ UNCHANGED <<now, routes, swept, owner>>

(* A reply or a stream event that names the task and its state is captured:  *)
(* extract_task_route, route_ttl and the expiry, computed before the lock.   *)
Capture(e) ==
    /\ At(e, {"reply"}) /\ ex[e].method # "CancelTask"
    /\ LET over == ex[e].task \in finished
       IN  Move(e, [ex[e] EXCEPT
                      !.pc = "store",
                      !.event = IF over THEN "terminal" ELSE "working",
                      !.expires = now + IF over THEN TerminalTtl ELSE Ttl])
    /\ UNCHANGED <<now, routes, swept, owner, finished>>

(* The body ends, is too large, malformed or cut off: nothing is captured. *)
EndReply(e) ==
    /\ At(e, {"reply"}) /\ ex[e].method # "CancelTask"
    /\ Move(e, None)
    /\ UNCHANGED <<now, routes, swept, owner, finished>>

(***************************************************************************)
(* put and put_context: sweep the map when the interval has passed, refuse a *)
(* new key at capacity, write.                                               *)
(***************************************************************************)
SweepDue(m) == now - swept[m] >= EvictionInterval

Swept(m) ==
    IF SweepDue(m)
      THEN [id \in Ids |-> IF MapOf(id) = m /\ ~Fresh(id) THEN None
                           ELSE routes[id]]
      ELSE routes

(* An entry is replaced in place; a new one needs a free slot of its map. *)
Room(m, id, rs) ==
    rs[id] # None
    \/ Cardinality({k \in Ids : MapOf(k) = m /\ rs[k] # None}) < MaxRoutes

(* put: sweep if it is due, then write if there is room. *)
Written(m, id, r) ==
    IF Room(m, id, Swept(m)) THEN [Swept(m) EXCEPT ![id] = r] ELSE Swept(m)

Put(m, id, cluster, expires) ==
    /\ routes' = Written(m, id, [cluster |-> cluster, expires |-> expires])
    /\ swept' = IF SweepDue(m) THEN [swept EXCEPT ![m] = now] ELSE swept

(* store_task_route, first the task: removed when terminal routes are not kept*)
Removes(e) == ex[e].event = "terminal" /\ TerminalTtl = 0

StoreTask(e) ==
    LET t == ex[e].task
    IN  /\ At(e, {"store"})
        /\ \/ /\ Removes(e)
              /\ routes' = [routes EXCEPT ![t] = None] /\ UNCHANGED swept
           \/ /\ ~Removes(e)
              /\ Put("task", t, ex[e].cluster, ex[e].expires)
        /\ Move(e, [ex[e] EXCEPT !.pc = "context", !.expires = now + Ttl])
        /\ UNCHANGED <<now, owner, finished>>

(* ... then the context, always with the normal TTL.  A stream goes on. *)
StoreContext(e) ==
    /\ At(e, {"context"})
    /\ IF ex[e].context = None THEN UNCHANGED <<routes, swept>>
       ELSE Put("context", ex[e].context, ex[e].cluster, ex[e].expires)
    /\ Move(e, IF sse_capable(ex[e].method)
                 THEN [ex[e] EXCEPT !.pc = "reply", !.event = None,
                                    !.expires = 0]
                 ELSE None)
    /\ UNCHANGED <<now, owner, finished>>

Tick ==
    /\ now < MaxTime
    /\ now' = now + 1
    /\ UNCHANGED <<routes, swept, ex, owner, finished>>

-----------------------------------------------------------------------------
Next ==
    \/ Tick
    \/ \E t \in Tasks : CompleteTask(t)
    \/ \E e \in Exchanges :
        \/ \E m \in Methods, t \in Tasks \cup {None}, c \in Contexts \cup {None} :
              /\ task_routable(m) <=> t # None
              /\ Lookup(e, m, t, c)
        \/ Purge(e)
        \/ \E cl \in Clusters :
              \/ ForwardTask(e, cl)
              \/ \E t \in Tasks, c \in Contexts : ForwardMessage(e, cl, t, c)
        \/ Cancel(e) \/ Capture(e) \/ EndReply(e)
        \/ StoreTask(e) \/ StoreContext(e)

Spec == Init /\ [][Next]_vars

-----------------------------------------------------------------------------
(***************************************************************************)
(* A task method is never sent to a cluster that does not own the task: the  *)
(* task's route, when a lookup or a capture in another exchange's shadow     *)
(* leaves one, names the cluster that created it.  ("Task-owner routing      *)
(* sends ... methods back to the backend that created the task", a2a.md.)    *)
(***************************************************************************)
RoutedToOwner ==
    /\ \A t \in Tasks : routes[t] # None => routes[t].cluster = owner[t]
    /\ \A e \in Exchanges :
          At(e, {"forward"}) /\ task_routable(ex[e].method) =>
              ex[e].cluster \in {None, owner[ex[e].task]}

(* The map is never larger than its limit, whatever the mix of new routes,   *)
(* refreshed ones and expired ones that are still there.                     *)
WithinCapacity == \A m \in {"task", "context"} : Cardinality(InMap(m)) <= MaxRoutes

(***************************************************************************)
(* A route that has not expired leaves the store only because its task ended *)
(* and terminal routes are not kept: the lazy removal of get_by_task_id,     *)
(* decided under the read lock, never removes a route refreshed since.       *)
(***************************************************************************)
LiveRouteKept ==
    [][\A id \in Ids : Fresh(id) /\ routes'[id] = None =>
          TerminalTtl = 0 /\ id \in finished]_vars

(***************************************************************************)
(* Expired routes do not keep a full map closed: a route is refused only if  *)
(* the map is full of live routes or was swept less than an interval ago.    *)
(***************************************************************************)
StaleRoutesYield ==
    [][\A e \in Exchanges :
          LET t == ex[e].task
              fresh == {k \in Tasks : Fresh(k)}
          IN  At(e, {"store"}) /\ ~Removes(e) /\ ex'[e] # ex[e]
                 /\ routes'[t] = None =>
                    \/ ~SweepDue("task")
                    \/ Cardinality(fresh) >= MaxRoutes]_vars

\* A task method goes to the cluster that owns the task, and the maps keep their
\* limits.
RoutesSound == RoutedToOwner /\ WithinCapacity

\* A live route is never removed, and expired ones never keep a new one out.
RoutesTurnOver == LiveRouteKept /\ StaleRoutesYield

==============================================================================
