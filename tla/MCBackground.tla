---------------------------- MODULE MCBackground ----------------------------
(* What must go on behind the requests, side by side: the reload of stores   *)
(* and pipelines (StoreReload), the provisioning of a store (BackendCache),  *)
(* the cleanup of the key table (KeyCleanup) and the worker that ends        *)
(* settlements (ValkeyWindow).  They share no variable here, and a behaviour *)
(* is one of the four.                                                       *)
(*                                                                           *)
(* Two reloads of two listeners, with one request; two callers provision,    *)
(* one of two reference lists each; one of four keys has steady traffic and  *)
(* comes first, and a scan meets two entries of a table of three; one worker *)
(* serves two requests.                                                      *)
EXTENDS StoreReload, TLC

CONSTANTS l1, l2, l3, k1, k2, k3, k4, n1, n2, p1, p2, g1, r1, r2

\* Both listeners on one pool; one moves to another pool, the other loses its
\* store; a bound listener is gone and a new one is not bound; no stores.
Shared == l1 :> k1 @@ l2 :> k1
Moved == l1 :> k2 @@ l2 :> NoStore
Renamed == l1 :> k1 @@ l3 :> k2
Stateless == l1 :> NoStore @@ l2 :> NoStore

TwoListeners == {Shared, Moved, Renamed, Stateless}

\* One reference, and a second one that cannot be resolved.
OneOrBroken == {<<[name |-> n1, key |-> k1]>>,
                <<[name |-> n1, key |-> k1], [name |-> n2, key |-> Broken]>>}

VARIABLES part,
          entries, initializers, waves, call, registry, pools,
          table, resv, used,
          now, usage, wresv, wactive, retained, seq, req, queue, worker, wire,
          charge, outcome

Cache == INSTANCE BackendCache WITH
    backends <- pools,
    Callers <- {p1, p2}, Keys <- {k1}, Names <- {n1, n2}, Invalid <- Broken,
    Plans <- OneOrBroken, MaxAttempts <- 1, MaxBuilds <- 2

Cleanup == INSTANCE KeyCleanup WITH
    Order <- <<k1, k2, k3, k4>>, Steady <- {k1},
    MaxKeys <- 3, MaxActive <- 3, ScanLimit <- 2

Window == INSTANCE ValkeyWindow WITH
    resv <- wresv, active <- wactive,
    Gateways <- {g1}, Requests <- {r1, r2}, Home <- r1 :> g1 @@ r2 :> g1,
    Keys <- {k1}, Estimates <- {1}, Actuals <- {1}, Unknown <- -1,
    Capacity <- 3, Window <- 1, Width <- 1, Timeout <- 1,
    MaxKeys <- 1, MaxActive <- 2, QueueLimit <- 1, MaxTime <- 1

cacheVars == <<entries, initializers, waves, call, registry, pools>>
cleanupVars == <<table, resv, used>>
windowVars == <<now, usage, wresv, wactive, retained, seq, req, queue, worker, wire,
                charge, outcome>>
allVars == <<part, vars, cacheVars, cleanupVars, windowVars>>

\* The part that runs is chosen once; the others stay as they began.
MCInit == /\ part \in {"reload", "provision", "cleanup", "window"}
          /\ Init /\ Cache!Init /\ Cleanup!Init /\ Window!Init

InReload(A) == part = "reload" /\ A
               /\ UNCHANGED <<part, cacheVars, cleanupVars, windowVars>>
InCache(A) == part = "provision" /\ A
              /\ UNCHANGED <<part, vars, cleanupVars, windowVars>>
InCleanup(A) == part = "cleanup" /\ A
                /\ UNCHANGED <<part, vars, cacheVars, windowVars>>
InWindow(A) == part = "window" /\ A
               /\ UNCHANGED <<part, vars, cacheVars, cleanupVars>>

\* Reloads, callers and the requests of the window may end; the other parts must
\* always be able to go on.
MCNext == \/ InReload(Next)
          \/ InCache(Cache!Next)
          \/ InCleanup(Cleanup!Next)
          \/ InWindow(Window!Next)
          \/ part \in {"reload", "provision", "window"} /\ UNCHANGED allVars

\* The fairness of each part.
MCSpec ==
    /\ MCInit /\ [][MCNext]_allVars
    /\ WF_allVars(InReload(Notify)) /\ WF_allVars(InReload(Watcher))
    /\ WF_allVars(InReload(Service)) /\ WF_allVars(InReload(Background))
    /\ \A r \in Requests : WF_allVars(InReload(RequestEnd(r)))
    /\ \A p \in {p1, p2} :
          WF_allVars(InCache(Cache!Step(p))) /\ SF_allVars(InCache(Cache!Lock(p)))
    /\ WF_allVars(InCleanup(Cleanup!Request(k1))) /\ WF_allVars(InCleanup(Cleanup!Respond(k1)))
    /\ WF_allVars(InWindow(Window!WorkerStep(g1)))

\* Every provisioning of a store ends, with a lease or an error, or cancelled.
ProvisionEnds == Cache!ProvisionEnds

\* While there is traffic, idle keys and orphaned reservations go.
CleanupReclaims == Cleanup!CleanupReclaims

\* Every queued settlement is reported, abandoned or lost with its gateway.
SettlementEnds == Window!SettlementEnds
=============================================================================
