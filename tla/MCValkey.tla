------------------------------ MODULE MCValkey ------------------------------
(* The two quotas kept in Valkey and the pool their transactions take their  *)
(* connections from, side by side: they share no variable here, and a        *)
(* behaviour is one of four scenes.  "settle": the window; one request on    *)
(* each of two gateways and one key, replies are lost, transactions run      *)
(* late, gateways crash.  "race": the window; three admissions on two keys,  *)
(* nothing settles.  "bucket": two requests, of different gateways, on two   *)
(* keys.  "pool": three tasks, two permits, two idle slots, three            *)
(* connections.                                                              *)
EXTENDS ValkeyBackends, TransactionPool, TLC

CONSTANTS g1, g2, g3, r1, r2, r3, k1, k2, k3, k4, u1, u2, u3, c1, c2, c3

NoUsage == -1
Homes == r1 :> g1 @@ r2 :> g2 @@ r3 :> g3

VARIABLE scene

\* The scene is chosen once; what it does not use stays as it began.
MCInit == scene \in {"settle", "race", "bucket", "pool"} /\ Init /\ TbInit /\ PoolInit

\* Two requests on one key, begun in time for their settlements to run.
Settle == Next /\ req'[r3] = Idle
          /\ \A r \in Requests : req'[r].pc = "read" => req'[r].key = k1 /\ req'[r].at <= Timeout

\* Admissions only, and not for long.
Race == /\ \/ \E r \in Requests : \/ Begin(r) \/ ReadWindow(r) \/ DrawId(r) \/ Commit(r)
                                  \/ RequestFails(r)
           \/ \E t \in wire : LateRun(t)
           \/ Tick
        /\ now' < MaxTime

\* Requests end; the pool must always be able to go on.
MCNext == /\ UNCHANGED scene
          /\ \/ scene = "settle" /\ Settle /\ UNCHANGED <<tbVars, poolVars>>
             \/ scene = "race" /\ Race /\ UNCHANGED <<tbVars, poolVars>>
             \/ scene = "bucket" /\ TbNext /\ UNCHANGED <<vars, poolVars>>
             \/ scene = "pool" /\ PoolNext /\ UNCHANGED <<vars, tbVars>>
             \/ scene # "pool" /\ UNCHANGED <<vars, tbVars, poolVars>>
MCSpec == MCInit /\ [][MCNext]_<<scene, vars, tbVars, poolVars>>

\* A denial's hint is the first delay that suffices (RetryHintExact), and while
\* nothing settles only a race passes the cap on keys (KeysPassedOnlyByRaces).
DenialsSound == /\ TypeOK /\ RetryHintExact
                /\ scene = "race" => KeysPassedOnlyByRaces

\* The gateways with their requests, the keys of the bucket and two of the pool's
\* users may change places, all at once.
Swap == g1 :> g2 @@ g2 :> g1 @@ r1 :> r2 @@ r2 :> r1
        @@ k3 :> k4 @@ k4 :> k3 @@ u1 :> u2 @@ u2 :> u1
Symmetry == {[v \in DOMAIN Swap |-> IF p THEN Swap[v] ELSE v] : p \in BOOLEAN}
=============================================================================
