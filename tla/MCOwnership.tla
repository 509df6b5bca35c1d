---------------------------- MODULE MCOwnership -----------------------------
(* Who owns shared state, side by side: pools of the backend cache are held  *)
(* by leases (BackendCache), a namespace of Valkey by the gateways of one    *)
(* configuration (AccountingMarker).  They share no variable, and a          *)
(* behaviour is one of three scenes.  "one": three callers race for one key. *)
(* "two": two callers provision two references each and roll back.           *)
(* "namespace": three gateways, two of one configuration, and legacy writers *)
(* claim one namespace.                                                      *)
EXTENDS BackendCache, AccountingMarker, TLC

CONSTANTS p1, p2, p3, k1, k2, n1, n2, g1, g2, g3, fpA, fpB

\* One reference, and one that cannot be resolved.
OneStore == {<<[name |-> n1, key |-> k1]>>, <<[name |-> n1, key |-> Invalid]>>}

\* One key under two names, and two keys whose names collide: an error after both
\* were provisioned.
TwoStores ==
  {<<[name |-> n1, key |-> k1], [name |-> n2, key |-> k1]>>,
   <<[name |-> n1, key |-> k2], [name |-> n1, key |-> k1]>>}

AllStores == OneStore \cup TwoStores

MCConfig == g1 :> fpA @@ g2 :> fpA @@ g3 :> fpB

VARIABLE scene

\* The scene is chosen once; what it does not use stays as it began.
MCInit == /\ scene \in {"one", "two", "namespace"}
          /\ Init /\ MarkerInit
          /\ sequence => scene = "namespace"

\* The reference lists that callers begin with, and how many callers are busy.
Asks(S, n) ==
  /\ \A p \in Callers : call[p].pc = "idle" /\ call'[p].pc # "idle" => call'[p].refs \in S
  /\ Cardinality({p \in Callers : call'[p].pc # "idle"}) <= n

\* Callers may end; the claims of a namespace must always be able to go on.
MCNext == /\ UNCHANGED scene
          /\ \/ scene = "one" /\ Next /\ Asks(OneStore, 3) /\ UNCHANGED markerVars
             \/ scene = "two" /\ Next /\ Asks(TwoStores, 2) /\ Len(backends') <= 2
                /\ UNCHANGED markerVars
             \/ scene = "namespace" /\ MarkerNext /\ UNCHANGED vars
             \/ scene # "namespace" /\ UNCHANGED <<vars, markerVars>>
MCSpec == MCInit /\ [][MCNext]_<<scene, vars, markerVars>>

\* Callers are interchangeable.
Symmetry == Permutations(Callers)
=============================================================================
