----------------------------- MODULE BackendPool -----------------------------
(***************************************************************************)
(* What the process-wide cache of store backends promises the pipeline     *)
(* generations, without initializers, retries or refcounts: at most one    *)
(* pool serves a key at a time, its holders share it, and it is retired    *)
(* only after the last of them has let go.  BackendCache is shown to       *)
(* implement this, and StoreReload is built on it.                         *)
(***************************************************************************)
EXTENDS Integers, FiniteSets, Sequences

CONSTANTS Holders, Keys, None

VARIABLES
  current,    \* current[k]: the pool that serves k, or None
  holders,    \* holders[k]: who holds it
  backends    \* every pool ever built, <<[key, open], ...>>

poolVars == <<current, holders, backends>>

Init ==
  /\ current = [k \in Keys |-> None]
  /\ holders = [k \in Keys |-> {}]
  /\ backends = <<>>

\* A pool is built, but serves nobody yet.
Build(k) ==
  /\ backends' = Append(backends, [key |-> k, open |-> TRUE])
  /\ UNCHANGED <<current, holders>>

\* A built pool becomes the one that serves k.
Install(h, k, b) ==
  /\ current[k] = None
  /\ b \in DOMAIN backends
  /\ backends[b] = [key |-> k, open |-> TRUE]
  /\ current' = [current EXCEPT ![k] = b]
  /\ holders' = [holders EXCEPT ![k] = {h}]
  /\ UNCHANGED backends

\* h shares the pool that serves k.
Share(h, k) ==
  /\ current[k] # None
  /\ holders' = [holders EXCEPT ![k] = @ \cup {h}]
  /\ UNCHANGED <<current, backends>>

\* h lets go of k; the last holder takes the pool out of service.
Drop(h, k) ==
  /\ h \in holders[k]
  /\ holders' = [holders EXCEPT ![k] = @ \ {h}]
  /\ current' = [current EXCEPT ![k] = IF holders[k] = {h} THEN None ELSE @]
  /\ UNCHANGED backends

\* Only a pool that serves nobody is retired.
Retire(b) ==
  /\ b \in DOMAIN backends
  /\ \A k \in Keys : current[k] # b
  /\ backends' = [backends EXCEPT ![b].open = FALSE]
  /\ UNCHANGED <<current, holders>>

Next ==
  \/ \E k \in Keys : Build(k)
  \/ \E h \in Holders, k \in Keys, b \in DOMAIN backends : Install(h, k, b)
  \/ \E h \in Holders, k \in Keys : Share(h, k) \/ Drop(h, k)
  \/ \E b \in DOMAIN backends : Retire(b)

Spec == Init /\ [][Next]_poolVars

=============================================================================
