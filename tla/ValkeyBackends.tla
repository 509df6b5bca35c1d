--------------------------- MODULE ValkeyBackends ---------------------------
(* The two backends of the quota in Valkey, which share a server and nothing *)
(* else: a gateway is configured with one of them for each rule.             *)
EXTENDS ValkeyWindow, ValkeyBucket

\* Nothing that comes late does harm: what a worker reported settled stays as it
\* was, a reservation of the bucket is settled once, whatever was retried or ran
\* after its client gave up, and only a full bucket is dropped by its TTL.
LateIsHarmless == ReportedIsFinal /\ SettledOnce /\ ExpiryHarmless
=============================================================================
