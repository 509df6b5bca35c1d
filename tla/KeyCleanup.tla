----------------------------- MODULE KeyCleanup -----------------------------
(***************************************************************************)
(* How the token_rate_limit filter keeps the table of budget keys of the   *)
(* in-process ledgers in bounds.  There is no sweeper: every request that  *)
(* matches a rule first cleans up the entries it meets in a bounded scan   *)
(* of the table, reaping orphaned reservations and dropping idle keys, and *)
(* then reserves.  A DashMap is iterated in an order that does not depend  *)
(* on use, and every scan starts at its beginning.                         *)
(*                                                                         *)
(* A key has at most one exchange under way.  What the ledgers keep is     *)
(* reduced to whether the key has a reservation, open or timed out, and    *)
(* whether it has usage in its window (a bucket that is not full).  Time   *)
(* is the order of the events.                                             *)
(***************************************************************************)
EXTENDS Naturals, Sequences, FiniteSets, SequencesExt

CONSTANTS
    Order,         \* the keys, in the iteration order of the table
    Steady,        \* keys with steady traffic: their usage never runs out
    MaxKeys, MaxActive,
    ScanLimit      \* CLEANUP_SCAN_LIMIT

AllKeys == ToSet(Order)

VARIABLES
    table,     \* the keys that have an entry
    resv,      \* resv[k]: "none", "open" or "orphan" (timed out, not reaped)
    used       \* keys with usage in their window

vars == <<table, resv, used>>

Init == table = {} /\ resv = [k \in AllKeys |-> "none"] /\ used = {}

\* Defect: the scan ends at the first entry that is still in use.
ScannedToFirstBusy ==
    LET entries == SelectSeq(Order, LAMBDA k : k \in table)
        busy(n) == resv[entries[n]] = "open" \/ entries[n] \in used
    IN  {entries[n] : n \in {m \in 1..Len(entries) : \A i \in 1..m : ~busy(i)}}

\* The first entries of the table in iteration order.
Scanned ==
    LET entries == SelectSeq(Order, LAMBDA k : k \in table)
    IN  {entries[n] : n \in 1..(IF Len(entries) < ScanLimit THEN Len(entries) ELSE ScanLimit)}

\* reap: a reservation that timed out is charged at its estimate.
Orphans(S) == {k \in S : resv[k] = "orphan"}

\* is_empty: neither usage nor a reservation.
Idle(k) == resv[k] = "none" /\ k \notin used

Reserves(k, kept) == k \in kept \/ Cardinality(kept) < MaxKeys

\* on_request: cleanup of the scanned entries, then reserve for key k, which
\* reaps its own entry too.  A new key needs room in the table; the budget may
\* be exhausted, which leaves the entry in place.
Request(k) ==
    LET kept == table \ {j \in Scanned : Idle(j)}
        reaped == Orphans(Scanned \cup {k})
        active == Cardinality({j \in AllKeys : resv[j] # "none"} \ reaped)
        clean == [j \in AllKeys |-> IF j \in reaped THEN "none" ELSE resv[j]]
    IN  /\ resv[k] # "open"
        /\ used' = used \cup reaped
        /\ IF Reserves(k, kept)
           THEN /\ table' = kept \cup {k}
                /\ \/ active < MaxActive /\ resv' = [clean EXCEPT ![k] = "open"]
                   \/ resv' = clean
           ELSE /\ table' = kept
                /\ resv' = [j \in AllKeys |-> IF j \in Orphans(Scanned) THEN "none" ELSE resv[j]]

\* on_response_body at the end of the stream settles the reservation.
Respond(k) ==
    /\ resv[k] = "open"
    /\ resv' = [resv EXCEPT ![k] = "none"] /\ used' = used \cup {k}
    /\ UNCHANGED table

\* The exchange is cut off and its reservation times out.
Orphan(k) ==
    /\ k \notin Steady /\ resv[k] = "open"
    /\ resv' = [resv EXCEPT ![k] = "orphan"]
    /\ UNCHANGED <<table, used>>

\* The usage of the key leaves its window, or its bucket is full again.
UsageLeaves(k) ==
    /\ k \notin Steady /\ k \in used
    /\ used' = used \ {k}
    /\ UNCHANGED <<table, resv>>

Next == \E k \in AllKeys : Request(k) \/ Respond(k) \/ Orphan(k) \/ UsageLeaves(k)

\* Keys with steady traffic send requests for ever, and these are answered.
Spec == Init /\ [][Next]_vars
        /\ \A k \in Steady : WF_vars(Request(k)) /\ WF_vars(Respond(k))

-----------------------------------------------------------------------------
\* As many entries as one scan meets come before key k.
Beyond(k) ==
    \E i \in 1..Len(Order) :
        /\ Order[i] = k
        /\ Cardinality({j \in 1..(i - 1) : Order[j] \in table}) >= ScanLimit

\* The key has a slot of the table, or a reservation counts, to no purpose.
Wasted(k) == resv[k] = "orphan" \/ (k \in table /\ Idle(k))

\* mod.rs says of CLEANUP_SCAN_LIMIT that the scan includes keys still in use
\* "so a busy first entry cannot pin the table at max_keys": as long as there
\* is traffic, an idle key keeps its slot, and a reservation whose exchange was
\* cut off keeps counting against max_active_reservations, only if again and
\* again as many entries as one scan meets come before the key (busy ones, or
\* idle ones that denied requests put back).
CleanupReclaims == \A k \in AllKeys : []<>(~Wasted(k) \/ Beyond(k))
=============================================================================
