-------------------------- MODULE ReservationBudget --------------------------
(***************************************************************************)
(* What a sliding-window rule promises its callers, without threads, maps  *)
(* or locks: admissions are atomic across the budgets of a key, each is    *)
(* settled exactly once, by a reconcile or by its timeout, and a settled   *)
(* admission counts until it is window_ms old.  Ledger is shown to         *)
(* implement this.                                                         *)
(***************************************************************************)
EXTENDS Integers, FiniteSets, FiniteSetsExt, Functions

CONSTANTS Keys, Estimates, Actuals, Budgets, ReservationTimeout, MaxActive

VARIABLES
  clock,
  charge    \* id -> [key, at, estimate, tokens, settled]

\* What counts against k in the window that ends now.
Counted(k, window) ==
  {id \in DOMAIN charge : /\ charge[id].key = k
                          /\ charge[id].settled => clock - charge[id].at < window}

Charged(k, window) ==
  SumFunctionOnSet([id \in DOMAIN charge |-> charge[id].tokens], Counted(k, window))

Active == {id \in DOMAIN charge : ~charge[id].settled}

Init ==
  /\ clock = 0
  /\ charge = [id \in {} |-> 0]

\* A caller's clock reading may be old, never from the future.
Admit(k, estimate, at) ==
  LET new == Cardinality(DOMAIN charge) + 1 IN
  /\ \A b \in Budgets : Charged(k, b.window_ms) + estimate <= b.capacity
  /\ Cardinality(Active) < MaxActive
  /\ charge' = [id \in DOMAIN charge \cup {new} |->
                  IF id = new
                  THEN [key |-> k, at |-> at, estimate |-> estimate,
                        tokens |-> estimate, settled |-> FALSE]
                  ELSE charge[id]]
  /\ UNCHANGED clock

\* At most one reservation is settled at a reported cost; with it go some that
\* have timed out, each at its estimate.
Settle(reported, tokens, timedout) ==
  /\ reported \cup timedout # {}
  /\ reported \cup timedout \subseteq Active
  /\ \A id \in timedout : clock - charge[id].at >= ReservationTimeout
  /\ charge' = [id \in DOMAIN charge |->
                  IF id \in reported \cup timedout
                  THEN [charge[id] EXCEPT
                          !.settled = TRUE,
                          !.tokens = IF id \in reported THEN tokens ELSE @]
                  ELSE charge[id]]
  /\ UNCHANGED clock

Tick ==
  /\ clock' = clock + 1
  /\ UNCHANGED charge

Next ==
  \/ Tick
  \/ \E k \in Keys, e \in Estimates \ {0}, at \in 0..clock : Admit(k, e, at)
  \/ \E timedout \in SUBSET Active :
       \/ Settle({}, 0, timedout)
       \/ \E id \in Active \ timedout :
            \E a \in Actuals \cup {charge[id].estimate} : Settle({id}, a, timedout)

Spec == Init /\ [][Next]_<<clock, charge>>

\* What was admitted inside one window never exceeds its capacity; only what
\* responses cost above their estimate may come on top.
NeverOversold ==
  \A k \in Keys, b \in Budgets :
    SumFunctionOnSet([id \in DOMAIN charge |-> Min({charge[id].estimate, charge[id].tokens})],
                     Counted(k, b.window_ms)) <= b.capacity

=============================================================================
