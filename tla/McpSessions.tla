----------------------------- MODULE McpSessions -----------------------------
(***************************************************************************)
(* The pool of initialized MCP sessions of one Responses request             *)
(* (apis/src/mcp_client/session_pool.rs), and the tool calls that check      *)
(* sessions out of it and in again (mcp_client/mod.rs).  The calls of a      *)
(* round share the request's task and interleave at its awaits, where the    *)
(* request may also be dropped.  A parked session has a timer task, on any   *)
(* thread, that ends its worker after the idle age; rejected sessions are    *)
(* closed by background tasks.                                               *)
(*                                                                           *)
(* A check-out reads the clock and then claims what it finds; a timer claims *)
(* the parked flag and then cancels the worker: two steps each.  Targets,    *)
(* headers, results and the classification of errors are left out.           *)
(***************************************************************************)
EXTENDS Naturals, FiniteSets

CONSTANTS
    Calls, Sessions,   \* numbered from 1, in the order of their use
    Keys, NoKey,
    Limits,            \* response limits a round may have
    MaxParallel,       \* max_parallel_calls
    MAX_TOTAL_IDLE, MAX_IDLE_AGE,
    MaxTime            \* bound on time

(* 0 stands for no session. *)
PoolConstants ==
    0 \notin Sessions /\ NoKey \notin Keys /\ MAX_TOTAL_IDLE \in Nat /\ MAX_IDLE_AGE \in Nat

ASSUME PoolAssumption == PoolConstants

VARIABLES
    now,
    request,   \* "live", "ended" or "cancelled"
    call,      \* call[c]: where it is, with which key, limit and session, and how
               \* often tools/call was sent
    session,   \* session[i]: its state, and how it was opened and parked
    pool,      \* pool[k]: the idle sessions of key k
    timers,    \* the timer tasks
    closing    \* sessions that background tasks close

sessionVars == <<now, request, call, session, pool, timers, closing>>

NewCall == [at |-> "none", key |-> NoKey, limit |-> 0, session |-> 0, read |-> 0,
            sent |-> 0]
NewSession == [state |-> "unused", alive |-> FALSE, key |-> NoKey, limit |-> 0,
               parkedAt |-> 0, parks |-> 0, parked |-> FALSE]

DoneCall == [NewCall EXCEPT !.at = "done"]
ClosedSession == [NewSession EXCEPT !.state = "closed"]

SessionsInit ==
    /\ now = 0 /\ request = "live" /\ timers = {} /\ closing = {}
    /\ call = [c \in Calls |-> NewCall] /\ session = [i \in Sessions |-> NewSession]
    /\ pool = [k \in Keys |-> {}]

Idle == UNION {pool[k] : k \in Keys}
\* The request's task is at c, and not inside another call's check-out.
At(c, where) ==
    /\ request = "live" /\ call[c].at = where
    /\ \A d \in Calls \ {c} : call[d].at # "checkout"
Active == {c \in Calls : call[c].at \notin {"none", "done"}}

-----------------------------------------------------------------------------
(***************************************************************************)
(* The calls.                                                                *)
(***************************************************************************)
\* The dispatcher starts the next calls together, with the limit of their round.
\* An ambiguous target has no key.
StartRound(last, limit) ==
    LET cs == {c \in 1..last : call[c].at = "none"} IN
    /\ request = "live" /\ Active = {} /\ Cardinality(cs) \in 1..MaxParallel
    /\ \E key \in [cs -> Keys \cup {NoKey}] :
          call' = [c \in Calls |->
                     IF c \in cs
                     THEN [NewCall EXCEPT !.at = "begin", !.key = key[c], !.limit = limit]
                     ELSE call[c]]
    /\ UNCHANGED <<now, request, session, pool, timers, closing>>

\* Defect: a session that its timer has claimed looks alive and is taken.
UnparkClaimsTrusting(i) == TRUE

\* unpark: has the check-out claimed the session before its timer did.
UnparkClaims(i) == session[i].parked

is_expired_at(i, time) == time - session[i].parkedAt >= MAX_IDLE_AGE

Usable(c, i) ==
    /\ UnparkClaims(i) /\ session[i].limit = call[c].limit
    /\ session[i].alive /\ ~is_expired_at(i, call[c].read)

\* checkout: the pool is locked and the clock read.
Checkout(c) ==
    /\ At(c, "begin")
    /\ call' = IF call[c].key = NoKey THEN [call EXCEPT ![c].at = "open"]
               ELSE [call EXCEPT ![c].at = "checkout", ![c].read = now]
    /\ UNCHANGED <<now, request, session, pool, timers, closing>>

\* The compatible session is taken and the others are closed.
CheckoutTakes(c) ==
    /\ At(c, "checkout")
    /\ LET found == pool[call[c].key]
           good == {i \in found : Usable(c, i)}
       IN  /\ pool' = [pool EXCEPT ![call[c].key] = {}]
           /\ session' = [i \in Sessions |->
                            IF i \in found THEN [session[i] EXCEPT !.parked = FALSE]
                            ELSE session[i]]
           /\ \/ \E i \in good :
                    /\ call' = [call EXCEPT ![c].at = "call", ![c].session = i, ![c].read = 0]
                    /\ closing' = closing \cup (found \ {i})
              \/ /\ good = {}
                 /\ call' = [call EXCEPT ![c].at = "open", ![c].read = 0]
                 /\ closing' = closing \cup found
    /\ UNCHANGED <<now, request, timers>>

\* open_tool_session, or its failure or timeout: nothing is running then.
Open(c) ==
    /\ At(c, "open")
    /\ \E i \in Sessions :
          /\ session[i].state = "unused"
          /\ \A j \in Sessions : session[j].state = "unused" => i <= j
          /\ session' = [session EXCEPT ![i].state = "open", ![i].alive = TRUE,
                                        ![i].key = call[c].key, ![i].limit = call[c].limit]
          /\ call' = [call EXCEPT ![c].at = "call", ![c].session = i]
    /\ UNCHANGED <<now, request, pool, timers, closing>>

OpenFails(c) ==
    /\ At(c, "open") /\ call' = [call EXCEPT ![c] = DoneCall]
    /\ UNCHANGED <<now, request, session, pool, timers, closing>>

Send(c) ==
    /\ At(c, "call")
    /\ call' = [call EXCEPT ![c].at = "wait", ![c].sent = @ + 1]
    /\ UNCHANGED <<now, request, session, pool, timers, closing>>

\* An error or the deadline, before or after delivery: the session is closed and
\* the call is not repeated.
CallFails(c) ==
    /\ At(c, "call") \/ At(c, "wait")
    /\ call' = [call EXCEPT ![c].at = "close"]
    /\ UNCHANGED <<now, request, session, pool, timers, closing>>

CloseBefore(c) ==
    /\ At(c, "close")
    /\ session' = [session EXCEPT ![call[c].session] = ClosedSession]
    /\ call' = [call EXCEPT ![c] = DoneCall]
    /\ UNCHANGED <<now, request, pool, timers, closing>>

\* A clean call of a target without a key closes its session.
SucceedUnpooled(c) ==
    /\ At(c, "wait") /\ call[c].key = NoKey
    /\ call' = [call EXCEPT ![c].at = "close"]
    /\ UNCHANGED <<now, request, session, pool, timers, closing>>

\* park: the flag, and the task that waits for the idle age.
Park(i) ==
    /\ session' = [session EXCEPT ![i].parked = TRUE, ![i].parkedAt = now, ![i].parks = @ + 1]
    /\ timers' = timers \cup {[session |-> i, park |-> session[i].parks + 1,
                               due |-> now + MAX_IDLE_AGE, claimed |-> FALSE]}

\* checkin: idle sessions of another limit go; one of this limit, or a full pool,
\* keeps this one out.
Checkin(c) ==
    /\ At(c, "wait") /\ call[c].key # NoKey
    /\ LET k == call[c].key
           i == call[c].session
           kept == {j \in pool[k] : session[j].limit = session[i].limit}
           total == Cardinality(Idle) - Cardinality(pool[k] \ kept)
       IN  IF kept # {} \/ total >= MAX_TOTAL_IDLE
           THEN /\ pool' = [pool EXCEPT ![k] = kept]
                /\ closing' = closing \cup (pool[k] \ kept) \cup {i}
                /\ UNCHANGED <<session, timers>>
           ELSE /\ pool' = [pool EXCEPT ![k] = {i}]
                /\ closing' = closing \cup (pool[k] \ kept)
                /\ Park(i)
    /\ call' = [call EXCEPT ![c] = DoneCall]
    /\ UNCHANGED <<now, request>>

-----------------------------------------------------------------------------
(***************************************************************************)
(* Timers, background closes, and the end of the request.                    *)
(***************************************************************************)
\* The idle age has passed: the timer claims the session, unless it is too late.
TimerFires(t) ==
    /\ now >= t.due /\ ~t.claimed
    /\ IF session[t.session].parks = t.park /\ session[t.session].parked
       THEN /\ session' = [session EXCEPT ![t.session].parked = FALSE]
            /\ timers' = (timers \ {t}) \cup {[t EXCEPT !.claimed = TRUE]}
       ELSE timers' = timers \ {t} /\ UNCHANGED session
    /\ UNCHANGED <<now, request, call, pool, closing>>

TimerCancels(t) ==
    /\ t.claimed /\ timers' = timers \ {t}
    /\ session' = [session EXCEPT ![t.session].alive = FALSE]
    /\ UNCHANGED <<now, request, call, pool, closing>>

\* The check-out or the close has disarmed it.
TimerDisarmed(t) ==
    /\ ~t.claimed
    /\ session[t.session].parks # t.park \/ ~session[t.session].parked
    /\ timers' = timers \ {t}
    /\ UNCHANGED <<now, request, call, session, pool, closing>>

\* close_sessions: best effort and bounded, so it ends.
CloseInBackground(i) ==
    /\ i \in closing /\ closing' = closing \ {i}
    /\ session' = [session EXCEPT ![i] = ClosedSession]
    /\ UNCHANGED <<now, request, call, pool, timers>>

\* The outer response is finished: the pool is drained.
ResponseEnds ==
    /\ request = "live" /\ Active = {} /\ request' = "ended"
    /\ pool' = [k \in Keys |-> {}] /\ closing' = closing \cup Idle
    /\ UNCHANGED <<now, call, session, timers>>

\* The client goes away: the calls' futures are dropped, and with them the
\* sessions they hold; the last owner of the pool has its sessions closed.
Cancelled ==
    /\ request = "live" /\ request' = "cancelled"
    /\ \A c \in Calls : call[c].at # "checkout"
    /\ session' = [i \in Sessions |->
                     IF \E c \in Calls : call[c].session = i
                     THEN ClosedSession ELSE session[i]]
    /\ call' = [c \in Calls |-> DoneCall]
    /\ pool' = [k \in Keys |-> {}] /\ closing' = closing \cup Idle
    /\ UNCHANGED <<now, timers>>

\* A worker ends by itself while its session is parked.  (One that ends in use
\* fails the call.)
WorkerEnds(i) ==
    /\ session[i].alive /\ i \in Idle
    /\ session' = [session EXCEPT ![i].alive = FALSE]
    /\ UNCHANGED <<now, request, call, pool, timers, closing>>

Tick ==
    /\ now < MaxTime /\ now' = now + 1
    /\ UNCHANGED <<request, call, session, pool, timers, closing>>

SessionsNext ==
    \/ \E c \in Calls, l \in Limits : StartRound(c, l)
    \/ \E c \in Calls :
          \/ Checkout(c) \/ CheckoutTakes(c) \/ Open(c) \/ OpenFails(c) \/ Send(c)
          \/ CallFails(c) \/ CloseBefore(c) \/ SucceedUnpooled(c) \/ Checkin(c)
    \/ \E t \in timers : TimerFires(t) \/ TimerCancels(t) \/ TimerDisarmed(t)
    \/ \E i \in Sessions : CloseInBackground(i) \/ WorkerEnds(i)
    \/ ResponseEnds \/ Cancelled \/ Tick

SessionsSpec == SessionsInit /\ [][SessionsNext]_sessionVars

-----------------------------------------------------------------------------
(***************************************************************************)
(* A call has its session to itself: no other call, no close and no timer    *)
(* that has claimed it, whichever thread was first; and the session is one   *)
(* opened for its key and its limit.  It is sent once at most.               *)
(***************************************************************************)
CallsExclusive ==
    \A c \in Calls :
        /\ call[c].sent <= 1
        /\ call[c].at \in {"call", "wait"} =>
              LET i == call[c].session
              IN  /\ session[i].key = call[c].key /\ session[i].limit = call[c].limit
                  /\ i \notin Idle \cup closing
                  /\ \A d \in Calls \ {c} : call[d].session # i
                  /\ \A t \in timers : t.session = i => ~t.claimed

\* A session that was opened has one owner, who closes it: a call, the pool of a
\* live request, or a background close.  An idle one has a timer that will still
\* end its worker, and the idle sessions keep within their limits.
NoSessionLeaked ==
    /\ \A i \in Sessions : session[i].state = "open" =>
          Cardinality({c \in Calls : call[c].session = i})
            + Cardinality({k \in Keys : i \in pool[k]})
            + (IF i \in closing THEN 1 ELSE 0) = 1
    /\ request # "live" => Idle = {}
    /\ \A i \in Idle : session[i].alive =>
          \E t \in timers : t.session = i /\ t.park = session[i].parks
    /\ \A k \in Keys : Cardinality(pool[k]) <= 1
    /\ Cardinality(Idle) <= MAX_TOTAL_IDLE

\* What the pool promises: no session is shared (checkout, checkin and the timers
\* agree on who has it), and none is left behind.
SessionsSound == CallsExclusive /\ NoSessionLeaked
=============================================================================
