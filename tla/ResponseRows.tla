----------------------------- MODULE ResponseRows -----------------------------
(***************************************************************************)
(* The rows of one stored response in PostgreSQL (store-backends/src/        *)
(* postgres.rs) and the requests that race on them: the streaming exchange   *)
(* that persists the response with its pending approvals and then its event  *)
(* log, a DELETE, resume turns that claim approvals and execute the approved *)
(* calls (mcp_dispatch), and a replay that pages through the event log       *)
(* (responses/store/filter.rs).                                              *)
(*                                                                           *)
(* Transactions run at READ COMMITTED: every statement sees what is committed *)
(* when it starts; a statement that meets a row another transaction has      *)
(* locked waits, and then looks at the row again; a deadlock is broken by    *)
(* aborting one of its transactions.  What a transaction writes shows at its *)
(* commit; until then the locks stand for it.                                *)
(***************************************************************************)
EXTENDS Naturals, FiniteSets, Sequences

CONSTANTS
    Approvals,   \* the approvals the response issued, numbered in id order
    Resumes,     \* resume turns
    Batches,     \* the approval responses a turn may carry, in sending order
    LastEvent,   \* the event log is 1..LastEvent, the last one terminal
    PageLimit,   \* REPLAY_PAGE_LIMIT
    None

Writer == "writer"
Deleter == "deleter"

(* A turn that names an approval twice is refused before it reaches the      *)
(* store (mcp_dispatch), so batches repeat nothing.                          *)
RowsConstants ==
    /\ Approvals \subseteq Nat /\ None \notin Approvals
    /\ \A b \in Batches : /\ b \in Seq(Approvals)
                          /\ \A m, n \in DOMAIN b : b[m] = b[n] => m = n
    /\ LastEvent \in Nat \ {0} /\ PageLimit \in Nat \ {0}
    /\ Resumes \cap {None, Writer, Deleter} = {} /\ None \notin {Writer, Deleter}

ASSUME RowsAssumption == RowsConstants

VARIABLES
    resp,      \* is there a response row
    appr,      \* appr[a]: the pending_approvals row: "none", "open" or "used"
    log,       \* the rows of the event log
    respLock,  \* who has locked the response row
    apprLock,  \* apprLock[a]: who has locked the row of approval a
    writer,    \* where the streaming exchange is
    deleter,   \* the DELETE: where it is, whether it hit the response row, the
               \* approval rows it has yet to delete, the one it is at
    resume,    \* resume[r]: where turn r is, its batch, the ids it has claimed
    replay,    \* the replay: where it is, cursor, terminal sequence, what it sent
    executed        \* history: how often the call of approval a was executed

rows == <<resp, appr, log>>
locks == <<respLock, apprLock>>
rowVars == <<rows, locks, writer, deleter, resume, replay, executed>>

RowsInit ==
    /\ resp = FALSE /\ appr = [a \in Approvals |-> "none"] /\ log = {}
    /\ respLock = None /\ apprLock = [a \in Approvals |-> None]
    /\ writer = "persist"
    /\ deleter = [pc |-> "idle", hit |-> FALSE, todo |-> {}, at |-> None]
    /\ resume = [r \in Resumes |-> [pc |-> "idle", batch |-> <<>>, claimed |-> 0]]
    /\ replay = [pc |-> "idle", cursor |-> 0, term |-> 0, from |-> 0, sent |-> {}]
    /\ executed = [a \in Approvals |-> 0]

Unlocked(p) == [a \in Approvals |-> IF apprLock[a] = p THEN None ELSE apprLock[a]]

-----------------------------------------------------------------------------
(* The exchange: persist_response_with_pending_approvals is one transaction, *)
(* and of rows nobody can see yet.  If the answer to the commit is lost, the *)
(* exchange takes it for a failure; append_events may end the same way.      *)
Persist ==
    /\ writer = "persist"
    /\ \/ /\ resp' = TRUE /\ appr' = [a \in Approvals |-> "open"]
          /\ writer' \in {"pin", "done", "failed"}  \* no events, or over budget: done
       \/ writer' = "failed" /\ UNCHANGED <<resp, appr>>
    /\ UNCHANGED <<log, locks, deleter, resume, replay, executed>>

(* append_events: the parent row is locked FOR SHARE first; if it is gone,   *)
(* there is nothing to attach the events to.                                 *)
\* Defect: the parent row is read without a lock.
PinLockNone == None
PinLock == Writer

Pin ==
    /\ writer = "pin" /\ respLock = None
    /\ IF resp THEN respLock' = PinLock /\ writer' = "insert"
       ELSE writer' = "done" /\ UNCHANGED respLock
    /\ UNCHANGED <<rows, apprLock, deleter, resume, replay, executed>>

InsertEvents ==
    /\ writer = "insert"
    /\ \/ log' = 1..LastEvent /\ writer' \in {"done", "failed"}
       \/ writer' = "failed" /\ UNCHANGED log
    /\ respLock' = IF respLock = Writer THEN None ELSE respLock
    /\ UNCHANGED <<resp, appr, apprLock, deleter, resume, replay, executed>>

-----------------------------------------------------------------------------
(* delete_response: three statements of one transaction.                     *)
DeleteResponse ==
    /\ deleter.pc = "idle" /\ respLock = None
    /\ respLock' = IF resp THEN Deleter ELSE None
    /\ deleter' = [deleter EXCEPT !.pc = "approvals", !.hit = resp]
    /\ UNCHANGED <<rows, apprLock, writer, resume, replay, executed>>

DeleteApprovals ==
    /\ deleter.pc = "approvals"
    /\ deleter' = [deleter EXCEPT !.pc = "rows", !.todo = {a \in Approvals : appr[a] # "none"}]
    /\ UNCHANGED <<rows, locks, writer, resume, replay, executed>>

(* The rows come in the order of the scan, which nothing determines. *)
DeleteMeets(a) ==
    /\ deleter.pc = "rows" /\ deleter.at = None /\ a \in deleter.todo
    /\ deleter' = [deleter EXCEPT !.at = a]
    /\ UNCHANGED <<rows, locks, writer, resume, replay, executed>>

DeleteRow ==
    /\ deleter.pc = "rows" /\ deleter.at # None /\ apprLock[deleter.at] = None
    /\ apprLock' = [apprLock EXCEPT ![deleter.at] = Deleter]
    /\ deleter' = [deleter EXCEPT !.at = None, !.todo = @ \ {deleter.at}]
    /\ UNCHANGED <<rows, respLock, writer, resume, replay, executed>>

(* The events the third statement sees, and the commit.  The events of a     *)
(* response this transaction holds cannot change any more.                   *)
DeleteCommit ==
    /\ deleter.pc = "rows" /\ deleter.at = None /\ deleter.todo = {}
    /\ resp' = (resp /\ ~deleter.hit)
    /\ appr' = [a \in Approvals |-> IF apprLock[a] = Deleter THEN "none" ELSE appr[a]]
    /\ log' = {}
    /\ respLock' = IF respLock = Deleter THEN None ELSE respLock
    /\ apprLock' = Unlocked(Deleter)
    /\ deleter' = [deleter EXCEPT !.pc = "done",
                     !.todo = {a \in Approvals : apprLock[a] = Deleter}]
    /\ UNCHANGED <<writer, resume, replay, executed>>

(* A failing statement, or a deadlock, rolls the DELETE back. *)
DeleteFails ==
    /\ deleter.pc \in {"approvals", "rows"}
    /\ respLock' = IF respLock = Deleter THEN None ELSE respLock
    /\ apprLock' = Unlocked(Deleter)
    /\ deleter' = [deleter EXCEPT !.pc = "failed", !.todo = {}, !.at = None]
    /\ UNCHANGED <<rows, writer, resume, replay, executed>>

-----------------------------------------------------------------------------
(* resume_approvals loads the pending rows, consumed or not.  A response     *)
(* without a row, or whose target no longer resolves, fails the turn before  *)
(* any side effect.                                                          *)
Load(r, b) ==
    /\ resume[r].pc = "idle"
    /\ \/ /\ \A n \in DOMAIN b : appr[b[n]] # "none"
          /\ resume' = [resume EXCEPT ![r] = [pc |-> "claim", batch |-> b, claimed |-> 0]]
       \/ resume' = [resume EXCEPT ![r] = [pc |-> "rejected", batch |-> b, claimed |-> 0]]
    /\ UNCHANGED <<rows, locks, writer, deleter, replay, executed>>

(* consume_approvals updates the rows in id order. *)
Ordered(b) ==
    [k \in DOMAIN b |->
        CHOOSE a \in {b[n] : n \in DOMAIN b} :
            Cardinality({n \in DOMAIN b : b[n] < a}) = k - 1]

NextRow(r) == Ordered(resume[r].batch)[resume[r].claimed + 1]

(* WHERE ... consumed_at IS NULL *)
\* Defect: a claimed approval is claimed again.
OutstandingRead(a) == appr[a] # "none"
Outstanding(a) == appr[a] = "open"

RollBack(r, why) ==
    /\ apprLock' = Unlocked(r)
    /\ resume' = [resume EXCEPT ![r].pc = why]
    /\ UNCHANGED <<rows, respLock, writer, deleter, replay, executed>>

ClaimRow(r) ==
    /\ resume[r].pc = "claim" /\ resume[r].claimed < Len(resume[r].batch)
    /\ apprLock[NextRow(r)] = None
    /\ \/ /\ Outstanding(NextRow(r))
          /\ apprLock' = [apprLock EXCEPT ![NextRow(r)] = r]
          /\ resume' = [resume EXCEPT ![r].claimed = @ + 1]
          /\ UNCHANGED <<rows, respLock, writer, deleter, replay, executed>>
       \/ ~Outstanding(NextRow(r)) /\ RollBack(r, "rejected")

ClaimFails(r) == resume[r].pc = "claim" /\ RollBack(r, "rejected")

(* The commit, with its answer or without: then the turn is refused, and the *)
(* approvals are used all the same.                                          *)
ClaimCommit(r) ==
    /\ resume[r].pc = "claim" /\ resume[r].claimed = Len(resume[r].batch)
    /\ appr' = [a \in Approvals |-> IF apprLock[a] = r THEN "used" ELSE appr[a]]
    /\ apprLock' = Unlocked(r)
    /\ \E pc \in {"accepted", "unanswered"} : resume' = [resume EXCEPT ![r].pc = pc]
    /\ UNCHANGED <<resp, log, respLock, writer, deleter, replay, executed>>

(* apply_decision and the dispatch that follows; the gateway may stop first. *)
Execute(r) ==
    /\ resume[r].pc = "accepted"
    /\ \/ executed' = [a \in Approvals |->
                     executed[a] + Cardinality({n \in DOMAIN resume[r].batch :
                                              resume[r].batch[n] = a})]
       \/ UNCHANGED executed
    /\ resume' = [resume EXCEPT ![r].pc = "done"]
    /\ UNCHANGED <<rows, locks, writer, deleter, replay>>

-----------------------------------------------------------------------------
(* serve_replay: a log that has its terminal event is replayed page by page, *)
(* from the start or from where the client says.                             *)
ReplayBegin(from) ==
    /\ replay.pc = "idle" /\ resp
    /\ replay' = IF LastEvent \in log
                   THEN [replay EXCEPT !.pc = "page", !.cursor = from, !.from = from,
                                       !.term = LastEvent]
                   ELSE [replay EXCEPT !.pc = "refused"]
    /\ UNCHANGED <<rows, locks, writer, deleter, resume, executed>>

AfterEmptyPage == IF replay.cursor >= replay.term THEN "clean" ELSE "truncated"

NextChunk ==
    LET more == {e \in log : e > replay.cursor}
        page == {e \in more : Cardinality({f \in more : f < e}) < PageLimit}
        last == CHOOSE e \in page : \A f \in page : f <= e
    IN  /\ replay.pc = "page"
        /\ replay' = IF page = {} THEN [replay EXCEPT !.pc = AfterEmptyPage]
                     ELSE [replay EXCEPT !.cursor = last, !.sent = @ \cup page,
                             !.pc = IF last = LastEvent THEN "clean" ELSE "page"]
        /\ UNCHANGED <<rows, locks, writer, deleter, resume, executed>>

-----------------------------------------------------------------------------
RowsNext ==
    \/ Persist \/ Pin \/ InsertEvents
    \/ DeleteResponse \/ DeleteApprovals \/ DeleteRow \/ DeleteCommit \/ DeleteFails
    \/ \E a \in Approvals : DeleteMeets(a)
    \/ \E r \in Resumes : \/ \E b \in Batches : Load(r, b)
                          \/ ClaimRow(r) \/ ClaimFails(r) \/ ClaimCommit(r) \/ Execute(r)
    \/ \E from \in 0..LastEvent : ReplayBegin(from)
    \/ NextChunk

RowsSpec == RowsInit /\ [][RowsNext]_rowVars

-----------------------------------------------------------------------------
(***************************************************************************)
(* Nothing outlives its response: once a DELETE has taken the row, no pending *)
(* approval and no event is left, whatever persist or append raced with it    *)
(* ("a deleted response must leave no consumable approval behind", "nothing   *)
(* stays replayable after a DELETE").                                         *)
(***************************************************************************)
NoOrphanRows == ~resp => log = {} /\ \A a \in Approvals : appr[a] = "none"

(***************************************************************************)
(* A replay that ends cleanly has sent every event after its cursor, in one  *)
(* piece, even if the log was deleted between two pages.                     *)
(***************************************************************************)
ReplayComplete ==
    replay.pc = "clean" => replay.sent = (replay.from + 1)..replay.term

\* What is stored of a response goes with it (delete_response, append_events), and
\* a replay is whole or says that it is not (serve_replay).
RowsSound == NoOrphanRows /\ ReplayComplete

(***************************************************************************)
(* Consent is used once and all or nothing: a row is used exactly if one     *)
(* turn's whole batch was committed, and no call is executed twice.  A turn  *)
(* that was refused has used none of its approvals, or all of them if it was *)
(* refused because the answer to its commit was lost.                        *)
(***************************************************************************)
Committed == {r \in Resumes : resume[r].pc \in {"accepted", "unanswered", "done"}}
Names(r, a) == \E n \in DOMAIN resume[r].batch : resume[r].batch[n] = a

ConsentUsedOnce ==
    \A a \in Approvals :
        LET by == {r \in Committed : Names(r, a)}
        IN  /\ Cardinality(by) <= 1 /\ executed[a] <= 1
            /\ appr[a] = "used" => by # {}
            /\ appr[a] = "open" => by = {}
            /\ executed[a] = 1 => by # {}

(***************************************************************************)
(* Resume turns never wait for each other in a circle, however their batches *)
(* overlap and in whatever order they name the approvals ("two concurrent    *)
(* resumes overlapping in opposite order cannot deadlock").  A DELETE may    *)
(* meet them in one; the database breaks that one.                           *)
(***************************************************************************)
WaitsFor(p) ==
    CASE p \in Resumes -> IF resume[p].pc = "claim" /\ resume[p].claimed < Len(resume[p].batch)
                            THEN apprLock[NextRow(p)] ELSE None
      [] p = Deleter -> IF deleter.at = None THEN None ELSE apprLock[deleter.at]
      [] p = Writer -> IF writer = "pin" THEN respLock ELSE None

InCircle(S) == S # {} /\ {WaitsFor(p) : p \in S} = S
ResumesNeverDeadlock == \A S \in SUBSET Resumes : ~InCircle(S)

\* What a turn may do with the approvals it names (consume_approvals): use them
\* once, all or none (all of them also when the answer to its commit is lost and
\* it is refused), and never wait in a circle for them.
ConsentSound == ConsentUsedOnce /\ ResumesNeverDeadlock

(***************************************************************************)
(* "a delete observes either both records or neither": a DELETE that took    *)
(* the approvals of a response took the response too.                        *)
(***************************************************************************)
DeleteSeesBothOrNeither == deleter.pc = "done" /\ deleter.todo # {} => deleter.hit

(***************************************************************************)
(* consume_approvals: "on error the transaction rolls back and nothing is    *)
(* claimed": an approval is used only by a turn that was told so.            *)
(***************************************************************************)
ErrorsClaimNothing ==
    \A a \in Approvals :
        appr[a] = "used" =>
            \E r \in Resumes : resume[r].pc \in {"accepted", "done"} /\ Names(r, a)
=============================================================================
