----------------------------- MODULE AgenticLoop -----------------------------
(***************************************************************************)
(* One Responses request through the agentic loop                            *)
(* (apis/src/openai/responses): the model answers in rounds; the loop owner  *)
(* (agentic_loop) sorts each round's output items into queues and alone      *)
(* decides whether to loop; on re-entry the web-search, MCP and file-search  *)
(* dispatchers empty their queues, in pipeline order, before the owner sends *)
(* the next inference request.  All of them share one ResponsesState, and    *)
(* the client's max_tool_calls budget across every round.                    *)
(*                                                                           *)
(* An output item is its kind and its status.  Kinds: "msg" (text, or a call *)
(* that the model left unfinished and nobody runs), "client" (a function     *)
(* call the client runs), "local" (a built-in call the client runs), "mcp"   *)
(* and "gated" (MCP calls, without and with approval), "web", "file",        *)
(* "tsearch" (hosted searches), "found" (a file search that the provider     *)
(* finished), "result" and "approval" (what MCP dispatch adds).  Queues hold *)
(* positions of the accumulated output.                                      *)
(***************************************************************************)
EXTENDS Naturals, FiniteSets, Sequences

CONSTANTS
    Rounds,        \* the outputs a model round may have: sequences of kinds
    MaxIters,      \* max_infer_iters
    MaxWeb,        \* web-search calls accepted from one round
    MaxMcp,        \* MCP calls accepted from one round
    FileCap,       \* file searches one continuation plans
    Budgets,       \* the max_tool_calls values of this instance
    NoLimit        \* a request without max_tool_calls

ASSUME LoopAssumption ==
    /\ MaxIters \in Nat /\ MaxWeb \in Nat /\ MaxMcp \in Nat /\ FileCap \in Nat
    /\ Budgets \subseteq Nat \cup {NoLimit} /\ NoLimit \notin Nat
    /\ Rounds \subseteq
         Seq({"msg", "client", "local", "mcp", "gated", "web", "file", "tsearch", "found"})

VARIABLES
    req,      \* the request: streaming, budget, whether it will be stored
    s,        \* ResponsesState
    pc,       \* whose turn: web, mcp, file, owner (request), model (response)
    ended,    \* the terminal outcome, or "no"
    ran       \* history: the calls executed against external services

vars == <<req, s, pc, ended, ran>>

Builtin == {"local", "web", "file", "tsearch", "found"}
McpKinds == {"mcp", "gated"}

NoQueues == [tool |-> {}, web |-> {}, tsearch |-> {}, file |-> {}]

Init ==
    /\ req \in [stream : BOOLEAN, budget : Budgets, stored : BOOLEAN]
    /\ \E d \in BOOLEAN :
          s = [iteration |-> 0, out |-> <<>>, start |-> 1, q |-> NoQueues,
               called |-> {}, answered |-> {}, approval |-> FALSE,
               limit |-> FALSE, failure |-> FALSE, security |-> FALSE,
               deferred |-> d]
    /\ pc = "web" /\ ended = "no" /\ ran = <<>>

Kind(st, i) == st.out[i].kind

Of(st, S, kinds) == {i \in S : Kind(st, i) \in kinds}

(* The positions of a set in model output order. *)
InOrder(S) ==
    [k \in 1..Cardinality(S) |->
        CHOOSE i \in S : Cardinality({j \in S : j < i}) = k - 1]

Mark(out, S, status) ==
    [i \in DOMAIN out |-> IF i \in S THEN [out[i] EXCEPT !.status = status]
                          ELSE out[i]]

-----------------------------------------------------------------------------
(***************************************************************************)
(* The budget: built-in calls of earlier rounds are charged whatever became  *)
(* of them; calls of the current round are admitted in model output order.   *)
(***************************************************************************)
\* Defect: only completed calls are charged.
ConsumedCompleted(st) ==
    Cardinality({i \in 1..(st.start - 1) :
                    Kind(st, i) \in Builtin /\ st.out[i].status = "completed"})
Consumed(st) ==
    Cardinality({i \in 1..(st.start - 1) :
                    /\ Kind(st, i) \in Builtin
                    /\ ~(Kind(st, i) = "file" /\ st.out[i].status = "pending")})

Admitted(st, i) ==
    IF req.budget = NoLimit THEN TRUE
    ELSE Consumed(st)
         + Cardinality({j \in st.start..(i - 1) : Kind(st, j) \in Builtin})
         < req.budget

(* tool_search_discovery_is_within_budget *)
DiscoveryAdmitted(st) == \E i \in st.q.tsearch : Admitted(st, i)

NeedsDiscovery(st) == st.q.tsearch # {} /\ st.deferred /\ DiscoveryAdmitted(st)

-----------------------------------------------------------------------------
(* Request side.  Every dispatcher bridges what it did into the messages.    *)
Bridged(st, S) ==
    [st EXCEPT !.called = @ \cup S, !.answered = @ \cup S]

Finish(outcome) == ended' = outcome /\ pc' = "done"

(* openai_web_search_dispatch: a call without a query, or for which the      *)
(* batch has no query left, is skipped and ends incomplete; calls the budget *)
(* refuses fail locally; the others are searched, completely or not.         *)
WebSearched(st, short) ==
    LET refused == {i \in st.q.web : ~Admitted(st, i)}
        done == st.q.web \ (refused \cup short)
        out1 == Mark(st.out, refused, "failed")
        out2 == Mark(out1, short, "incomplete")
    IN  [Bridged(st, st.q.web) EXCEPT
            !.out = Mark(out2, done, "completed"),
            !.q.web = {}, !.limit = @ \/ refused # {}]

WebDispatch ==
    /\ pc = "web" /\ ended = "no"
    /\ LET allowed == {i \in s.q.web : Admitted(s, i)}
       IN  \/ /\ \E skipped \in SUBSET s.q.web, partial \in SUBSET allowed :
                    /\ s' = WebSearched(s, skipped \cup partial)
                    /\ ran' = ran \o InOrder(allowed \ skipped)
              /\ pc' = "mcp" /\ UNCHANGED ended
           \/ \* the per-user credential is missing
              /\ s.q.web # {}
              /\ s' = [s EXCEPT !.security = TRUE, !.q.web = {}]
              /\ pc' = "mcp" /\ UNCHANGED <<ran, ended>>
           \/ \* the preflight: no credential, or a location the search cannot honor
              /\ s.iteration = 0
              /\ Finish("error") /\ UNCHANGED <<s, ran>>
    /\ UNCHANGED req

McpCalls(st) == Of(st, st.q.tool, {"mcp"})

(* append_results: one public result per call, and the answer to the model. *)
McpAnswered(st) ==
    LET calls == McpCalls(st)
        result == [kind |-> "result", status |-> "completed"]
    IN  [st EXCEPT !.out = @ \o [k \in 1..Cardinality(calls) |-> result],
                   !.answered = @ \cup calls,
                   !.q.tool = @ \ calls]

(***************************************************************************)
(* openai_mcp_dispatch: list the deferred connectors when a hosted search    *)
(* asked for them, then run the calls.  Any request may have tools of a      *)
(* connector, whose context is looked at first, calls or no calls.           *)
(***************************************************************************)
McpDispatch ==
    /\ pc = "mcp" /\ ended = "no"
    /\ LET found == NeedsDiscovery(s)
           searches == IF found THEN {i \in s.q.tsearch : Admitted(s, i)} ELSE {}
           listed == [s EXCEPT !.deferred = @ /\ ~found]
       IN  \/ \* there is no client for callouts, or tools/list failed
              /\ found \/ McpCalls(s) # {}
              /\ Finish("error") /\ UNCHANGED <<s, ran>>
           \/ \* the connector's context is missing, or is not that of the resolution
              /\ s' = [s EXCEPT !.security = TRUE]
              /\ pc' = "file" /\ UNCHANGED <<ran, ended>>
           \/ /\ s' = McpAnswered(listed)
              /\ ran' = ran \o InOrder(searches) \o InOrder(McpCalls(s))
              /\ pc' = "file" /\ UNCHANGED ended
           \/ \* the results of so many calls would have no room: none is run
              /\ McpCalls(s) # {}
              /\ s' = [listed EXCEPT !.failure = TRUE, !.q.tool = {}]
              /\ ran' = ran \o InOrder(searches)
              /\ pc' = "file" /\ UNCHANGED ended
    /\ UNCHANGED req

(* The first FileCap assignments are planned; the rest end incomplete. *)
Planned(st) ==
    {i \in st.q.file : Cardinality({j \in st.q.file : j < i}) < FileCap}

\* Defect: the queue is not emptied.
DrainedKept(st) == st
Drained(st) == [st EXCEPT !.q.file = {}]

FileSearched(st, partial) ==
    LET rest == st.q.file \ Planned(st)
        out1 == Mark(st.out, rest \cup partial, "incomplete")
    IN  [Bridged(Drained(st), Planned(st)) EXCEPT
            !.out = Mark(out1, Planned(st) \ partial, "completed")]

(* openai_file_search_dispatch: a failed batch or an oversized continuation  *)
(* is left to the owner as a shared failure.                                 *)
FileDispatch ==
    /\ pc = "file" /\ ended = "no"
    /\ \/ /\ s.q.file # {}
          /\ s' = [Drained(s) EXCEPT !.security = TRUE]
          /\ UNCHANGED ran
       \/ /\ ran' = ran \o InOrder(Planned(s))
          /\ \/ s.q.file # {} /\ s' = [Drained(s) EXCEPT !.failure = TRUE]
             \/ \E partial \in SUBSET Planned(s), fits \in BOOLEAN :
                  /\ s.q.file = {} => fits
                  /\ s' = [FileSearched(s, partial) EXCEPT !.failure = @ \/ ~fits]
    /\ pc' = "owner"
    /\ UNCHANGED <<req, ended>>

(***************************************************************************)
(* The owner's request half.  A recorded failure ends the request; so does a *)
(* round that only had to be finished locally (a refused call, a pending     *)
(* approval); otherwise the next inference request is sent.                  *)
(***************************************************************************)
\* Defect: a finished round is dispatched again.
OwnerTurnAgain(st) == IF st.limit \/ st.approval THEN "web" ELSE "model"
OwnerTurn(st) == IF st.limit \/ st.approval THEN "done" ELSE "model"

OwnerRequest ==
    /\ pc = "owner" /\ ended = "no"
    /\ \/ /\ s.security \/ s.failure
          /\ Finish("error")
          /\ s' = [s EXCEPT !.q = NoQueues]
       \/ /\ ~s.security /\ ~s.failure
          /\ pc' = OwnerTurn(s)
          /\ \/ pc' = "done" /\ s' = [s EXCEPT !.q = NoQueues]
                /\ ended' \in {"completed"} \cup (IF req.stream THEN {} ELSE {"error"})
             \/ pc' # "done" /\ UNCHANGED ended
                /\ s' = [s EXCEPT !.q.tool = {}, !.q.tsearch = {}, !.q.web = {}]
    /\ UNCHANGED <<req, ran>>

-----------------------------------------------------------------------------
(***************************************************************************)
(* Response side: collect_output_items.  A file search the budget does not   *)
(* admit is ended in place, so that it cannot keep the loop going.           *)
(***************************************************************************)
Status(kind) == IF kind \in {"web", "file"} THEN "pending" ELSE "completed"

AppendedRound(st, r) ==
    [st EXCEPT !.start = Len(st.out) + 1,
               !.out = @ \o [k \in DOMAIN r |-> [kind |-> r[k], status |-> Status(r[k])]]]

\* Defect: calls beyond the budget keep their status.
AssignedOpen(st, pending) ==
    [st EXCEPT !.q.file = @ \cup {i \in pending : Admitted(st, i)}]
Assigned(st, pending) ==
    [st EXCEPT !.q.file = @ \cup {i \in pending : Admitted(st, i)},
               !.out = Mark(@, {i \in pending : ~Admitted(st, i)}, "incomplete")]

Collected(st, r) ==
    LET st1 == AppendedRound(st, r)
        now == st1.start..Len(st1.out)
        calls == Of(st1, now, {"client", "mcp", "gated"})
        st2 == [st1 EXCEPT !.q.tool = @ \cup calls,
                           !.q.web = @ \cup Of(st1, now, {"web"}),
                           !.q.tsearch = @ \cup Of(st1, now, {"tsearch"}),
                           !.called = @ \cup calls]
    IN  Assigned(st2, Of(st2, now, {"file"}))

(* has_mixed_function_call_ownership *)
ServerWork(st) ==
    st.q.web # {} \/ st.q.file # {} \/ st.q.tsearch # {}
    \/ Of(st, st.q.tool, McpKinds) # {}

ClientWork(st) ==
    \/ Of(st, st.start..Len(st.out), {"local"}) # {}
    \/ Of(st, st.q.tool, {"client"}) # {}

Mixed(st) == ServerWork(st) /\ ClientWork(st)

(* prepare_dispatcher_round: fan-out caps, MCP calls whose ids are missing   *)
(* or not new, and approvals that cannot be kept for a later turn.           *)
PrepareFails(st, ids) ==
    \/ Cardinality(st.q.web) > MaxWeb
    \/ Cardinality(Of(st, st.q.tool, McpKinds)) > MaxMcp
    \/ Of(st, st.q.tool, McpKinds) # {} /\ ids # "new"
    \/ Of(st, st.q.tool, {"gated"}) # {} /\ ~req.stored

(* prepare_response_round: gated calls become approval requests. *)
\* Defect: calls that need no approval let the loop go on.
PartitionedLoose(st) ==
    LET gated == Of(st, st.q.tool, {"gated"})
        ask == [kind |-> "approval", status |-> "completed"]
    IN  [st EXCEPT !.out = @ \o [k \in 1..Cardinality(gated) |-> ask],
                   !.approval = gated # {} /\ McpCalls(st) = {},
                   !.q.tool = @ \ gated]
Partitioned(st) ==
    LET gated == Of(st, st.q.tool, {"gated"})
        ask == [kind |-> "approval", status |-> "completed"]
    IN  [st EXCEPT !.out = @ \o [k \in 1..Cardinality(gated) |-> ask],
                   !.approval = gated # {},
                   !.q.tool = @ \ gated]

(* mark_over_budget_tool_searches_incomplete *)
Searched(st) ==
    IF st.q.tsearch = {} \/ DiscoveryAdmitted(st) THEN st
    ELSE [st EXCEPT !.out = Mark(@, st.q.tsearch, "incomplete"),
                    !.q.tsearch = {}]

Dispatchable(st) ==
    st.q.web # {} \/ st.q.file # {} \/ NeedsDiscovery(st) \/ McpCalls(st) # {}

AtLimit(st) == st.iteration >= MaxIters

(* evaluate_loop_decision on a round that may be dispatched. *)
Decide(st, ids) ==
    LET st1 == Searched(Partitioned(st))
        fails == Mixed(st) \/ PrepareFails(st, ids)
    IN  CASE fails ->
               /\ s' = [st EXCEPT !.q = NoQueues] /\ Finish("error")
          [] ~fails /\ ~Dispatchable(st1) ->
               /\ s' = st1 /\ pc' = "done"
               /\ ended' \in {"completed"} \cup (IF req.stream THEN {} ELSE {"error"})
          [] ~fails /\ Dispatchable(st1) /\ AtLimit(st1) ->
               /\ s' = st1 /\ Finish("error")
          [] OTHER ->
               /\ s' = [st1 EXCEPT !.iteration = @ + 1]
               /\ pc' = "web" /\ UNCHANGED ended

(* on_response_body: the round ends completed, cut off at the token limit,   *)
(* or (a broken stream, an upstream error) without anything to dispatch.     *)
ModelRound(r, status) ==
    /\ pc = "model" /\ ended = "no"
    /\ CASE status = "completed" ->
              \E ids \in {"new", "repeated"} : Decide(Collected(s, r), ids)
         [] status = "incomplete" ->
              s' = Collected(s, r) /\ Finish("incomplete")
         [] OTHER ->
              /\ s' = IF req.stream THEN [Collected(s, r) EXCEPT !.q = NoQueues] ELSE s
              /\ Finish("failed")
    /\ UNCHANGED <<req, ran>>

Ended == pc = "done" /\ UNCHANGED vars

Next ==
    \/ WebDispatch \/ McpDispatch \/ FileDispatch \/ OwnerRequest
    \/ \E r \in Rounds, st \in {"completed", "incomplete", "broken"} : ModelRound(r, st)
    \/ Ended

Spec == Init /\ [][Next]_vars

-----------------------------------------------------------------------------
(***************************************************************************)
(* No call is executed twice, in whatever mix of queues, rounds and failures *)
(* (drain-once, append_results, the owner's clearing of stale queues).       *)
(***************************************************************************)
ExecutedOnce == \A i, j \in DOMAIN ran : ran[i] = ran[j] => i = j

(***************************************************************************)
(* The hosted searches executed over all rounds stay within max_tool_calls,  *)
(* although three dispatchers and the owner each decide for themselves.      *)
(***************************************************************************)
BudgetRespected ==
    req.budget # NoLimit =>
        Cardinality({k \in DOMAIN ran : Kind(s, ran[k]) \in Builtin}) <= req.budget

(***************************************************************************)
(* The model is never sent a call without its result: when an inference      *)
(* request goes out, every function call of the history is answered, so a    *)
(* round mixing server and client calls must not get that far.  And a        *)
(* response reported as completed holds no hosted search that is still       *)
(* pending: each was executed, failed or ended in place.                     *)
(***************************************************************************)
CallsSettled ==
    /\ pc = "model" => s.called \subseteq s.answered
    /\ ended = "completed" => \A i \in DOMAIN s.out : s.out[i].status # "pending"

(***************************************************************************)
(* A gated call is never executed, and its approval is asked for exactly     *)
(* once: the request ends with the question before the model is asked again. *)
(***************************************************************************)
ApprovalsAsked ==
    LET all == DOMAIN s.out
    IN  /\ \A k \in DOMAIN ran : Kind(s, ran[k]) # "gated"
        /\ pc = "model" => Of(s, all, {"gated"}) = {}
        /\ ended = "completed" =>
              Cardinality(Of(s, all, {"gated"})) = Cardinality(Of(s, all, {"approval"}))

(***************************************************************************)
(* Every request ends: however the model answers, a step takes the request   *)
(* further along the pipeline of its round, or to the next round, and there   *)
(* are at most max_infer_iters of those.  (A request is never stuck either:   *)
(* the runs check for deadlock.)                                              *)
(***************************************************************************)
Stage == [web |-> 1, mcp |-> 2, file |-> 3, owner |-> 4, model |-> 5, done |-> 6]

EveryStepAdvances ==
    [][\/ s'.iteration = s.iteration /\ Stage[pc'] > Stage[pc]
       \/ s'.iteration > s.iteration /\ s'.iteration <= MaxIters]_vars
==============================================================================
