----------------------------- MODULE MCResponses -----------------------------
(* One Responses request in the agentic loop, its pool of MCP sessions, and  *)
(* the stored rows of one response, side by side: they share no variable,    *)
(* and a behaviour is one of the three.  Rounds of at most two calls of      *)
(* every mix of kinds, in both orders where the budget tells them apart (a   *)
(* call that the client runs ends the round in any mix), and one longer      *)
(* round; three tool calls, two at a time, on two targets, with room for one *)
(* idle session; two resume turns on two approvals, a log of two pages.      *)
EXTENDS AgenticLoop, ResponseRows, McpSessions, TLC

CONSTANTS t1, t2, k1, k2

VARIABLE part

MCKinds == {"mcp", "gated", "web", "file", "tsearch"}
MCRounds ==
    {<<"msg">>, <<"client">>, <<"client", "mcp">>, <<"local">>, <<"local", "local">>,
     <<"file", "web", "file">>, <<"found", "web">>}
    \cup [1..1 -> MCKinds] \cup {<<"local", k>> : k \in MCKinds}
    \cup {r \in [1..2 -> MCKinds] :
             r[1] \in McpKinds => r[2] \in McpKinds /\ r # <<"gated", "mcp">>}
MCBatches == {<<1>>, <<2>>, <<1, 2>>, <<2, 1>>}

\* The part that runs is chosen once; the others stay as they began.  A request
\* that is not stored is refused alike whether it streams or not.
MCInit ==
    /\ Init /\ RowsInit /\ SessionsInit /\ part \in {"loop", "rows", "sessions"}
    /\ req.stream => req.stored
    /\ part # "loop" => /\ req = [stream |-> FALSE, budget |-> NoLimit, stored |-> TRUE]
                        /\ ~s.deferred

\* A request of the loop must always be able to go on; the others end.
MCNext == /\ UNCHANGED part
          /\ \/ part = "loop" /\ Next /\ UNCHANGED <<rowVars, sessionVars>>
             \/ part = "rows" /\ RowsNext /\ UNCHANGED <<vars, sessionVars>>
             \/ part = "sessions" /\ SessionsNext /\ UNCHANGED <<vars, rowVars>>
             \/ part # "loop" /\ UNCHANGED <<vars, rowVars, sessionVars>>
MCSpec == MCInit /\ [][MCNext]_<<part, vars, rowVars, sessionVars>>

\* The resume turns, and the targets of the sessions, may change places.
Swap == t1 :> t2 @@ t2 :> t1 @@ k1 :> k2 @@ k2 :> k1
Symmetry == {[v \in DOMAIN Swap |-> IF p THEN Swap[v] ELSE v] : p \in BOOLEAN}
==============================================================================
