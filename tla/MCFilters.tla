------------------------------ MODULE MCFilters ------------------------------
(* Filters that keep state of their own, side by side.  Of the A2A filter,   *)
(* the route store and the exchanges that use it (A2aTaskRoutes), the        *)
(* scanner of event streams (SseScanner) and the capture of JSON replies     *)
(* (A2aCapture); the exchange of one request with an external processor      *)
(* (ExtProc); the token cache of the cloud credential filters (TokenCache);  *)
(* the overlay of the provider router and its sessions (RouteOverlay).       *)
(* They share no variable here, and a behaviour is one of the six.           *)
EXTENDS A2aTaskRoutes, TokenCache, ExtProc, RouteOverlay, TLC

CONSTANTS MaxScratch, ChunkMax, StreamLimit, Bodies, MaxBytes,
          e1, e2, k1, k2, t1, t2, u1, u2, u3, q1, q2, s1, s2

VARIABLES part, state, payloads, dropped, stream, parted, done,
          body, pos, cap, closed, stored

Scanner == INSTANCE SseScanner
JsonReply == INSTANCE A2aCapture WITH done <- closed

\* Overlays: two members that take turns, in two renderings; one that drains
\* before the other; the legacy format with one excluded; a group that mixes
\* admission states, which is refused.
Route(id, admission, group) == [id |-> id, admission |-> admission, group |-> group]
Turns == <<Route("a", "new_and_existing", 0), Route("b", "new_and_existing", 0)>>
Overlays ==
    {[bytes |-> 1, rev |-> "v1", mode |-> "round_robin", cands |-> Turns],
     [bytes |-> 2, rev |-> "v1", mode |-> "round_robin", cands |-> Turns],
     [bytes |-> 3, rev |-> "v2", mode |-> "deterministic",
      cands |-> <<Route("a", "existing_only", 0), Route("b", "new_and_existing", 1)>>],
     [bytes |-> 4, rev |-> None, mode |-> "random",
      cands |-> <<Route("a", "excluded", None), Route("b", "new_and_existing", None)>>],
     [bytes |-> 5, rev |-> "v3", mode |-> "random",
      cands |-> <<Route("a", "new_and_existing", 0), Route("b", "existing_only", 0)>>]}

scannerVars == <<state, payloads, dropped, stream, parted, done>>
captureVars == <<body, pos, cap, closed, stored>>

\* Every body of at most three bytes, and longer ones with nested brackets,
\* strings that hold brackets and escaped quotes, and trailing content.
MCBodies ==
    UNION {[1..n -> {"{", "}", "[", "]", "quote", "esc", "b", "w"}] : n \in 0..3}
    \cup {<<"{", "quote", "esc", "quote", "}", "quote", "}">>,
          <<"{", "quote", "}", "quote", "x", "}", "w">>,
          <<"w", "{", "[", "x", "]", "}", "w">>,
          <<"{", "[", "}", "x", "}", "w">>,
          <<"{", "x", "}", "w", "{", "x", "}">>,
          <<"{", "quote", "esc", "esc", "quote", "}", "w">>,
          <<"{", "x", "x", "x", "x", "x", "}", "w", "w">>,
          <<"[", "{", "x", "}", "]", "w">>}

\* The part that runs is chosen once; the others stay as they began.
MCInit == /\ Init /\ Scanner!Init /\ JsonReply!Init /\ ExtInit /\ TokenInit /\ OverlayInit
          /\ part \in {"routes", "scanner", "capture", "ext", "token", "overlay"}
          /\ part # "capture" => body = <<>>
          /\ part # "ext" => ~cfg.fullDuplex /\ ~cfg.responseHeaders
          /\ file.bytes = IF part = "overlay" THEN 1 ELSE 4

\* Of the exchanges one at most cancels a task at a time, and names no context:
\* its reply is not read, its lookup is that of other task methods.
Cancelling(e) == ex'[e] # None /\ ex'[e].method = "CancelTask"
FewCancels == /\ ~(Cancelling(e1) /\ Cancelling(e2))
              /\ \A e \in Exchanges : Cancelling(e) => ex'[e].context = None

MCNext ==
    /\ UNCHANGED part
    /\ \/ part = "routes" /\ Next /\ FewCancels
          /\ UNCHANGED <<scannerVars, captureVars, extVars, tokenVars, overlayVars>>
       \/ part = "scanner" /\ Scanner!Next
          /\ UNCHANGED <<vars, captureVars, extVars, tokenVars, overlayVars>>
       \/ part = "capture" /\ JsonReply!Next
          /\ UNCHANGED <<vars, scannerVars, extVars, tokenVars, overlayVars>>
       \/ part = "ext" /\ ExtNext
          /\ UNCHANGED <<vars, scannerVars, captureVars, tokenVars, overlayVars>>
       \/ part = "token" /\ TokenNext
          /\ UNCHANGED <<vars, scannerVars, captureVars, extVars, overlayVars>>
       \/ part = "overlay" /\ OverlayNext
          /\ UNCHANGED <<vars, scannerVars, captureVars, extVars, tokenVars>>
MCSpec == MCInit
    /\ [][MCNext]_<<part, vars, scannerVars, captureVars, extVars, tokenVars, overlayVars>>

\* However a response is cut into chunks, the events found, the events dropped
\* and the memory used are those of the stream, except that a CRLF pair with an
\* empty chunk between its halves counts as two line ends (scan_sse_chunk forgets
\* the CR on every call, sse.rs:164); and a route is learned from exactly the
\* replies that end and parse as a whole.
RepliesReadWhole ==
    /\ part = "scanner" =>
          Scanner!ChunkingInvisible /\ Scanner!DropsExact /\ Scanner!ScratchBounded
    /\ part = "capture" => JsonReply!NeverPoisoned /\ JsonReply!ValidCaptured

\* Exchanges, clusters and tasks are interchangeable in one part, requests,
\* sessions and users of the token in others: what no part uses together may
\* change places together.
Swapped(a, b, c, d) == a :> b @@ b :> a @@ c :> d @@ d :> c
Places == {e1, e2, k1, k2, t1, t2, q1, q2, s1, s2, u1, u2}
Symmetry ==
    {[v \in Places |-> IF v \in DOMAIN p THEN p[v] ELSE v] :
        p \in {Swapped(e1, e2, q1, q2), Swapped(k1, k2, s1, s2), Swapped(t1, t2, u1, u2)}}
==============================================================================
