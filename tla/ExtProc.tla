------------------------------- MODULE ExtProc -------------------------------
(***************************************************************************)
(* One HTTP request through the ext_proc filter (integrations/llmd/          *)
(* ext-proc/src): the hooks of the filter (lib.rs) and the exchange with the *)
(* external processor that they share (duplex.rs).  A bounded channel feeds  *)
(* the outgoing half of one gRPC stream; answers arrive on the other half.   *)
(*                                                                           *)
(* The processor is external and is not trusted: it reads when it likes,     *)
(* sends any answer at any time, ends or breaks the stream, or does nothing. *)
(* Headers and their mutations are left out; a body is the sequence of its   *)
(* chunks.  Only what validate_config accepts is sent: request headers,      *)
(* request body chunks (full duplex) and response headers.                   *)
(*                                                                           *)
(* Time counts from the start of the hook's wait and passes only while the   *)
(* hook is blocked and no timer is due.                                      *)
(***************************************************************************)
EXTENDS Naturals, Sequences, SequencesExt

CONSTANTS
    Chunks,            \* chunks of the client's body (full duplex)
    MessageTimeout, MaxMessageTimeout,   \* the latter 0 if not configured
    LifecycleTimeout, DeferredClose,     \* the latter 0 to skip the cleanup
    MaxBody,           \* coalesced_body_limit, in chunks
    Overrides,         \* override_message_timeout values a processor may send
    Window,            \* answers the connection holds unread (flow control)
    MaxAnswers,        \* bound: answers of the processor
    MaxWait            \* bound: time a hook waits without a timer

ASSUME ExtProcAssumption ==
    {MessageTimeout, MaxMessageTimeout, LifecycleTimeout, DeferredClose} \cup Overrides
        \subseteq Nat

VARIABLES
    cfg,       \* full duplex request body? response headers sent?
    todo,      \* hooks still to run, the current one first
    phase,     \* where the current hook is
    outcome,   \* what a hook returns once its trailing drain is over
    waited,    \* time since the timers of this hook began
    exch,      \* the exchange, or NoExchange
    chan, rx,  \* the request channel; has its receiver been kept
    inbox,     \* answers received and not read
    srv,       \* the processor's half: "open", "ended" or "failed"
    answers, streamed,  \* answers sent so far; body chunks among them
    forward,   \* the body to forward: Original, or the chunks that replace it
    heard,     \* history: what the processor has read
    taken      \* history: the answers the filter has acted on

extVars == <<cfg, todo, phase, outcome, waited, exch, chan, rx, inbox, srv, answers,
             streamed, forward, heard, taken>>
wire == <<rx, srv, answers, streamed, heard>>

NoExchange == [boot |-> "none"]
Original == <<"original">>
NoActive == [expected |-> [kind |-> "none", dir |-> "none"], deadline |-> 0,
             overridden |-> FALSE]

\* What the gateway sends, and what the processor may answer.
Header(d) == [kind |-> "headers", dir |-> d]
Body(k) == [kind |-> "body", dir |-> "req", chunk |-> k]   \* 0: end of stream
BodyAnswer(m, k) == [kind |-> "body", dir |-> "req", mutation |-> m, chunk |-> k]
Immediate == [kind |-> "immediate", dir |-> "none"]
Answers ==
    {Header("req"), Header("resp"), Immediate}
    \cup {BodyAnswer(m, streamed + 1) : m \in {"chunk", "eos"}}
    \cup {BodyAnswer(m, 0) : m \in {"absent", "plain"}}
    \cup {[kind |-> "trailers", dir |-> "req"]}
    \cup {[kind |-> "override", dir |-> "none", time |-> t] : t \in Overrides}

Hook == Head(todo)
FullDuplex(d) == d = "req" /\ cfg.fullDuplex

\* The framework calls the body hooks before or after the request hook.
HookOrders(fd) ==
    LET upload == [i \in 1..Chunks |-> "chunk"] \o <<"eos">>
    IN  IF ~fd THEN {<<"request", "response">>}
        ELSE {<<"request">> \o upload \o <<"response">>,
              upload \o <<"request", "response">>}

ExtInit ==
    /\ cfg \in [fullDuplex : BOOLEAN, responseHeaders : BOOLEAN]
    /\ todo \in HookOrders(cfg.fullDuplex)
    /\ phase = "begin" /\ outcome = "none" /\ waited = 0
    /\ exch = NoExchange /\ chan = <<>> /\ rx = TRUE /\ inbox = <<>> /\ srv = "open"
    /\ answers = 0 /\ streamed = 0 /\ forward = Original /\ heard = <<>> /\ taken = <<>>

-----------------------------------------------------------------------------
(***************************************************************************)
(* The exchange: sending.                                                    *)
(***************************************************************************)
NewExchange ==
    [boot |-> "unpolled", tx |-> TRUE, first |-> FALSE, terminal |-> FALSE,
     complete |-> FALSE, active |-> NoActive,
     send |-> [req |-> "none", resp |-> "none"], bodySent |-> FALSE,
     out |-> [req |-> "none", resp |-> "none"]]

\* Ordering, body mode and exclusive active processing.
SendAllowed(e, m) ==
    /\ e.send[m.dir] \in (IF m.kind = "headers" THEN {"none"} ELSE {"headers", "open"})
    /\ FullDuplex(m.dir) \/ e.active = NoActive

\* The phase, and the expectation of an answer by a deadline.
apply_send_transition(e, m) ==
    [e EXCEPT !.first = TRUE,
              !.send[m.dir] = CASE m.kind = "headers" -> "headers"
                                [] m.kind = "body" /\ m.chunk = 0 -> "eos"
                                [] OTHER -> "open",
              !.bodySent = @ \/ m.kind = "body",
              !.active = IF FullDuplex(m.dir) THEN @
                         ELSE [expected |-> m, deadline |-> waited + MessageTimeout,
                               overridden |-> FALSE]]

(***************************************************************************)
(* The exchange: receiving.                                                  *)
(***************************************************************************)
\* Defect: a processor may extend the deadline of one message again and again.
try_accept_override_always(e, t) ==
    IF e.active = NoActive \/ MaxMessageTimeout = 0 \/ t = 0 THEN e
    ELSE [e EXCEPT !.active.deadline =
                      waited + (IF t < MaxMessageTimeout THEN t ELSE MaxMessageTimeout)]

\* One override per message, clamped; anything else is ignored.
try_accept_override(e, t) ==
    IF e.active = NoActive \/ e.active.overridden \/ MaxMessageTimeout = 0 \/ t = 0
    THEN e
    ELSE [e EXCEPT !.active.deadline =
                      waited + (IF t < MaxMessageTimeout THEN t ELSE MaxMessageTimeout),
                   !.active.overridden = TRUE]

\* A matching message was committed (full duplex) or is being waited for.
Solicited(e, m) ==
    IF FullDuplex(m.dir)
    THEN CASE m.kind = "headers" -> e.send[m.dir] # "none"
           [] m.kind = "body" -> e.bodySent
           [] OTHER -> FALSE
    ELSE e.active.expected = m

\* The answers of a direction come in order, and none after its end.
OutputAllowed(e, m) ==
    CASE m.kind = "headers" -> e.out[m.dir] = "none"
      [] m.kind = "body" -> e.out[m.dir] \in {"headers", "open"} /\ m.mutation # "plain"
      [] OTHER -> e.out[m.dir] \in {"headers", "open"}

\* Is an answer one that receive hands out.
Acceptable(e, m) ==
    IF m = Immediate THEN e.first ELSE Solicited(e, m) /\ OutputAllowed(e, m)

Received(e, m) ==
    IF m = Immediate THEN [e EXCEPT !.active = NoActive, !.terminal = TRUE]
    ELSE [e EXCEPT !.out[m.dir] = CASE m.kind = "headers" -> "headers"
                                    [] m.kind = "body" /\ m.mutation = "eos" -> "done"
                                    [] OTHER -> "open",
                   !.active = IF @.expected = m THEN NoActive ELSE @]

finish_sending(e) == [e EXCEPT !.tx = FALSE]

-----------------------------------------------------------------------------
(***************************************************************************)
(* How a hook ends.                                                          *)
(***************************************************************************)
Continue(e) ==
    /\ todo' = Tail(todo) /\ phase' = (IF Len(todo) = 1 THEN "delivered" ELSE "begin")
    /\ exch' = e /\ waited' = 0 /\ outcome' = "none"

\* status_on_error or the processor's own response: the exchange is dropped.
Reject ==
    /\ phase' = "rejected" /\ exch' = NoExchange /\ waited' = 0 /\ outcome' = "none"
    /\ UNCHANGED todo

\* finish_sending and drain_trailing, the hook's result being known: for a time
\* of its own (bounded_cleanup), or within the lifecycle timeout (the body's end).
Trail(e, result) ==
    IF Hook # "eos" /\ DeferredClose = 0
    THEN IF result = "continue" THEN Continue(NoExchange) ELSE Reject
    ELSE /\ phase' = "trail" /\ outcome' = result /\ exch' = finish_sending(e)
         /\ waited' = IF Hook = "eos" THEN waited ELSE 0
         /\ UNCHANGED todo

\* Defect: a failed answer to the request headers lets the request go on.
FailOpen(e) ==
    CASE Hook = "eos" /\ e.out["req"] # "none" -> Trail(e, "reject")
      [] Hook = "request" -> Continue(e)
      [] OTHER -> Reject

\* An error of receive, or an answer the hook has no use for.
Fail(e) ==
    IF Hook = "eos" /\ e.out["req"] # "none" THEN Trail(e, "reject") ELSE Reject

(***************************************************************************)
(* The hooks.                                                                *)
(***************************************************************************)
\* A new exchange with the request headers in its channel, not polled yet.
OpenWithHeaders ==
    /\ exch' = apply_send_transition(NewExchange, Header("req"))
    /\ chan' = <<Header("req")>> /\ inbox' = <<>> /\ rx' = TRUE /\ srv' = "open"
    /\ UNCHANGED <<answers, streamed, heard>>

ensure_exchange_and_send_headers ==
    IF exch = NoExchange THEN OpenWithHeaders ELSE UNCHANGED <<exch, chan, inbox, wire>>

\* on_request with a full-duplex body: no answer is awaited.
OnRequestFullDuplex ==
    /\ phase = "begin" /\ Hook = "request" /\ cfg.fullDuplex
    /\ ensure_exchange_and_send_headers
    /\ todo' = Tail(todo) /\ UNCHANGED <<cfg, phase, outcome, waited, forward, taken>>

\* on_request_body: a chunk, or the end of the body.
OnRequestBody ==
    /\ phase = "begin" /\ Hook \in {"chunk", "eos"}
    /\ ensure_exchange_and_send_headers
    /\ phase' = "send" /\ UNCHANGED <<cfg, todo, outcome, waited, forward, taken>>

\* on_request without the body: the channel is empty, the headers go in at once.
OnRequestHeaders ==
    /\ phase = "begin" /\ Hook = "request" /\ ~cfg.fullDuplex
    /\ OpenWithHeaders
    /\ phase' = "recv" /\ UNCHANGED <<cfg, todo, outcome, waited, forward, taken>>

\* on_response: nothing to do, no exchange or an unfinished one, or a send.
OnResponse ==
    /\ phase = "begin" /\ Hook = "response"
    /\ IF ~cfg.responseHeaders THEN Continue(exch)
       ELSE IF exch = NoExchange \/ ~exch.complete THEN Reject
       ELSE phase' = "send" /\ UNCHANGED <<todo, outcome, waited, exch>>
    /\ UNCHANGED <<cfg, chan, inbox, wire, forward, taken>>

UploadLeft == SelectSeq(todo, LAMBDA h : h = "chunk")
Outgoing == CASE Hook = "chunk" -> Body(Chunks - Len(UploadLeft) + 1)
              [] Hook = "eos" -> Body(0)
              [] Hook = "response" -> Header("resp")

\* send: the channel has room.  The drain's timer starts after the end marker.
Send ==
    /\ phase = "send" /\ rx /\ chan = <<>> /\ ~exch.terminal /\ exch.tx
    /\ SendAllowed(exch, Outgoing)
    /\ chan' = <<Outgoing>>
    /\ LET e == apply_send_transition(exch, Outgoing)
       IN  IF Hook = "chunk" THEN Continue(e)
           ELSE /\ phase' = "recv" /\ exch' = e
                /\ waited' = (IF Hook = "eos" THEN 0 ELSE waited)
                /\ UNCHANGED <<todo, outcome>>
    /\ UNCHANGED <<cfg, inbox, wire, forward, taken>>

\* send: out of order, or the channel is closed, after which the end of the
\* body goes on to the answers.
SendFails ==
    /\ phase = "send" /\ (~rx \/ exch.terminal \/ ~exch.tx \/ ~SendAllowed(exch, Outgoing))
    /\ IF Hook = "eos" /\ (exch.terminal \/ SendAllowed(exch, Outgoing))
       THEN /\ phase' = "recv" /\ exch' = finish_sending(exch) /\ waited' = 0
            /\ UNCHANGED <<todo, outcome>>
       ELSE Reject
    /\ UNCHANGED <<cfg, chan, inbox, wire, forward, taken>>

SendBlocked == phase = "send" /\ rx /\ chan # <<>>
Waiting == SendBlocked \/ phase = "recv"

\* The Process call is driven only while a hook waits, and may fail or succeed.
Poll ==
    /\ Waiting /\ exch.boot = "unpolled" /\ exch' = [exch EXCEPT !.boot = "pending"]
    /\ UNCHANGED <<cfg, todo, phase, outcome, waited, chan, inbox, wire, forward, taken>>

ProcessReady ==
    /\ Waiting /\ exch.boot = "pending" /\ exch' = [exch EXCEPT !.boot = "ready"]
    /\ UNCHANGED <<cfg, todo, phase, outcome, waited, chan, inbox, wire, forward, taken>>

ProcessFails ==
    /\ Waiting /\ exch.boot = "pending" /\ Reject
    /\ UNCHANGED <<cfg, chan, inbox, wire, forward, taken>>

(***************************************************************************)
(* The answers.                                                              *)
(***************************************************************************)
\* The body that the processor has streamed in the answers s.
StreamedBody(s) ==
    LET got == SelectSeq(s, LAMBDA a : a.kind = "body" /\ a.chunk # 0)
    IN  [i \in DOMAIN got |-> got[i].chunk]

\* The body hook's answers: chunks replace the body once one ends it, or one
\* without a mutation does.
OnBodyAnswer(e, m) ==
    LET new == StreamedBody(Append(taken, m))
        last == m.mutation \in {"eos", "absent"}
    IN  IF Len(new) > MaxBody
        THEN Trail(e, "reject") /\ UNCHANGED forward
        ELSE IF ~last THEN exch' = e /\ UNCHANGED <<todo, phase, outcome, waited, forward>>
        ELSE /\ forward' = IF new = <<>> THEN forward ELSE new
             /\ IF cfg.responseHeaders
                THEN Continue([e EXCEPT !.complete = TRUE]) ELSE Trail(e, "continue")

\* What the hook does with an answer that receive has accepted.
OnAnswer(e, m) ==
    IF m.kind = "body" /\ Hook = "eos"
    THEN OnBodyAnswer(e, m) /\ taken' = Append(taken, m)
    ELSE /\ taken' = (IF m.kind = "body" THEN taken ELSE Append(taken, m))
         /\ UNCHANGED forward
         /\ CASE m = Immediate -> Trail(e, "reject")
              [] m = Header("req") /\ Hook = "eos" ->
                    exch' = e /\ UNCHANGED <<todo, phase, outcome, waited>>
              [] m = Header("req") /\ Hook = "request" ->
                    IF cfg.responseHeaders
                    THEN Continue([e EXCEPT !.complete = TRUE]) ELSE Trail(e, "continue")
              [] m = Header("resp") /\ Hook = "response" -> Trail(e, "continue")
              [] OTHER -> Fail(e)

\* An override envelope is consumed and the next answer is read.
ReceiveOverride ==
    /\ phase = "recv" /\ exch.boot = "ready" /\ inbox # <<>> /\ Head(inbox).kind = "override"
    /\ inbox' = Tail(inbox) /\ exch' = try_accept_override(exch, Head(inbox).time)
    /\ UNCHANGED <<cfg, todo, phase, outcome, waited, chan, wire, forward, taken>>

ReceiveAnswer ==
    /\ phase = "recv" /\ exch.boot = "ready" /\ inbox # <<>> /\ Head(inbox).kind # "override"
    /\ inbox' = Tail(inbox)
    /\ LET m == Head(inbox)
       IN  IF Acceptable(exch, m)
           THEN OnAnswer(Received(exch, m), m)
           ELSE Fail(exch) /\ UNCHANGED <<forward, taken>>
    /\ UNCHANGED <<cfg, chan, wire>>

\* The stream ended or broke.
ReceiveEnd ==
    /\ phase = "recv" /\ exch.boot = "ready" /\ inbox = <<>> /\ srv # "open"
    /\ Fail(exch) /\ UNCHANGED <<cfg, chan, inbox, wire, forward, taken>>

\* drain_trailing reads whatever still comes until the stream ends.
DrainTrailing ==
    /\ phase = "trail" /\ inbox # <<>> /\ inbox' = <<>>
    /\ UNCHANGED <<cfg, todo, phase, outcome, waited, exch, chan, wire, forward, taken>>

TrailEnds ==
    /\ phase = "trail" /\ inbox = <<>> /\ srv # "open"
    /\ IF outcome = "continue" THEN Continue(NoExchange) ELSE Reject
    /\ UNCHANGED <<cfg, chan, inbox, wire, forward, taken>>

-----------------------------------------------------------------------------
(***************************************************************************)
(* Timers, polled after what they guard.                                     *)
(***************************************************************************)
Blocked == \/ SendBlocked
           \/ /\ phase \in {"recv", "trail"}
              /\ exch.boot = "ready" => inbox = <<>> /\ srv = "open"

\* The deadline of the message that is waited for, or of the send.
MessageDue ==
    \/ phase = "recv" /\ exch.active # NoActive /\ waited >= exch.active.deadline
    \/ phase = "send" /\ Hook = "response" /\ waited >= MessageTimeout
LifecycleDue == Hook = "eos" /\ phase \in {"recv", "trail"} /\ waited >= LifecycleTimeout
CleanupDue == Hook # "eos" /\ phase = "trail" /\ waited >= DeferredClose

MessageTimesOut == /\ Blocked /\ MessageDue /\ Reject
                   /\ UNCHANGED <<cfg, chan, inbox, wire, forward, taken>>

LifecycleTimesOut == /\ Blocked /\ LifecycleDue /\ Reject
                     /\ UNCHANGED <<cfg, chan, inbox, wire, forward, taken>>

\* bounded_cleanup gives up and the hook returns what it had.
CleanupTimesOut ==
    /\ Blocked /\ CleanupDue
    /\ IF outcome = "continue" THEN Continue(NoExchange) ELSE Reject
    /\ UNCHANGED <<cfg, chan, inbox, wire, forward, taken>>

ExtTick ==
    /\ Blocked /\ exch.boot # "unpolled" /\ waited < MaxWait
    /\ ~MessageDue /\ ~LifecycleDue /\ ~CleanupDue
    /\ waited' = waited + 1
    /\ UNCHANGED <<cfg, todo, phase, outcome, exch, chan, inbox, wire, forward, taken>>

(***************************************************************************)
(* The processor and the connection to it.                                   *)
(***************************************************************************)
Connected == exch.boot \in {"pending", "ready"} /\ srv = "open"

Transmit ==
    /\ Connected /\ chan # <<>> /\ rx
    /\ chan' = <<>> /\ heard' = Append(heard, Head(chan))
    /\ UNCHANGED <<cfg, todo, phase, outcome, waited, exch, rx, inbox, srv, answers, streamed,
                   forward, taken>>

Answer(m) ==
    /\ Connected /\ answers < MaxAnswers /\ Len(inbox) < Window
    /\ inbox' = Append(inbox, m) /\ answers' = answers + 1
    /\ streamed' = streamed + (IF m.kind = "body" /\ m.chunk # 0 THEN 1 ELSE 0)
    /\ UNCHANGED <<cfg, todo, phase, outcome, waited, exch, chan, rx, srv, forward, heard,
                   taken>>

StreamEnds ==
    /\ Connected /\ srv' \in {"ended", "failed"}
    /\ UNCHANGED <<cfg, todo, phase, outcome, waited, exch, chan, rx, inbox, answers, streamed,
                   forward, heard, taken>>

\* The connection drops the channel's receiver once the stream is over.
ReceiverDropped ==
    /\ srv # "open" /\ rx /\ exch # NoExchange /\ rx' = FALSE
    /\ UNCHANGED <<cfg, todo, phase, outcome, waited, exch, chan, inbox, srv, answers, streamed,
                   forward, heard, taken>>

GatewayStep ==
    \/ OnRequestFullDuplex \/ OnRequestBody \/ OnRequestHeaders \/ OnResponse
    \/ Send \/ SendFails \/ Poll
    \/ ReceiveOverride \/ ReceiveAnswer \/ ReceiveEnd \/ DrainTrailing \/ TrailEnds
    \/ MessageTimesOut \/ LifecycleTimesOut \/ CleanupTimesOut

ExtNext ==
    \/ GatewayStep \/ ExtTick \/ Transmit
    \/ ProcessReady \/ ProcessFails \/ StreamEnds \/ ReceiverDropped
    \/ \E m \in Answers : Answer(m)

\* The runtime polls what is ready, time passes, and a stream that is over closes
\* its channel; nothing is assumed of the processor or of the network.
ExtSpec == ExtInit /\ [][ExtNext]_extVars
ExtFairSpec == /\ ExtSpec
               /\ WF_extVars(GatewayStep) /\ WF_extVars(ExtTick) /\ WF_extVars(ReceiverDropped)

-----------------------------------------------------------------------------
(***************************************************************************)
(* A request goes upstream only after the processor has answered all of it,  *)
(* and then with the body the processor gave: what it streamed, whole and in *)
(* order, or the client's.  A response goes to the client only after its     *)
(* headers were answered.  However the processor misbehaves.                 *)
(***************************************************************************)
BodyAnswers == SelectSeq(taken, LAMBDA m : m.kind = "body")
StreamedChunks == SelectSeq(BodyAnswers, LAMBDA m : m.chunk # 0)

AnswersNeeded ==
    /\ Len(todo) <= 1 =>
          /\ taken # <<>> /\ taken[1] = Header("req")
          /\ phase \in {"begin", "delivered"} => Immediate \notin ToSet(taken)
          /\ cfg.fullDuplex =>
                /\ BodyAnswers # <<>>
                /\ \E m \in ToSet(BodyAnswers) : m.mutation \in {"eos", "absent"}
          /\ forward = IF StreamedChunks = <<>> \/ ~cfg.fullDuplex THEN Original
                    ELSE [i \in 1..Len(StreamedChunks) |-> i]
    /\ phase = "delivered" /\ cfg.responseHeaders => Header("resp") \in ToSet(taken)

\* The processor reads the request in order: the headers once, every chunk of
\* the body once, one end, and then the response headers; never part of it twice.
HeardInOrder ==
    IsPrefix(heard, <<Header("req")>>
                    \o (IF cfg.fullDuplex THEN [i \in 1..Chunks |-> Body(i)] \o <<Body(0)>>
                        ELSE <<>>)
                    \o <<Header("resp")>>)

\* Nothing goes on unless the processor has answered it, and the processor reads
\* the request once and in order.
FailClosed == AnswersNeeded /\ HeardInOrder

\* No wait for an answer, and no cleanup, is longer than its timers allow, with
\* at most one extension of a message's deadline, whatever the processor sends.
WaitsBounded ==
    /\ phase = "recv" /\ Hook = "request" => waited <= MessageTimeout + MaxMessageTimeout
    /\ phase \in {"send", "recv"} /\ Hook = "response" =>
          waited <= 2 * MessageTimeout + MaxMessageTimeout
    /\ phase \in {"recv", "trail"} /\ Hook = "eos" => waited <= LifecycleTimeout
    /\ phase = "trail" /\ Hook # "eos" => waited <= DeferredClose

\* lib.rs says of status_on_error that it is returned "when the external
\* processor returns an error, fails to respond, or cannot be reached": a request
\* is decided in the end even if the processor is silent.
SilenceIsRejected == <>(phase \in {"rejected", "delivered"})
=============================================================================
