------------------------------ MODULE A2aCapture ------------------------------
(***************************************************************************)
(* Capture of a task route from a buffered (non-streaming) A2A reply         *)
(* (filters/src/agentic/a2a/mod.rs): the body arrives in chunks cut          *)
(* anywhere; a bracket scanner, whose state is kept between the chunks,      *)
(* guesses when the reply is complete, so that it is parsed once; a parsed   *)
(* reply is held back until the stream ends with nothing behind it.          *)
(* Bytes are abstracted to the structural ones, "w" (white space), "x"       *)
(* (content that is fine inside a document) and "b" (content that makes the  *)
(* document unparseable unless it is inside a string).                       *)
(***************************************************************************)
EXTENDS Integers, FiniteSets, Sequences, SequencesExt, FiniteSetsExt

CONSTANTS
    Bodies,     \* the reply bodies of this instance
    MaxBytes    \* max_response_body_bytes

VARIABLES
    body,      \* the reply, as the backend sends it
    pos,       \* bytes of it delivered so far
    cap,       \* the a2a.response.* metadata: the capture state
    done,      \* "no", "eos", or "aborted"
    stored     \* a route was written to the store

vars == <<body, pos, cap, done, stored>>

NewScan == [stack |-> <<>>, started |-> FALSE, inString |-> FALSE,
            escaped |-> FALSE, invalid |-> FALSE]

Cleared == [enabled |-> FALSE, buf |-> <<>>, scan |-> NewScan,
            tentative |-> FALSE]

Init ==
    /\ body \in Bodies /\ pos = 0 /\ done = "no" /\ stored = FALSE
    /\ cap = [Cleared EXCEPT !.enabled = TRUE]

-----------------------------------------------------------------------------
is_complete(s) == s.started /\ ~s.invalid /\ s.stack = <<>>

Closer(b) == IF b = "{" THEN "}" ELSE "]"

(* One byte of scan_json_balance; a finished scan ignores the rest. *)
ScanByte(s, b) ==
    IF is_complete(s) \/ s.invalid THEN s
    ELSE IF s.escaped THEN [s EXCEPT !.escaped = FALSE]
    ELSE IF s.inString
      THEN [s EXCEPT !.escaped = (b = "esc"), !.inString = (b # "quote")]
    ELSE IF b = "quote" THEN [s EXCEPT !.inString = TRUE]
    ELSE IF b \in {"{", "["}
      THEN [s EXCEPT !.started = TRUE, !.stack = Append(@, Closer(b))]
    ELSE IF b \notin {"}", "]"} THEN s
    ELSE IF s.stack # <<>> /\ Last(s.stack) = b
      THEN [s EXCEPT !.stack = Front(@)]
    ELSE [s EXCEPT !.invalid = TRUE]

scan_json_balance(s, chunk) == FoldLeft(ScanByte, s, chunk)

(***************************************************************************)
(* External: serde_json.  A document is one object or array, with nothing    *)
(* but white space around it; brackets match outside strings.                *)
(***************************************************************************)
Quotes(s) ==
    {p \in DOMAIN s : s[p] = "quote"
        /\ LET run == CHOOSE n \in 0..(p - 1) :
                        /\ \A i \in (p - n)..(p - 1) : s[i] = "esc"
                        /\ p - n = 1 \/ s[p - n - 1] # "esc"
           IN  run % 2 = 0}

Outside(s) ==
    {p \in DOMAIN s \ Quotes(s) : Cardinality({q \in Quotes(s) : q < p}) % 2 = 0}

Depth(s, p) ==
    Cardinality({i \in Outside(s) : i <= p /\ s[i] \in {"{", "["}})
    - Cardinality({i \in Outside(s) : i <= p /\ s[i] \in {"}", "]"}})

Parses(s) ==
    LET text == {p \in DOMAIN s : s[p] # "w"}
        first == Min(text)
        last == Max(text)
        opens(i, j) == \* the bracket at i is closed by the one at j
            /\ j \in Outside(s) /\ s[j] \in {"}", "]"} /\ j > i
            /\ Depth(s, j) = Depth(s, i) - 1
            /\ \A k \in i..(j - 1) : Depth(s, k) >= Depth(s, i)
    IN  /\ text # {} /\ s[first] \in {"{", "["}
        /\ Cardinality(Quotes(s)) % 2 = 0
        /\ \A p \in Outside(s) : s[p] \notin {"b", "esc"}
        /\ \A p \in first..(last - 1) : Depth(s, p) > 0
        /\ Depth(s, last) = 0
        /\ \A i, j \in Outside(s) :
              s[i] \in {"{", "["} /\ opens(i, j) => s[j] = Closer(s[i])

(* Every parsed body of this model carries a task: extract_task_route. *)
Stores(s) == Parses(s) /\ s[Min({p \in DOMAIN s : s[p] # "w"})] = "{"

-----------------------------------------------------------------------------
Blank(chunk) == \A i \in DOMAIN chunk : chunk[i] = "w"

(***************************************************************************)
(* handle_pending_tentative: a held reply is discarded if anything but white *)
(* space follows and committed at the end of the stream.                     *)
(***************************************************************************)
PendingTentative(chunk, eos) ==
    [cap |-> IF ~Blank(chunk) \/ eos THEN Cleared ELSE cap,
     commit |-> Blank(chunk) /\ eos /\ Stores(cap.buf)]

(***************************************************************************)
(* handle_non_streaming_capture past that point: accumulate within the byte  *)
(* limit, scan, then give up, hold the parsed reply, commit it, or wait.     *)
(***************************************************************************)
Accumulating(chunk, eos) ==
    LET buf == cap.buf \o chunk
        scan == scan_json_balance(cap.scan, chunk)
        kept == [cap EXCEPT !.buf = buf, !.scan = scan]
        gone == [cap |-> Cleared, commit |-> FALSE]
    IN  CASE Len(buf) > MaxBytes -> gone
          [] Len(buf) <= MaxBytes /\ scan.invalid -> gone
          [] Len(buf) <= MaxBytes /\ is_complete(scan) /\ ~eos ->
               IF Parses(buf)
                 THEN [cap |-> [kept EXCEPT !.tentative = TRUE], commit |-> FALSE]
                 ELSE gone
          [] Len(buf) <= MaxBytes /\ ~scan.invalid /\ eos ->
               [cap |-> Cleared, commit |-> Stores(buf)]
          [] OTHER -> [cap |-> kept, commit |-> FALSE]

(* on_response_body with the next n bytes. *)
OnResponseBody(n, eos) ==
    LET chunk == SubSeq(body, pos + 1, pos + n)
        r == IF ~cap.enabled THEN [cap |-> cap, commit |-> FALSE]
             ELSE IF cap.tentative THEN PendingTentative(chunk, eos)
             ELSE Accumulating(chunk, eos)
    IN  /\ done = "no" /\ pos + n <= Len(body)
        /\ eos => pos + n = Len(body)
        /\ pos' = pos + n
        /\ cap' = r.cap
        /\ stored' = (stored \/ r.commit)
        /\ done' = IF eos THEN "eos" ELSE "no"
        /\ UNCHANGED body

(* External: the connection breaks before the reply has ended. *)
Abort ==
    /\ done = "no"
    /\ done' = "aborted"
    /\ UNCHANGED <<body, pos, cap, stored>>

Next ==
    \/ \E n \in 0..Len(body), eos \in BOOLEAN : OnResponseBody(n, eos)
    \/ Abort

Spec == Init /\ [][Next]_vars

-----------------------------------------------------------------------------
(***************************************************************************)
(* A route is stored only from a reply that ended and that parses as a       *)
(* whole: never from a valid prefix of one, however it was cut ("This        *)
(* prevents a valid JSON prefix followed by trailing garbage from poisoning  *)
(* task-route ownership", mod.rs).                                           *)
(***************************************************************************)
NeverPoisoned == stored => done = "eos" /\ Stores(body)

(***************************************************************************)
(* Every reply within the byte limit that ended and parses is captured: the  *)
(* bracket scanner is only a guess, but giving up on its word is always safe *)
(* ("a balanced-but-invalid buffer cannot be salvaged by later bytes").      *)
(***************************************************************************)
ValidCaptured ==
    done = "eos" /\ Len(body) <= MaxBytes /\ Stores(body) => stored
==============================================================================
