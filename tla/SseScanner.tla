------------------------------ MODULE SseScanner ------------------------------
(***************************************************************************)
(* The incremental event-stream scanner (filters/src/agentic/a2a/sse.rs)    *)
(* that the A2A, token_usage and time_to_first_token filters run over        *)
(* response chunks.  The response arrives in chunks cut anywhere; the        *)
(* scanner keeps its state between two calls and hands out the payloads of   *)
(* the events that ended.  Bytes are abstracted to four: the two line        *)
(* terminators, "data" for the field name with its colon (a whole prefix is  *)
(* one byte here) and "x" for any other byte.                                *)
(***************************************************************************)
EXTENDS Naturals, FiniteSets, Sequences, SequencesExt, FiniteSetsExt

CONSTANTS
    MaxScratch,    \* max_scratch_bytes: what one event may hold in memory
    ChunkMax,      \* the longest chunk; a chunk may be empty
    StreamLimit    \* bound: bytes of one response

VARIABLES
    state,     \* SseScanState
    payloads,  \* every payload handed to the caller so far
    dropped,   \* events discarded so far (dropped_events, summed)
    stream,    \* the bytes received so far
    parted,    \* history: an empty chunk came between a CR and byte n of stream
    done       \* end_of_stream was seen

vars == <<state, payloads, dropped, stream, parted, done>>

Bytes == {"data", "x", "cr", "lf"}

Frames == UNION {[1..n -> Bytes] : n \in 0..ChunkMax}

NewLine(b) == b \in {"cr", "lf"}

InitialState ==
    [line |-> <<>>, data |-> <<>>, hasData |-> FALSE, prevCr |-> FALSE,
     skip |-> "no", tail |-> "payload"]

(***************************************************************************)
(* One complete line: a blank one dispatches the event, a data line adds its *)
(* value to it, any other line is ignored.  A result is the scanner's        *)
(* record and what it handed out.                                            *)
(***************************************************************************)
process_line(r) ==
    LET s == r.s
        l == s.line
        sep == IF s.hasData THEN <<"lf">> ELSE <<>>
    IN  IF l = <<>> /\ s.hasData
          THEN [r EXCEPT !.out = Append(@, s.data),
                         !.s = [s EXCEPT !.data = <<>>, !.hasData = FALSE,
                                         !.tail = "payload"]]
        ELSE IF l # <<>> /\ Head(l) = "data"
          THEN [r EXCEPT !.s = [s EXCEPT !.data = @ \o sep \o Tail(l),
                                         !.hasData = TRUE, !.line = <<>>]]
        ELSE [r EXCEPT !.s.line = <<>>]

(***************************************************************************)
(* The bound: an event that outgrew the scratch space is dropped, and what   *)
(* follows of it is skipped without being kept.                              *)
(***************************************************************************)
Enforce(r, b) ==
    IF Len(r.s.line) + Len(r.s.data) > MaxScratch
      THEN [r EXCEPT !.lost = @ + 1,
                     !.s = [r.s EXCEPT !.line = <<>>, !.data = <<>>,
                                       !.hasData = FALSE, !.tail = "dropped",
                                       !.skip = IF NewLine(b) THEN "empty"
                                                ELSE "content"]]
      ELSE r

(* The line feed of a CRLF pair, which may be cut between two chunks. *)
\* Defect: a pair cut between two chunks counts twice.
SecondHalfInChunk(s, chunk, i) ==
    chunk[i] = "lf" /\ i > 1 /\ chunk[i - 1] = "cr"
SecondHalf(s, chunk, i) ==
    /\ chunk[i] = "lf"
    /\ IF i = 1 THEN s.prevCr ELSE chunk[i - 1] = "cr"

(* Skipping ends at the blank line that ends the oversized event. *)
SkipByte(s, b) ==
    [s EXCEPT !.skip = CASE s.skip = "empty" /\ NewLine(b) -> "no"
                         [] s.skip = "content" /\ NewLine(b) -> "empty"
                         [] OTHER -> "content"]

(* One turn of the byte loop; a byte that ends skipping is not a line. *)
ScanByte(r, b) ==
    IF r.s.skip # "no" THEN [r EXCEPT !.s = SkipByte(r.s, b)]
    ELSE Enforce(IF NewLine(b) THEN process_line(r)
                 ELSE [r EXCEPT !.s.line = Append(@, b)], b)

scan_sse_chunk(s, chunk) ==
    LET start == [s |-> s, out |-> <<>>, lost |-> 0]
        step(r, i) == IF SecondHalf(s, chunk, i) THEN r
                      ELSE ScanByte(r, chunk[i])
        end == FoldLeft(step, start, [i \in 1..Len(chunk) |-> i])
    IN  [end EXCEPT !.s.prevCr = chunk # <<>> /\ Last(chunk) = "cr"]

(* End of the stream: an unfinished line and the pending event are given out.*)
flush_sse_state(s) ==
    LET r0 == [s |-> s, out |-> <<>>, lost |-> 0]
        r1 == IF s.line = <<>> THEN r0 ELSE process_line(r0)
    IN  process_line(r1)

-----------------------------------------------------------------------------
Init ==
    /\ state = InitialState
    /\ payloads = <<>> /\ dropped = 0 /\ done = FALSE
    /\ stream = <<>> /\ parted = {}

(* on_response_body with a chunk: load the state, scan, keep the state. *)
Chunk(c) ==
    LET r == scan_sse_chunk(state, c)
    IN  /\ ~done /\ Len(stream) + Len(c) <= StreamLimit
        /\ state' = r.s /\ payloads' = payloads \o r.out
        /\ dropped' = dropped + r.lost
        /\ stream' = stream \o c
        /\ parted' = IF c = <<>> /\ state.prevCr THEN parted \cup {Len(stream) + 1}
                     ELSE parted
        /\ UNCHANGED done

(* end_of_stream: what is pending is flushed and the capture state cleared. *)
EndOfStream ==
    LET r == flush_sse_state(state)
    IN  /\ ~done
        /\ state' = r.s /\ payloads' = payloads \o r.out
        /\ done' = TRUE
        /\ UNCHANGED <<dropped, stream, parted>>

Next == (\E c \in Frames : Chunk(c)) \/ EndOfStream

Spec == Init /\ [][Next]_vars

-----------------------------------------------------------------------------
(***************************************************************************)
(* The reference: what the stream says, read as a whole.  Normal turns every *)
(* terminator into one line feed, and a CRLF pair into one too, unless an    *)
(* empty chunk came between its halves: scan_sse_chunk forgets the CR on     *)
(* every call (sse.rs:164), so that its LF ends another line.  An event is   *)
(* what lies between two blank lines; its value is the values of its data    *)
(* lines joined by line feeds.                                               *)
(***************************************************************************)
Ordered(S) ==
    SelectSeq([i \in 1..(StreamLimit + 5) |-> i - 1], LAMBDA i : i \in S)

Normal(s) ==
    LET pair(i) == s[i] = "lf" /\ i > 1 /\ s[i - 1] = "cr" /\ i \notin parted
        kept == {i \in DOMAIN s : ~pair(i)}
        order == Ordered(kept)
    IN  [k \in 1..Cardinality(kept) |->
            IF NewLine(s[order[k]]) THEN "lf" ELSE s[order[k]]]

Blanks(n) == {i \in DOMAIN n : n[i] = "lf" /\ (i = 1 \/ n[i - 1] = "lf")}

(* The events of a normalised stream, the unfinished one last. *)
Events(n) ==
    LET cuts == Ordered(Blanks(n) \cup {0, Len(n) + 1})
    IN  [k \in 1..(Len(cuts) - 1) |-> SubSeq(n, cuts[k] + 1, cuts[k + 1] - 1)]

DataStarts(e) ==
    {i \in DOMAIN e : e[i] = "data" /\ (i = 1 \/ e[i - 1] = "lf")}

(* Positions of the data lines, without terminators and the first prefix. *)
Value(e) ==
    LET inData(i) == \E d \in DataStarts(e) :
                        d <= i /\ \A j \in d..i : e[j] # "lf"
        kept == {i \in DOMAIN e : inData(i)} \ {Min(DataStarts(e) \cup {Len(e) + 1})}
        order == Ordered(kept)
    IN  [k \in 1..Cardinality(kept) |->
            IF order[k] \in DataStarts(e) THEN "lf" ELSE e[order[k]]]

(* Some prefix needs more than the scratch space: the finished lines' value  *)
(* and the line under way.                                                   *)
Oversized(e) ==
    \E q \in DOMAIN e :
        LET last == Max({i \in 1..q : e[i] = "lf"} \cup {0})
        IN  Len(Value(SubSeq(e, 1, last))) + (q - last) > MaxScratch

Seen == IF done THEN Normal(stream \o <<"lf", "lf", "lf">>) ELSE Normal(stream)

Dispatched(n) ==
    LET es == Events(n)
    IN  SelectSeq([k \in 1..(Len(es) - 1) |-> es[k]],
                  LAMBDA e : DataStarts(e) # {} /\ ~Oversized(e))

(***************************************************************************)
(* However the response is cut into chunks, empty ones included, the caller  *)
(* gets exactly the payloads of the stream's events, in order, less the      *)
(* oversized ones, and at the end of the stream the pending one too.  Of the *)
(* cuts only one kind shows: a CRLF pair with an empty chunk between its     *)
(* halves counts as two line ends (Normal), although the header of sse.rs    *)
(* says "Handles arbitrary chunk boundaries".                                *)
(***************************************************************************)
ChunkingInvisible ==
    LET ds == Dispatched(Seen) IN payloads = [k \in DOMAIN ds |-> Value(ds[k])]

(***************************************************************************)
(* An oversized event is dropped once and alone, and the tail tells whether  *)
(* the last thing the stream completed was such a drop: token_usage decides  *)
(* from it whether the usage it has is the final one.                        *)
(***************************************************************************)
DropsExact ==
    LET es == Events(Seen)
        acted == SelectSeq(es, LAMBDA e : Oversized(e) \/ DataStarts(e) # {})
        ended == IF Oversized(Last(es)) \/ acted = <<>> \/ DataStarts(Last(es)) = {}
                   THEN acted ELSE Front(acted)
    IN  /\ dropped = Cardinality({k \in DOMAIN acted : Oversized(acted[k])})
        /\ state.tail = IF ended # <<>> /\ Oversized(Last(ended))
                          THEN "dropped" ELSE "payload"

(***************************************************************************)
(* What the scanner holds between two calls never exceeds the scratch space, *)
(* and nothing of an event being skipped is held.                            *)
(***************************************************************************)
ScratchBounded ==
    /\ Len(state.line) + Len(state.data) <= MaxScratch
    /\ state.skip # "no" => state.line = <<>> /\ state.data = <<>>
==============================================================================
