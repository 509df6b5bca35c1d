---------------------------- MODULE RouteOverlay ----------------------------
(***************************************************************************)
(* Provider routing by an overlay file (filters/src/routing): the watcher    *)
(* thread that keeps the served snapshot in step with the file (overlay.rs), *)
(* and the requests that choose a candidate from the snapshot they loaded    *)
(* and bind their session to it (intelligent_route.rs, picker.rs,            *)
(* group_index.rs).                                                          *)
(*                                                                           *)
(* A document is what its parsing yields: its bytes stand for its content    *)
(* hash, rev for its semantic revision (NoRev in the legacy format).  There  *)
(* is one capability (kind and name).  Groups and counters belong to one;    *)
(* the table of bindings does not, it is keyed by the session alone: that a  *)
(* session of two capabilities rebinds at each turn, because the candidate   *)
(* of the other does not match, is left out.  Mode "random" stands for       *)
(* weighted_random too, weights being positive.                              *)
(***************************************************************************)
EXTENDS Naturals, Sequences, FiniteSets, FiniteSetsExt, Functions

CONSTANTS
    Docs,         \* what may be written: [bytes, rev, mode, cands]
    Unreadable,   \* a file that is missing or is not an overlay
    NoRev, Nothing,
    Requests, SessionKeys,
    MaxBindings,  \* MAX_BINDINGS
    BindingTtl,   \* the ttl of session_affinity
    QueueSize,    \* capacity of the watcher's channel
    MaxEdits, LastTime  \* bounds on edits of the file and on time

\* What overlay_to_candidates lets through: the candidates of a document have stable
\* ids of their own (validate_unique_stable_ids).  The watcher's channel has room.
Modes == {"round_robin", "deterministic", "random"}
CandidateIds == UNION {{d.cands[i].id : i \in DOMAIN d.cands} : d \in Docs}
Candidates == [id : CandidateIds, admission : {"new_and_existing", "existing_only", "excluded"},
               group : Nat \cup {Nothing}]
ASSUME OverlayAssumption ==
    /\ \A d \in Docs :
          /\ d.mode \in Modes /\ d.cands \in Seq(Candidates)
          /\ \A i, j \in DOMAIN d.cands : d.cands[i].id = d.cands[j].id => i = j
          /\ \A i \in DOMAIN d.cands : d.cands[i].id # Nothing
    /\ Unreadable \notin Docs /\ Nothing \notin Nat \cup SessionKeys
    /\ IsFiniteSet(Requests) /\ QueueSize \in Nat \ {0}
    /\ {MaxBindings, BindingTtl, MaxEdits, LastTime} \subseteq Nat

VARIABLES
    file,      \* content of the overlay file
    edits,
    raised,    \* the file system has an event for the watcher to report
    events,    \* events in the watcher's channel
    watcher,   \* where the watcher thread is, the content it has read, and
               \* whether the filter that waits for its first pass is ready
    snaps,     \* snapshots served so far; the last is the one served
    clock,
    bindings,  \* session key -> [id, expires]
    rq,        \* rq[r]: where the request is, its key, snapshot and candidate
    picks,     \* ghost: picks[e][id], choices while one revision is served
    bound,     \* ghost: <<key, id>> that were ever bound
    peak       \* ghost: most requests that had passed the table's check at once

overlayVars == <<file, edits, raised, events, watcher, snaps, clock, bindings, rq,
          picks, bound, peak>>

NoRequest == [at |-> "new", key |-> Nothing, snap |-> 0, id |-> Nothing, how |-> Nothing]

-----------------------------------------------------------------------------
(***************************************************************************)
(* Documents.                                                                *)
(***************************************************************************)
\* Either no candidate has a group, or the groups start at 0 and go up one at a
\* time, and a group has one admission state.
build(c) ==
    \/ \A i \in DOMAIN c : c[i].group = Nothing
    \/ /\ \A i \in DOMAIN c : c[i].group # Nothing
       /\ c[1].group = 0
       /\ \A i \in 2..Len(c) :
             \/ c[i].group = c[i - 1].group /\ c[i].admission = c[i - 1].admission
             \/ c[i].group = c[i - 1].group + 1

Accepted(f) == f # Unreadable /\ build(f.cands)

is_semantically_unchanged(current, candidate) ==
    current.rev # NoRev /\ candidate.rev = current.rev

Groups(d) == {d.cands[i].group : i \in DOMAIN d.cands} \ {Nothing}
Members(d, g) == {i \in DOMAIN d.cands : d.cands[i].group = g}

Snapshot(d, epoch) == [doc |-> d, next |-> [g \in Groups(d) |-> 0], epoch |-> epoch]
Served == snaps[Len(snaps)]

\* The document is served from now on.  A new epoch of the ghost begins when the
\* revision is another one.
Swap(d) ==
    LET same == d.rev # NoRev /\ d.rev = Served.doc.rev
    IN  /\ snaps' = Append(snaps, Snapshot(d, IF same THEN Served.epoch ELSE Len(picks) + 1))
        /\ picks' = IF same THEN picks ELSE Append(picks, [id \in CandidateIds |-> 0])

-----------------------------------------------------------------------------
(***************************************************************************)
(* The watcher.                                                              *)
(***************************************************************************)
Stage(stage) == watcher' = [watcher EXCEPT !.at = stage]

\* build_overlay_snapshot has read a valid file; the thread is not yet watching.
OverlayInit ==
    /\ file \in {d \in Docs : Accepted(d)}
    /\ edits = 0 /\ raised = FALSE /\ events = 0 /\ clock = 0 /\ peak = 0 /\ bound = {}
    /\ watcher = [at |-> "register", content |-> Nothing, ready |-> FALSE]
    /\ snaps = <<Snapshot(file, 1)>> /\ picks = <<[id \in CandidateIds |-> 0]>>
    /\ bindings = [k \in {} |-> 0]
    /\ rq = [r \in Requests |-> NoRequest]

\* The operator, or the producer of overlays, replaces the file.
Edit(f) ==
    /\ edits < MaxEdits /\ f # file
    /\ file' = f /\ edits' = edits + 1
    /\ raised' = (raised \/ watcher.at # "register")
    /\ UNCHANGED <<events, watcher, snaps, clock, bindings, rq, picks, bound, peak>>

\* The notify callback: a full channel drops the event.
Notify ==
    /\ raised /\ raised' = FALSE
    /\ events' = IF events < QueueSize THEN events + 1 ELSE events
    /\ UNCHANGED <<file, edits, watcher, snaps, clock, bindings, rq, picks, bound, peak>>

\* Defect: the watcher trusts the first read.
Register_no_reread ==
    watcher.at = "register" /\ watcher' = [watcher EXCEPT !.at = "wait", !.ready = TRUE]

\* setup_watcher; the file is read again before the filter is ready.
Register == watcher.at = "register" /\ Stage("read")

\* The loop's select!, and the debounce: what came meanwhile is drained.
Receive ==
    /\ watcher.at = "wait" /\ events > 0
    /\ events' = events - 1 /\ Stage("debounce")

Drain == watcher.at = "debounce" /\ events' = 0 /\ Stage("read")

ReadFile ==
    /\ watcher.at = "read"
    /\ watcher' = [watcher EXCEPT !.at = "apply", !.content = file]

\* handle_overlay_reload, with the content read.
Apply ==
    /\ watcher.at = "apply" /\ watcher' = [at |-> "wait", content |-> Nothing, ready |-> TRUE]
    /\ LET f == watcher.content
       IN  IF /\ Accepted(f) /\ f.bytes # Served.doc.bytes
              /\ ~is_semantically_unchanged(Served.doc, f)
           THEN Swap(f)
           ELSE UNCHANGED <<snaps, picks>>

\* The filter is dropped with its handle, no request being under way: the thread
\* ends at its next wait or in the debounce.
Cancelled ==
    /\ watcher.at \in {"wait", "debounce"} /\ Stage("stopped")
    /\ \A r \in Requests : rq[r].at \in {"new", "done"}

WatcherStep ==
    \/ /\ \/ Register \/ Cancelled \/ ReadFile
       /\ UNCHANGED <<file, edits, raised, events, snaps, clock, bindings, rq, picks,
                      bound, peak>>
    \/ /\ Receive \/ Drain
       /\ UNCHANGED <<file, edits, raised, snaps, clock, bindings, rq, picks, bound, peak>>
    \/ /\ Apply
       /\ UNCHANGED <<file, edits, raised, events, clock, bindings, rq, bound, peak>>

-----------------------------------------------------------------------------
(***************************************************************************)
(* A request: select_and_route.                                              *)
(***************************************************************************)
Moved(r, stage) == rq' = [rq EXCEPT ![r].at = stage]
Snap(r) == snaps[rq[r].snap]
Chosen(r) == CHOOSE i \in DOMAIN Snap(r).doc.cands : Snap(r).doc.cands[i].id = rq[r].id
Live(k) == k \in DOMAIN bindings /\ bindings[k].expires >= clock

\* The snapshot is loaded once, and the session key taken from the request.
Load(r, key) ==
    /\ rq[r].at = "new" /\ watcher.ready /\ watcher.at # "stopped"
    /\ rq' = [rq EXCEPT ![r].at = IF key = Nothing THEN "pick" ELSE "lookup",
                        ![r].key = key, ![r].snap = Len(snaps)]
    /\ UNCHANGED <<bindings, snaps, picks, bound>>

Usable(d, id) ==
    \E i \in DOMAIN d.cands : d.cands[i].id = id /\ d.cands[i].admission # "excluded"

\* Reuse, fail over to another candidate, or find it expired.
lookup_binding(r) ==
    LET k == rq[r].key
    IN  /\ rq[r].at = "lookup"
        /\ \/ /\ Live(k) /\ Usable(Snap(r).doc, bindings[k].id)
              /\ rq' = [rq EXCEPT ![r].at = "done", ![r].id = bindings[k].id,
                                  ![r].how = "reused"]
           \/ ~Live(k) /\ k \in DOMAIN bindings /\ Moved(r, "remove")
           \/ /\ k \in DOMAIN bindings => Live(k) /\ ~Usable(Snap(r).doc, bindings[k].id)
              /\ Moved(r, "pick")
        /\ UNCHANGED <<bindings, snaps, picks, bound>>

\* Whatever the key is bound to by now is removed.
RemoveBinding(r) ==
    /\ rq[r].at = "remove" /\ Moved(r, "pick")
    /\ bindings' = Restrict(bindings, DOMAIN bindings \ {rq[r].key})
    /\ UNCHANGED <<snaps, picks, bound>>

Admitting(d) == {i \in DOMAIN d.cands : d.cands[i].admission = "new_and_existing"}

\* select_candidate: the first that admits, or from the lowest group that admits
\* the one its counter is at, the first, or any.
select_candidate(sn) ==
    LET d == sn.doc
        best == Min({d.cands[i].group : i \in Admitting(d)})
        len == Cardinality(Members(d, best))
        first == Min(Members(d, best))
    IN  CASE Admitting(d) = {} -> {}
          [] Admitting(d) # {} /\ Groups(d) = {} -> {Min(Admitting(d))}
          [] OTHER -> CASE d.mode = "round_robin" -> {first + sn.next[best]}
                        [] d.mode = "deterministic" -> {first}
                        [] d.mode = "random" -> first..(first + len - 1)

\* The counter of the group moves on (fetch_add), whatever the others do.
Advanced(sn, i) ==
    LET g == sn.doc.cands[i].group
    IN  IF sn.doc.mode # "round_robin" \/ g = Nothing THEN sn.next
        ELSE [sn.next EXCEPT ![g] = (@ + 1) % Cardinality(Members(sn.doc, g))]

Pick(r) ==
    /\ rq[r].at = "pick"
    /\ \/ /\ select_candidate(Snap(r)) = {}
          /\ rq' = [rq EXCEPT ![r].at = "done", ![r].how = "rejected"]
          /\ UNCHANGED <<snaps, picks>>
       \/ \E i \in select_candidate(Snap(r)) :
             LET id == Snap(r).doc.cands[i].id
             IN  /\ rq' = [rq EXCEPT ![r].at = IF rq[r].key = Nothing THEN "done" ELSE "check",
                                     ![r].id = id, ![r].how = "picked"]
                 /\ snaps' = [snaps EXCEPT ![rq[r].snap].next = Advanced(Snap(r), i)]
                 /\ picks' = [picks EXCEPT ![Snap(r).epoch][id] = @ + 1]
    /\ UNCHANGED <<bindings, bound>>

\* Defect: the table is not looked at again after the expired ones are gone.
Full_once(stage) == stage = "check" /\ Cardinality(DOMAIN bindings) >= MaxBindings

\* store_binding looks at the table twice; expired bindings go in between if it is
\* full the first time.
Full(stage) == Cardinality(DOMAIN bindings) >= MaxBindings

Check(r) ==
    /\ rq[r].at \in {"check", "recheck"}
    /\ Moved(r, IF rq[r].at = "check" THEN IF Full("check") THEN "evict" ELSE "recheck"
               ELSE IF Full("recheck") THEN "done" ELSE "insert")
    /\ UNCHANGED <<bindings, snaps, picks, bound>>

evict_expired(r) ==
    /\ rq[r].at = "evict" /\ Moved(r, "recheck")
    /\ bindings' = Restrict(bindings, {k \in DOMAIN bindings : bindings[k].expires > clock})
    /\ UNCHANGED <<snaps, picks, bound>>

Insert(r) ==
    LET k == rq[r].key
    IN  /\ rq[r].at = "insert" /\ Moved(r, "done")
        /\ bindings' = [x \in DOMAIN bindings \cup {k} |->
                          IF x = k THEN [id |-> rq[r].id, expires |-> clock + BindingTtl]
                          ELSE bindings[x]]
        /\ bound' = bound \cup {<<k, rq[r].id>>}
        /\ UNCHANGED <<snaps, picks>>

Passed == {r \in Requests : rq[r].at = "insert"}

RequestStep(r) ==
    /\ \/ \E key \in SessionKeys \cup {Nothing} : Load(r, key)
       \/ lookup_binding(r) \/ RemoveBinding(r) \/ Pick(r)
       \/ Check(r) \/ evict_expired(r) \/ Insert(r)
    /\ peak' = Max({peak, Cardinality(Passed')})
    /\ UNCHANGED <<file, edits, raised, events, watcher, clock>>

OverlayTick ==
    /\ clock < LastTime /\ clock' = clock + 1
    /\ UNCHANGED <<file, edits, raised, events, watcher, snaps, bindings, rq, picks, bound,
                   peak>>

OverlayNext ==
    \/ \E f \in Docs \cup {Unreadable} : Edit(f)
    \/ Notify \/ WatcherStep \/ OverlayTick
    \/ \E r \in Requests : RequestStep(r)

OverlaySpec == OverlayInit /\ [][OverlayNext]_overlayVars

-----------------------------------------------------------------------------
(***************************************************************************)
(* A watcher with nothing to do serves what the file says, however edits     *)
(* fell between its reads, its registration and its debounce; and while one  *)
(* revision is served, rewriting the file in other bytes does not disturb    *)
(* the turns: members of a group are chosen equally often.                   *)
(***************************************************************************)
OverlayFollowed ==
    /\ watcher.at = "wait" /\ events = 0 /\ ~raised /\ Accepted(file) =>
          \/ Served.doc.bytes = file.bytes
          \/ is_semantically_unchanged(Served.doc, file)
    /\ \A n \in DOMAIN snaps :
          LET d == snaps[n].doc
              turns == picks[snaps[n].epoch]
          IN  d.mode = "round_robin" =>
                  \A g \in Groups(d) : \A i, j \in Members(d, g) :
                      turns[d.cands[i].id] <= turns[d.cands[j].id] + 1

(***************************************************************************)
(* No session reaches a candidate its snapshot excludes, and only one that   *)
(* was bound to it earlier reaches a candidate that takes existing sessions  *)
(* only.  The table of bindings exceeds its limit at most by the requests    *)
(* that were between its check and their insertion together.                 *)
(***************************************************************************)
AffinitySound ==
    /\ \A r \in Requests : rq[r].at = "done" /\ rq[r].id # Nothing =>
          CASE Snap(r).doc.cands[Chosen(r)].admission = "new_and_existing" -> TRUE
            [] Snap(r).doc.cands[Chosen(r)].admission = "existing_only" ->
                  rq[r].how = "reused" /\ <<rq[r].key, rq[r].id>> \in bound
            [] OTHER -> FALSE
    /\ Cardinality(DOMAIN bindings) < MaxBindings + Max({peak, 1})
=============================================================================
