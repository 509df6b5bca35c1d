---------------------------- MODULE StoreReload ----------------------------
(***************************************************************************)
(* Hot reload of the server: the config watcher (server/src/watcher.rs),   *)
(* the reload itself (reload.rs), the store provisioning service           *)
(* (store_provision.rs), and the requests that run on the pipelines they   *)
(* replace.                                                                *)
(*                                                                         *)
(* The watcher thread reads the config file, asks the service on the       *)
(* serving runtime to prepare a store generation, builds pipelines, asks   *)
(* it to commit, and swaps the pipelines listener by listener.  It waits   *)
(* for each answer.  A committed generation replaces the active one, whose *)
(* leases a detached task releases once its pipelines have drained.        *)
(*                                                                         *)
(* The backends are those of BackendPool, which BackendCache implements.   *)
(* A reload attempt has a number, which names its store plan, its          *)
(* generation and its pipelines; the pipelines built at startup are 0.     *)
(***************************************************************************)
EXTENDS Integers, Sequences, FiniteSets

CONSTANTS
  Listeners,      \* every listener name a config may hold
  Keys,           \* effective backend keys
  NoStore,        \* the key of a listener without a store
  None,
  Initial,        \* the config at startup
  Configs,        \* the configs that may be written: listener -> key, partial
  Broken,         \* file content that is no config
  Requests,       \* slots for requests in flight
  EventCapacity,  \* capacity of the watcher's channel
  MaxEdits        \* bound: edits of the file in one behaviour

\* A config gives some listeners a store and others none.
IsConfig(config) ==
  /\ DOMAIN config \subseteq Listeners
  /\ \A l \in DOMAIN config : config[l] \in Keys \cup {NoStore}

ASSUME ReloadAssumption ==
  /\ MaxEdits \in Nat
  /\ EventCapacity \in Nat
  /\ NoStore \notin Keys
  /\ None \notin Nat /\ None \notin BOOLEAN
  /\ \A config \in Configs \cup {Initial} : IsConfig(config)

\* A plan says which pool serves the store of each listener.
NoPlan == [key |-> [l \in Listeners |-> NoStore],
           backend |-> [l \in Listeners |-> None], ready |-> FALSE]

KeyOf(config, l) == IF l \in DOMAIN config THEN config[l] ELSE NoStore

StoreListeners(config) == {l \in DOMAIN config : config[l] # NoStore}

PlanOf(config) == [NoPlan EXCEPT !.key = [l \in Listeners |-> KeyOf(config, l)]]

\* Attempts, and the leases a generation holds, one for each listener.
Attempts == 0..MaxEdits
Leases == Attempts \X Listeners

VARIABLES
  disk,             \* [content, edits, dirty]: the file; an edit is not notified yet
  events,           \* notifications in the watcher's channel
  watcher,          \* [pc, seen, new, attempt, todo]
  current_config,
  live,             \* live[l]: the attempt that built the pipeline l serves with
  requests,         \* requests[r]: the <<listener, attempt>> pipeline r holds
  command, reply,   \* the message on its way to the service, and its answer
  service,          \* [pc, attempt, work]: the provisioning service
  readiness,
  shutdown,
  plans,            \* plans[a]: the store plan of attempt a
  active,           \* the attempt whose leases are active
  pending,          \* prepared attempts
  drains,           \* release_after_drain tasks, [old, attempt]
  releasing,        \* leases that somebody is releasing
  retiring,         \* pools out of service and not retired yet
  current, holders, backends   \* the pool

poolVars == <<current, holders, backends>>
serverVars == <<plans, active, pending, drains, releasing, retiring>>
watchVars == <<disk, events, watcher, current_config, live>>
vars == <<watchVars, requests, command, reply, service, readiness, shutdown,
          serverVars, poolVars>>

Pool == INSTANCE BackendPool WITH Holders <- Leases

LeasesOf(a) == {a} \X {l \in Listeners : plans[a].key[l] # NoStore}

Bound == DOMAIN Initial

Idle(w) == [w EXCEPT !.pc = "idle", !.new = None, !.todo = {}]

Init ==
  /\ disk = [content |-> Initial, edits |-> 0, dirty |-> FALSE]
  /\ events = 0
  /\ watcher = [pc |-> "idle", seen |-> 0, new |-> None, attempt |-> 0, todo |-> {}]
  /\ current_config = Initial
  /\ live = [l \in Bound |-> 0]
  /\ requests = [r \in Requests |-> None]
  /\ command = None
  /\ reply = None
  /\ plans = [a \in Attempts |-> IF a = 0 THEN PlanOf(Initial) ELSE NoPlan]
  /\ service = [pc |-> "initial", attempt |-> 0,
                work |-> [l \in StoreListeners(Initial) |-> "todo"]]
  /\ readiness = IF StoreListeners(Initial) = {} THEN "Ready" ELSE "Pending"
  /\ shutdown = FALSE
  /\ active = 0
  /\ pending = {}
  /\ drains = {}
  /\ releasing = {}
  /\ retiring = {}
  /\ Pool!Init

\* An initial failure ends the process.
Running == readiness # "Failed"

-----------------------------------------------------------------------------
(* The file and the requests                                               *)

Edit(content) ==
  /\ Running
  /\ disk.edits < MaxEdits
  /\ disk' = [content |-> content, edits |-> disk.edits + 1, dirty |-> TRUE]
  /\ UNCHANGED <<events, watcher, current_config, live, requests, command, reply,
                 service, readiness, shutdown, serverVars, poolVars>>

\* The notify callback; a full channel drops the event.
Notify ==
  /\ Running
  /\ disk.dirty
  /\ disk' = [disk EXCEPT !.dirty = FALSE]
  /\ events' = IF events < EventCapacity THEN events + 1 ELSE events
  /\ UNCHANGED <<watcher, current_config, live, requests, command, reply,
                 service, readiness, shutdown, serverVars, poolVars>>

\* A request keeps the pipeline it started on.
RequestBegin(r, l) ==
  /\ Running
  /\ requests[r] = None
  /\ requests' = [requests EXCEPT ![r] = <<l, live[l]>>]
  /\ UNCHANGED <<watchVars, command, reply, service, readiness, shutdown,
                 serverVars, poolVars>>

RequestEnd(r) ==
  /\ Running
  /\ requests[r] # None
  /\ requests' = [requests EXCEPT ![r] = None]
  /\ UNCHANGED <<watchVars, command, reply, service, readiness, shutdown,
                 serverVars, poolVars>>

Shutdown ==
  /\ Running
  /\ ~shutdown
  /\ shutdown' = TRUE
  /\ UNCHANGED <<watchVars, requests, command, reply, service, readiness,
                 serverVars, poolVars>>

-----------------------------------------------------------------------------
(* The watcher                                                             *)

WatcherAt(pc) == Running /\ watcher.pc = pc

\* rx.recv
WatcherWake ==
  /\ WatcherAt("idle")
  /\ events > 0
  /\ events' = events - 1
  /\ watcher' = [watcher EXCEPT !.pc = "debounce"]
  /\ UNCHANGED <<disk, current_config, live, requests, command, reply, service,
                 readiness, shutdown, serverVars, poolVars>>

\* drain_and_debounce: sleep, then empty the channel.
WatcherDrain ==
  /\ WatcherAt("debounce")
  /\ events' = 0
  /\ watcher' = [watcher EXCEPT !.pc = "read"]
  /\ UNCHANGED <<disk, current_config, live, requests, command, reply, service,
                 readiness, shutdown, serverVars, poolVars>>

\* Read and parse the file; what cannot be read or parsed changes nothing.
WatcherRead ==
  /\ WatcherAt("read")
  /\ watcher' = IF disk.content = Broken
                THEN [Idle(watcher) EXCEPT !.seen = disk.edits]
                ELSE [watcher EXCEPT !.pc = "validate", !.seen = disk.edits,
                                     !.new = disk.content, !.attempt = @ + 1]
  /\ UNCHANGED <<disk, events, current_config, live, requests, command, reply,
                 service, readiness, shutdown, serverVars, poolVars>>

\* The reload returns an error; nothing that is live has changed.
WatcherGiveUp ==
  /\ watcher' = Idle(watcher)
  /\ UNCHANGED <<disk, events, current_config, live, requests, service, readiness,
                 shutdown, serverVars, poolVars>>

\* Log overrides, store wiring or the trial build of the pipelines fails.
ValidateFail ==
  /\ WatcherAt("validate")
  /\ WatcherGiveUp
  /\ UNCHANGED <<command, reply>>

NeedsStore == StoreListeners(watcher.new) \cup StoreListeners(current_config) # {}

\* A message to the service, unless its receiver is gone.
Send(message, pc) ==
  IF service.pc = "stopped"
  THEN WatcherGiveUp /\ UNCHANGED <<command, reply>>
  ELSE /\ command' = message
       /\ watcher' = [watcher EXCEPT !.pc = pc]
       /\ UNCHANGED <<disk, events, current_config, live, requests, reply, service,
                      readiness, shutdown, serverVars, poolVars>>

SendPrepare ==
  /\ WatcherAt("validate")
  /\ NeedsStore
  /\ Send([kind |-> "Prepare", attempt |-> watcher.attempt, old |-> {}], "prepare")

NoPrepare ==
  /\ WatcherAt("validate")
  /\ ~NeedsStore
  /\ watcher' = [watcher EXCEPT !.pc = "build"]
  /\ UNCHANGED <<disk, events, current_config, live, requests, command, reply,
                 service, readiness, shutdown, serverVars, poolVars>>

\* The watcher waits for the answer; a service that is gone never sends one.
Await(pc, next) ==
  /\ WatcherAt(pc)
  /\ reply # None
  /\ reply' = None
  /\ watcher' = IF reply THEN [watcher EXCEPT !.pc = next] ELSE Idle(watcher)
  /\ UNCHANGED <<disk, events, current_config, live, requests, command, service,
                 readiness, shutdown, serverVars, poolVars>>

AwaitPrepare == Await("prepare", "build")
AwaitAbort == Await("abort", "idle")

AwaitGone ==
  /\ Running
  /\ watcher.pc \in {"prepare", "commit", "abort"}
  /\ service.pc = "stopped" /\ reply = None /\ command = None
  /\ WatcherGiveUp
  /\ UNCHANGED <<command, reply>>

\* The replacement pipelines cannot be built: give the generation back.
BuildFail ==
  /\ WatcherAt("build")
  /\ IF NeedsStore
     THEN Send([kind |-> "Abort", attempt |-> watcher.attempt, old |-> {}], "abort")
     ELSE WatcherGiveUp /\ UNCHANGED <<command, reply>>

\* Defect: only the listeners that the new config keeps are waited for.
OldPipelinesKept == {<<l, live[l]>> : l \in StoreListeners(watcher.new) \cap Bound}

\* The live pipelines of the listeners that had a store before.
OldPipelines == {<<l, live[l]>> : l \in StoreListeners(current_config) \cap Bound}

\* Defect: only the listeners that had a store are swapped.
PublishedStores == [watcher EXCEPT !.pc = "publish",
                      !.todo = DOMAIN watcher.new \cap StoreListeners(current_config)]

\* The listeners still to be swapped.
Published == [watcher EXCEPT !.pc = "publish", !.todo = DOMAIN watcher.new \cap Bound]

BuildOk ==
  /\ WatcherAt("build")
  /\ IF NeedsStore
     THEN Send([kind |-> "Commit", attempt |-> watcher.attempt,
                old |-> OldPipelines], "commit")
     ELSE /\ watcher' = Published
          /\ UNCHANGED <<disk, events, current_config, live, requests, command,
                         reply, service, readiness, shutdown, serverVars, poolVars>>

AwaitCommit ==
  /\ WatcherAt("commit")
  /\ reply # None
  /\ reply' = None
  /\ watcher' = IF reply THEN Published ELSE Idle(watcher)
  /\ UNCHANGED <<disk, events, current_config, live, requests, command, service,
                 readiness, shutdown, serverVars, poolVars>>

\* live.swap, one listener at a time; a listener that is not bound is skipped.
Publish(l) ==
  /\ WatcherAt("publish")
  /\ l \in watcher.todo
  /\ live' = [live EXCEPT ![l] = watcher.attempt]
  /\ watcher' = [watcher EXCEPT !.todo = @ \ {l}]
  /\ UNCHANGED <<disk, events, current_config, requests, command, reply, service,
                 readiness, shutdown, serverVars, poolVars>>

\* Defect: events that arrived during the reload are drained after it.
PublishEndDrains ==
  /\ WatcherAt("publish")
  /\ watcher.todo = {}
  /\ current_config' = watcher.new
  /\ watcher' = Idle(watcher)
  /\ events' = 0
  /\ UNCHANGED <<disk, live, requests, command, reply, service, readiness,
                 shutdown, serverVars, poolVars>>

\* Every listener is swapped: the new config is the current one.
PublishEnd ==
  /\ WatcherAt("publish")
  /\ watcher.todo = {}
  /\ current_config' = watcher.new
  /\ watcher' = Idle(watcher)
  /\ UNCHANGED <<disk, events, live, requests, command, reply, service, readiness,
                 shutdown, serverVars, poolVars>>

-----------------------------------------------------------------------------
(* The provisioning service                                                *)

ServiceAt(pcs) == Running /\ service.pc \in pcs

Provisioning == {"initial", "provision"}

Working(l) == l \in DOMAIN service.work
KeyAt(l) == plans[service.attempt].key[l]
Lease(l) == <<service.attempt, l>>

\* prepare_plans rejects the config.
PrepareReject ==
  /\ ServiceAt({"loop"})
  /\ command # None /\ command.kind = "Prepare"
  /\ command' = None
  /\ reply' = FALSE
  /\ UNCHANGED <<watchVars, requests, service, readiness, shutdown, serverVars, poolVars>>

PrepareBegin ==
  /\ ServiceAt({"loop"})
  /\ command # None /\ command.kind = "Prepare"
  /\ command' = None
  /\ plans' = [plans EXCEPT ![command.attempt] = PlanOf(watcher.new)]
  /\ service' = [pc |-> "provision", attempt |-> command.attempt,
                 work |-> [l \in StoreListeners(watcher.new) |-> "todo"]]
  /\ UNCHANGED <<watchVars, requests, reply, readiness, shutdown, active, pending,
                 drains, releasing, retiring, poolVars>>

Settle(l, outcome) == service' = [service EXCEPT !.work[l] = outcome]

Serve(l, b) == plans' = [plans EXCEPT ![service.attempt].backend[l] = b]

\* The workers of provision_all, one per listener: share the pool of the key...
WorkerShare(l) ==
  /\ ServiceAt(Provisioning)
  /\ Working(l) /\ service.work[l] = "todo"
  /\ Pool!Share(Lease(l), KeyAt(l))
  /\ Serve(l, current[KeyAt(l)])
  /\ Settle(l, "leased")
  /\ UNCHANGED <<watchVars, requests, command, reply, readiness, shutdown, active,
                 pending, drains, releasing, retiring>>

\* ... or build it, alone on the key ...
WorkerBuild(l) ==
  /\ ServiceAt(Provisioning)
  /\ Working(l) /\ service.work[l] = "todo"
  /\ current[KeyAt(l)] = None
  /\ \A m \in DOMAIN service.work :
       service.work[m] = "built" => KeyAt(m) # KeyAt(l)
  /\ Pool!Build(KeyAt(l))
  /\ Serve(l, Len(backends) + 1)
  /\ Settle(l, "built")
  /\ UNCHANGED <<watchVars, requests, command, reply, readiness, shutdown, active,
                 pending, drains, releasing, retiring>>

WorkerInstall(l) ==
  /\ ServiceAt(Provisioning)
  /\ Working(l) /\ service.work[l] = "built"
  /\ Pool!Install(Lease(l), KeyAt(l), plans[service.attempt].backend[l])
  /\ Settle(l, "leased")
  /\ UNCHANGED <<watchVars, requests, command, reply, readiness, shutdown, serverVars>>

\* ... or fail, with its own error or its wave's.
WorkerFail(l) ==
  /\ ServiceAt(Provisioning)
  /\ Working(l) /\ service.work[l] = "todo"
  /\ Settle(l, "failed")
  /\ UNCHANGED <<watchVars, requests, command, reply, readiness, shutdown,
                 serverVars, poolVars>>

Outcomes == {service.work[l] : l \in DOMAIN service.work}

MarkReady == plans' = [plans EXCEPT ![service.attempt].ready = TRUE]

\* Every listener holds its lease: the generation is ready.
InitialReady ==
  /\ ServiceAt({"initial"})
  /\ Outcomes \subseteq {"leased"}
  /\ MarkReady
  /\ readiness' = "Ready"
  /\ service' = [service EXCEPT !.pc = "loop"]
  /\ UNCHANGED <<watchVars, requests, command, reply, shutdown, active, pending,
                 drains, releasing, retiring, poolVars>>

PrepareReady ==
  /\ ServiceAt({"provision"})
  /\ Outcomes \subseteq {"leased"}
  /\ MarkReady
  /\ pending' = pending \cup {service.attempt}
  /\ reply' = TRUE
  /\ service' = [service EXCEPT !.pc = "loop"]
  /\ UNCHANGED <<watchVars, requests, command, readiness, shutdown, active, drains,
                 releasing, retiring, poolVars>>

\* The leases of the listeners that got one.
Leased == {Lease(l) : l \in {m \in DOMAIN service.work : service.work[m] = "leased"}}

\* Some listener failed: the leases of the others are released.
ProvisionFailed ==
  /\ ServiceAt(Provisioning)
  /\ Outcomes \subseteq {"leased", "failed"}
  /\ "failed" \in Outcomes
  /\ releasing' = releasing \cup Leased
  /\ service' = [service EXCEPT
                   !.pc = IF @ = "initial" THEN "initialrollback" ELSE "rollback"]
  /\ UNCHANGED <<watchVars, requests, command, reply, readiness, shutdown, plans,
                 active, pending, drains, retiring, poolVars>>

NoneReleasing == releasing \cap LeasesOf(service.attempt) = {}

\* The production startup path exits the process.
InitialFailed ==
  /\ ServiceAt({"initialrollback"})
  /\ NoneReleasing
  /\ readiness' = "Failed"
  /\ service' = [service EXCEPT !.pc = "stopped"]
  /\ UNCHANGED <<watchVars, requests, command, reply, shutdown, serverVars, poolVars>>

PrepareFailed ==
  /\ ServiceAt({"rollback"})
  /\ NoneReleasing
  /\ reply' = FALSE
  /\ service' = [service EXCEPT !.pc = "loop"]
  /\ UNCHANGED <<watchVars, requests, command, readiness, shutdown, serverVars, poolVars>>

\* A detached task releases the old leases once the old pipelines are gone.
RetireOld(old) ==
  /\ drains' = drains \cup {[old |-> old, attempt |-> active]}
  /\ UNCHANGED releasing

Commit ==
  /\ ServiceAt({"loop"})
  /\ command # None /\ command.kind = "Commit"
  /\ command' = None
  /\ IF command.attempt \in pending
     THEN /\ RetireOld(command.old)
          /\ active' = command.attempt
          /\ pending' = pending \ {command.attempt}
          /\ readiness' = "Ready"
          /\ reply' = TRUE
     ELSE /\ reply' = FALSE
          /\ UNCHANGED <<active, pending, drains, releasing, readiness>>
  /\ UNCHANGED <<watchVars, requests, service, shutdown, plans, retiring, poolVars>>

Abort ==
  /\ ServiceAt({"loop"})
  /\ command # None /\ command.kind = "Abort"
  /\ command' = None
  /\ IF command.attempt \in pending
     THEN /\ releasing' = releasing \cup LeasesOf(command.attempt)
          /\ pending' = pending \ {command.attempt}
          /\ service' = [service EXCEPT !.pc = "abort", !.attempt = command.attempt]
          /\ UNCHANGED reply
     ELSE /\ reply' = FALSE
          /\ UNCHANGED <<pending, releasing, service>>
  /\ UNCHANGED <<watchVars, requests, readiness, shutdown, plans, active, drains,
                 retiring, poolVars>>

AbortDone ==
  /\ ServiceAt({"abort"})
  /\ NoneReleasing
  /\ reply' = TRUE
  /\ service' = [service EXCEPT !.pc = "loop"]
  /\ UNCHANGED <<watchVars, requests, command, readiness, shutdown, serverVars, poolVars>>

PendingLeases == UNION {LeasesOf(a) : a \in pending}

\* Defect: the command channel outlives the loop.
StopKeepsCommand ==
  /\ ServiceAt({"loop"})
  /\ shutdown
  /\ releasing' = releasing \cup PendingLeases
  /\ pending' = {}
  /\ service' = [service EXCEPT !.pc = "stopped"]
  /\ UNCHANGED <<watchVars, requests, command, reply, readiness, shutdown, plans,
                 active, drains, retiring, poolVars>>

\* The loop sees the shutdown: pending generations are released, the active
\* leases stay held, and a command nobody reads is dropped with the channel.
Stop ==
  /\ ServiceAt({"loop"})
  /\ shutdown
  /\ releasing' = releasing \cup PendingLeases
  /\ pending' = {}
  /\ command' = None
  /\ service' = [service EXCEPT !.pc = "stopped"]
  /\ UNCHANGED <<watchVars, requests, reply, readiness, shutdown, plans, active,
                 drains, retiring, poolVars>>

\* The shutdown drops a provisioning under way, with the leases it has so far;
\* the initial one answers nobody.
StopProvisioning ==
  /\ ServiceAt({"initial", "provision", "initialrollback", "rollback"})
  /\ shutdown
  /\ releasing' = (releasing \ LeasesOf(service.attempt)) \cup PendingLeases
  /\ pending' = {}
  /\ command' = None
  /\ reply' = IF service.pc \in {"provision", "rollback"} THEN FALSE ELSE reply
  /\ service' = [service EXCEPT !.pc = "stopped"]
  /\ UNCHANGED <<watchVars, requests, readiness, shutdown, plans, active, drains,
                 retiring, poolVars>>

\* Somebody owns the pipeline: its listener, or a request.
Strong(pipeline) ==
  \/ live[pipeline[1]] = pipeline[2]
  \/ \E r \in Requests : requests[r] = pipeline

\* release_after_drain
Drained(d) ==
  /\ Running
  /\ d \in drains
  /\ \A pipeline \in d.old : ~Strong(pipeline)
  /\ drains' = drains \ {d}
  /\ releasing' = releasing \cup LeasesOf(d.attempt)
  /\ UNCHANGED <<watchVars, requests, command, reply, service, readiness, shutdown,
                 plans, active, pending, retiring, poolVars>>

Release(lease) ==
  LET k == plans[lease[1]].key[lease[2]] IN
  /\ Running
  /\ lease \in releasing
  /\ Pool!Drop(lease, k)
  /\ retiring' = IF holders[k] = {lease} THEN retiring \cup {current[k]} ELSE retiring
  /\ releasing' = releasing \ {lease}
  /\ UNCHANGED <<watchVars, requests, command, reply, service, readiness, shutdown,
                 plans, active, pending, drains>>

Retire(b) ==
  /\ Running
  /\ b \in retiring
  /\ Pool!Retire(b)
  /\ retiring' = retiring \ {b}
  /\ UNCHANGED <<watchVars, requests, command, reply, service, readiness, shutdown,
                 plans, active, pending, drains, releasing>>

-----------------------------------------------------------------------------

Watcher ==
  \/ WatcherWake \/ WatcherDrain \/ WatcherRead \/ ValidateFail
  \/ SendPrepare \/ NoPrepare \/ AwaitPrepare \/ AwaitAbort \/ AwaitGone
  \/ BuildFail \/ BuildOk \/ AwaitCommit
  \/ (\E l \in Bound : Publish(l)) \/ PublishEnd

Service ==
  \/ PrepareReject \/ PrepareBegin
  \/ (\E l \in Listeners : WorkerShare(l) \/ WorkerBuild(l) \/ WorkerInstall(l)
                           \/ WorkerFail(l))
  \/ InitialReady \/ PrepareReady \/ ProvisionFailed \/ InitialFailed \/ PrepareFailed
  \/ Commit \/ Abort \/ AbortDone \/ Stop \/ StopProvisioning

Background ==
  \/ \E d \in drains : Drained(d)
  \/ \E lease \in releasing : Release(lease)
  \/ \E b \in retiring : Retire(b)

Environment ==
  \/ \E content \in Configs \cup {Broken} : Edit(content)
  \/ \E r \in Requests : \E l \in Bound : RequestBegin(r, l)
  \/ Shutdown

Next ==
  \/ Environment
  \/ Notify
  \/ Watcher
  \/ Service
  \/ Background
  \/ \E r \in Requests : RequestEnd(r)

Spec == Init /\ [][Next]_vars

\* The watcher thread and the serving runtime keep running, builds and requests
\* end, and the file system reports every change.  MCBackground states it for its part.
Fairness ==
  /\ WF_vars(Notify)
  /\ WF_vars(Watcher)
  /\ WF_vars(Service)
  /\ WF_vars(Background)
  /\ \A r \in Requests : WF_vars(RequestEnd(r))

FairSpec == Spec /\ Fairness

-----------------------------------------------------------------------------
(* Properties                                                              *)

\* The counters of the watcher stay within the edits and its channel within its
\* capacity; pipelines, requests and leases name attempts that exist.
TypeOK ==
  /\ disk.edits \in 0..MaxEdits
  /\ events \in 0..EventCapacity
  /\ watcher.attempt \in Attempts /\ watcher.seen \in 0..disk.edits
  /\ live \in [Bound -> Attempts]
  /\ requests \in [Requests -> (Bound \X Attempts) \cup {None}]
  /\ reply \in BOOLEAN \cup {None}
  /\ active \in Attempts /\ pending \subseteq Attempts
  /\ releasing \subseteq Leases
  /\ retiring \subseteq DOMAIN backends
  /\ \A k \in Keys : holders[k] \subseteq Leases

\* The pool a pipeline finds in its registry, once the registry is ready.
PoolOf(pipeline) ==
  IF plans[pipeline[2]].ready THEN plans[pipeline[2]].backend[pipeline[1]] ELSE None

\* No request ever works on a retired pool, whichever reload, rollback, drain or
\* shutdown runs beside it, and neither does one that starts now.
NoRequestOnRetiredPool ==
  \A pipeline \in {<<l, live[l]>> : l \in Bound}
                  \cup {requests[r] : r \in {s \in Requests : requests[s] # None}} :
    PoolOf(pipeline) # None => backends[PoolOf(pipeline)].open

\* The leases are where the pipelines are: between reloads every listener of the
\* config serves the active generation.
ActiveMatchesLive ==
  watcher.pc = "idle" =>
    \A l \in StoreListeners(current_config) \cap Bound : live[l] = active

\* Until the service stops, every lease held belongs to the active or a prepared
\* generation, to one that drains, or to one being built up or torn down.
NoLeaseLost ==
  service.pc # "stopped" =>
    \A k \in Keys : \A lease \in holders[k] :
      \/ lease[1] \in {active} \cup pending \cup {d.attempt : d \in drains}
      \/ lease \in releasing
      \/ lease[1] = service.attempt /\ service.pc \in Provisioning

\* Every change of the file is picked up: once the edits stop the watcher reads
\* the last of them, though events are debounced, drained and dropped.
EditsNotMissed == []<>(watcher.seen = disk.edits \/ ~Running)

\* A reload always ends: no answer that the watcher waits for is lost, also when
\* the service stops in between.
ReloadEnds == []<>(watcher.pc = "idle" \/ ~Running)

\* Old generations are released: time and again the only ones left are those
\* whose listener has no replacement and still serves with them.
DrainsEnd ==
  []<>(\A d \in drains : \E pipeline \in d.old : live[pipeline[1]] = pipeline[2])

\* What a reload starts comes to an end: the reload itself, and the draining of
\* the generation it replaced.
ReloadsFinish == ReloadEnds /\ DrainsEnd

\* Until it stops, the service knows every lease that is held, and between
\* reloads the listeners serve the generation whose leases it calls active.
LeasesFollowPipelines == TypeOK /\ ActiveMatchesLive /\ NoLeaseLost

=============================================================================
