------------------------- MODULE StoreReload_proofs -------------------------
(***************************************************************************)
(* Proofs about StoreReload, for every set of listeners, keys, configs and *)
(* requests and any number of edits: no request works on a retired pool,   *)
(* and every lease has an owner.                                           *)
(***************************************************************************)
EXTENDS StoreReload, TLAPS

-----------------------------------------------------------------------------
(* The inductive invariant                                                 *)

AllConfigs == Configs \cup {Initial}

WatcherPcs == {"idle", "debounce", "read", "validate", "prepare", "build", "commit",
               "abort", "publish"}
Reloading == WatcherPcs \ {"idle", "debounce", "read"}
Waiting == {"prepare", "commit", "abort"}

ServicePcs == {"initial", "initialrollback", "loop", "provision", "rollback", "abort",
               "stopped"}

Plans == [key : [Listeners -> Keys \cup {NoStore}],
          backend : [Listeners -> Nat \cup {None}], ready : BOOLEAN]

DiskType == disk \in [content : AllConfigs \cup {Broken}, edits : 0..MaxEdits, dirty : BOOLEAN]

EventsType == events \in 0..EventCapacity

WatcherType ==
  /\ watcher \in [pc : WatcherPcs, seen : Nat, new : AllConfigs \cup {None},
                  attempt : Attempts, todo : SUBSET Bound]
  /\ watcher.pc \in Reloading => watcher.new \in AllConfigs /\ watcher.attempt > 0
  /\ watcher.seen <= disk.edits

PipelinesType ==
  /\ live \in [Bound -> Attempts]
  /\ requests \in [Requests -> (Bound \X Attempts) \cup {None}]

MessagesType ==
  /\ command # None =>
       command \in [kind : {"Prepare", "Commit", "Abort"}, attempt : Attempts,
                    old : SUBSET (Bound \X Attempts)]
  /\ reply \in BOOLEAN \cup {None}

ServiceType ==
  /\ service = [pc |-> service.pc, attempt |-> service.attempt, work |-> service.work]
  /\ service.pc \in ServicePcs /\ service.attempt \in Attempts
  /\ DOMAIN service.work \subseteq Listeners
  /\ service.work = [l \in DOMAIN service.work |-> service.work[l]]

PlansType == plans \in [Attempts -> Plans]

MembersType ==
  /\ active \in Attempts
  /\ pending \subseteq Attempts
  /\ drains \subseteq [old : SUBSET (Bound \X Attempts), attempt : Attempts]
  /\ releasing \subseteq Leases

PoolType ==
  /\ current \in [Keys -> Nat \cup {None}]
  /\ holders \in [Keys -> SUBSET Leases]
  /\ backends \in Seq([key : Keys, open : BOOLEAN])
  /\ retiring \subseteq DOMAIN backends

Types ==
  /\ DiskType /\ EventsType /\ WatcherType /\ current_config \in AllConfigs
  /\ PipelinesType /\ MessagesType /\ ServiceType /\ PlansType /\ MembersType /\ PoolType

\* Every reload stands for an edit of its own.
EditsCounted ==
  watcher.attempt + events + (IF disk.dirty THEN 1 ELSE 0)
    + (IF watcher.pc \in {"debounce", "read"} THEN 1 ELSE 0) <= disk.edits

\* The reload under way will not be given up any more.
Committed == watcher.pc = "publish" \/ (watcher.pc = "commit" /\ reply = TRUE)

\* Nothing was published for attempt a, or prepared for it.
Unpublished(a) ==
  \/ a > watcher.attempt
  \/ a = watcher.attempt /\ watcher.pc \in Reloading /\ ~Committed

Unplanned(a) ==
  \/ a > watcher.attempt
  \/ a = watcher.attempt /\ watcher.pc = "validate"
  \/ a = watcher.attempt /\ watcher.pc = "prepare" /\ command # None

\* The watcher and the service take turns.
Turns ==
  /\ command # None =>
       /\ reply = None /\ command.attempt = watcher.attempt
       /\ watcher.pc = CASE command.kind = "Prepare" -> "prepare"
                         [] command.kind = "Commit" -> "commit"
                         [] command.kind = "Abort" -> "abort"
       /\ command.kind = "Commit" => command.old = OldPipelines
       /\ service.pc \in {"initial", "initialrollback", "loop"} \/ ~Running
  /\ reply # None => watcher.pc \in Waiting /\ service.pc \in {"loop", "stopped"}
  /\ service.pc \in {"provision", "rollback"} =>
       /\ watcher.pc = "prepare" /\ command = None /\ reply = None
       /\ service.attempt = watcher.attempt
  /\ service.pc = "abort" => watcher.pc = "abort" /\ command = None /\ reply = None
  /\ service.pc \in {"initial", "initialrollback"} => service.attempt = 0 /\ active = 0
  /\ watcher.pc \in Waiting => NeedsStore

\* A prepared generation is that of the reload under way, before its commit.
Prepared ==
  /\ pending # {} =>
       /\ pending = {watcher.attempt} /\ service.pc = "loop"
       /\ watcher.pc \in Waiting \cup {"build"} /\ ~Committed /\ NeedsStore
       /\ reply = None \/ (watcher.pc = "prepare" /\ reply = TRUE)
       /\ watcher.pc = "prepare" => command = None
  /\ pending # {} \/ service.pc = "provision" =>
       \A l \in Listeners : plans[watcher.attempt].key[l] = KeyOf(watcher.new, l)

\* The active generation is that of the config whose pipelines are live.
ActivePlanned ==
  \A l \in Listeners :
    plans[active].key[l] = KeyOf(IF Committed THEN watcher.new ELSE current_config, l)

ActiveLive ==
  IF Committed
  THEN /\ NeedsStore => active = watcher.attempt
       /\ watcher.pc = "publish" =>
            \A l \in (StoreListeners(watcher.new) \cap Bound) \ watcher.todo : live[l] = active
  ELSE \A l \in StoreListeners(current_config) \cap Bound : live[l] = active

\* A reload that needs no store has no plan.
NothingPlanned ==
  watcher.pc \in {"build", "publish"} /\ ~NeedsStore => plans[watcher.attempt] = NoPlan

\* Generations, pipelines and drains are older than what was not published.
Ages ==
  /\ \A a \in Attempts : Unpublished(a) =>
       /\ active < a
       /\ \A l \in Bound : live[l] < a
       /\ \A r \in Requests : requests[r] # None => requests[r][2] < a
  /\ \A d \in drains : d.attempt < active
  /\ \A d, e \in drains : d.attempt = e.attempt => d = e

\* An attempt that nobody has prepared has no plan and no leases.
Unused ==
  \A a \in Attempts : Unplanned(a) =>
    /\ plans[a] = NoPlan
    /\ \A l \in Listeners :
         /\ <<a, l>> \notin releasing
         /\ \A k \in Keys : <<a, l>> \notin holders[k]

\* The pool of a key serves its holders and is open.
PoolsServe ==
  \A k \in Keys :
    /\ holders[k] # {} <=> current[k] # None
    /\ current[k] # None =>
         /\ current[k] \in DOMAIN backends
         /\ backends[current[k]] = [key |-> k, open |-> TRUE]
    /\ \A lease \in holders[k] :
         /\ plans[lease[1]].key[lease[2]] = k
         /\ plans[lease[1]].backend[lease[2]] = current[k]

\* A pool on its way out serves no key.
RetiringGone == \A b \in retiring : \A k \in Keys : current[k] # b

\* A built pool is open, has a key of its own and waits to serve it.
Builds ==
  service.pc \in Provisioning =>
    \A l \in DOMAIN service.work : service.work[l] = "built" =>
      LET b == plans[service.attempt].backend[l] IN
      /\ current[KeyAt(l)] = None
      /\ b \in DOMAIN backends /\ b \notin retiring
      /\ backends[b] = [key |-> KeyAt(l), open |-> TRUE]
      /\ \A m \in DOMAIN service.work :
           service.work[m] = "built" /\ KeyAt(m) = KeyAt(l) => m = l

\* A generation under way holds the leases of the workers that are done.
Provisioned ==
  service.pc \in Provisioning =>
    /\ ~plans[service.attempt].ready
    /\ DOMAIN service.work = {l \in Listeners : KeyAt(l) # NoStore}
    /\ \A l \in Listeners : Lease(l) \notin releasing
    /\ \A l \in DOMAIN service.work :
         service.work[l] = "leased" => Lease(l) \in holders[KeyAt(l)]
    /\ \A k \in Keys : \A l \in Listeners :
         Lease(l) \in holders[k] => l \in DOMAIN service.work /\ service.work[l] = "leased"

\* Generations whose leases nobody may release.
Kept(a) == a = active \/ a \in pending \/ \E d \in drains : d.attempt = a

\* A ready generation that is kept holds a lease for each of its stores.
ReadyHeld ==
  \A a \in Attempts : Kept(a) /\ plans[a].ready =>
    \A l \in Listeners : plans[a].key[l] # NoStore =>
      <<a, l>> \in holders[plans[a].key[l]] /\ <<a, l>> \notin releasing

\* Only stores have pools, or leases to release.
StoresOnly ==
  \A a \in Attempts : \A l \in Listeners :
    plans[a].backend[l] # None \/ <<a, l>> \in releasing => plans[a].key[l] # NoStore

\* A pipeline with a store that somebody uses belongs to the active generation,
\* or to one whose leases wait for that pipeline.
PipelinesKept ==
  \A l \in Bound : \A a \in Attempts :
    /\ live[l] = a \/ \E r \in Requests : requests[r] # None /\ requests[r] = <<l, a>>
    /\ plans[a].key[l] # NoStore
    => a = active \/ \E d \in drains : d.attempt = a /\ <<l, a>> \in d.old

\* What the pools and leases satisfy whatever the watcher does.
LeaseInv ==
  /\ PoolsServe /\ RetiringGone /\ Builds /\ Provisioned /\ ReadyHeld /\ StoresOnly
  /\ NoLeaseLost

\* What the watcher, the service and the pipelines agree on.
TurnInv ==
  /\ EditsCounted /\ Turns /\ Prepared /\ ActivePlanned /\ ActiveLive
  /\ NothingPlanned /\ Ages /\ Unused /\ PipelinesKept

ReloadInv == Types /\ TurnInv /\ LeaseInv
-----------------------------------------------------------------------------
(* Frames                                                                  *)

\* Attempts are numbers, and None is none.
LEMMA Constants ==
  /\ MaxEdits \in Nat /\ EventCapacity \in Nat /\ NoStore \notin Keys
  /\ None \notin Nat /\ None # TRUE /\ None # FALSE
  /\ Attempts \subseteq Nat /\ 0 \in Attempts
<1>1. /\ MaxEdits \in Nat /\ EventCapacity \in Nat /\ NoStore \notin Keys
      /\ None \notin Nat /\ None # TRUE /\ None # FALSE
  BY ReloadAssumption
<1>2. Attempts \subseteq Nat /\ 0 \in Attempts
  BY <1>1 DEF Attempts
<1> QED BY <1>1, <1>2

\* A config names listeners and keys.
LEMMA ConfigFacts ==
  /\ Bound \subseteq Listeners
  /\ \A c \in AllConfigs :
       /\ StoreListeners(c) \subseteq DOMAIN c
       /\ DOMAIN c \subseteq Listeners
       /\ \A l \in Listeners : KeyOf(c, l) \in Keys \cup {NoStore}
       /\ \A l \in Listeners : l \in StoreListeners(c) <=> KeyOf(c, l) # NoStore
<1>1. \A c \in AllConfigs : IsConfig(c)
  BY ReloadAssumption DEF AllConfigs
<1>2. Bound \subseteq Listeners
  BY <1>1 DEF Bound, AllConfigs, IsConfig
<1>3. \A c \in AllConfigs :
        /\ StoreListeners(c) \subseteq DOMAIN c
        /\ DOMAIN c \subseteq Listeners
        /\ \A l \in Listeners : KeyOf(c, l) \in Keys \cup {NoStore}
        /\ \A l \in Listeners : l \in StoreListeners(c) <=> KeyOf(c, l) # NoStore
  BY <1>1 DEF IsConfig, StoreListeners, KeyOf
<1> QED BY <1>2, <1>3

\* The numbers of the watcher.
LEMMA WatchFacts ==
  ASSUME Types
  PROVE  /\ watcher.pc \in WatcherPcs /\ watcher.seen \in Nat /\ watcher.seen <= disk.edits
         /\ watcher.new \in AllConfigs \cup {None} /\ watcher.todo \in SUBSET Bound
         /\ watcher.attempt \in Attempts /\ watcher.attempt \in Nat
         /\ events \in 0..EventCapacity /\ events \in Nat
         /\ disk.edits \in 0..MaxEdits /\ disk.edits \in Nat /\ disk.dirty \in BOOLEAN
         /\ watcher.pc \in Reloading => watcher.new \in AllConfigs /\ watcher.attempt > 0
<1>1. Attempts \subseteq Nat /\ MaxEdits \in Nat /\ EventCapacity \in Nat
  BY Constants
<1>2. /\ watcher.pc \in WatcherPcs /\ watcher.seen \in Nat /\ watcher.seen <= disk.edits
      /\ watcher.new \in AllConfigs \cup {None} /\ watcher.todo \in SUBSET Bound
      /\ watcher.attempt \in Attempts
      /\ watcher.pc \in Reloading => watcher.new \in AllConfigs /\ watcher.attempt > 0
  BY DEF Types, WatcherType
<1>3. events \in 0..EventCapacity /\ disk.edits \in 0..MaxEdits
  BY DEF Types, EventsType, DiskType
<1>4. events \in Nat /\ disk.edits \in Nat
  BY <1>1, <1>3
<1>6. watcher.attempt \in Attempts
  BY <1>2
<1>7. watcher.attempt \in Nat
  BY <1>1, <1>6
<1>5. disk.dirty \in BOOLEAN
  BY DEF Types, DiskType
<1> QED BY <1>2, <1>3, <1>4, <1>5, <1>7, Zenon

\* A step outside the service and the pools leaves the leases as they are.
LEMMA LeaseFrame ==
  ASSUME LeaseInv, UNCHANGED <<service, serverVars, poolVars>>
  PROVE  LeaseInv'
<1>1. /\ service' = service /\ plans' = plans /\ active' = active /\ pending' = pending
      /\ drains' = drains /\ releasing' = releasing /\ retiring' = retiring
      /\ current' = current /\ holders' = holders /\ backends' = backends
  BY DEF serverVars, poolVars
<1>2. PoolsServe' /\ RetiringGone' /\ StoresOnly'
  BY <1>1 DEF LeaseInv, PoolsServe, RetiringGone, StoresOnly
<1>3. Builds' /\ Provisioned'
  BY <1>1 DEF LeaseInv, Builds, Provisioned, KeyAt, Lease
<1>4. ReadyHeld' /\ NoLeaseLost'
  BY <1>1 DEF LeaseInv, ReadyHeld, Kept, NoLeaseLost
<1> QED BY <1>2, <1>3, <1>4 DEF LeaseInv

\* Types of what a step outside the service and the pools leaves alone.
LEMMA ServiceTypesFrame ==
  ASSUME Types, UNCHANGED <<service, serverVars, poolVars>>
  PROVE  ServiceType' /\ PlansType' /\ MembersType' /\ PoolType'
  BY DEF Types, ServiceType, PlansType, MembersType, PoolType, serverVars, poolVars

\* Types of what a step outside the watcher and the requests leaves alone.
LEMMA WatchTypesFrame ==
  ASSUME Types, UNCHANGED <<watchVars, requests>>
  PROVE  /\ DiskType' /\ EventsType' /\ WatcherType' /\ current_config' \in AllConfigs
         /\ PipelinesType'
  BY DEF Types, DiskType, EventsType, WatcherType, PipelinesType, watchVars

\* A step of the watcher before its reload commits: what it leaves to show is
\* that it keeps its turn.
LEMMA UncommittedStep ==
  ASSUME Types, TurnInv, ~Committed, ~Committed',
         UNCHANGED <<current_config, live, requests, service, serverVars, poolVars>>,
         \A a \in Attempts : (Unpublished(a)' => Unpublished(a)) /\ (Unplanned(a)' => Unplanned(a)),
         EditsCounted', Turns', Prepared', NothingPlanned'
  PROVE  TurnInv'
<1>1. /\ plans' = plans /\ active' = active /\ drains' = drains /\ releasing' = releasing
      /\ holders' = holders /\ current_config' = current_config /\ live' = live
      /\ requests' = requests
  BY DEF serverVars, poolVars
<1>2. ActivePlanned'
  BY <1>1 DEF TurnInv, ActivePlanned
<1>3. ActiveLive'
  BY <1>1 DEF TurnInv, ActiveLive
<1>4. Ages'
  BY <1>1 DEF TurnInv, Ages
<1>5. Unused'
  BY <1>1 DEF TurnInv, Unused
<1>6. PipelinesKept'
  BY <1>1 DEF TurnInv, PipelinesKept
<1> QED BY <1>2, <1>3, <1>4, <1>5, <1>6 DEF TurnInv

\* A step that changes neither the watcher nor what it agrees on.
LEMMA TurnFrame ==
  ASSUME Types, TurnInv, EditsCounted',
         UNCHANGED <<watcher, current_config, live, requests, command, reply, service,
                     readiness, serverVars, poolVars>>
  PROVE  TurnInv'
<1>1. /\ plans' = plans /\ active' = active /\ drains' = drains /\ releasing' = releasing
      /\ pending' = pending /\ holders' = holders /\ current_config' = current_config
      /\ live' = live /\ requests' = requests /\ watcher' = watcher /\ command' = command
      /\ reply' = reply /\ service' = service /\ readiness' = readiness
  BY DEF serverVars, poolVars
<1>2. (Committed' <=> Committed) /\ (NeedsStore' <=> NeedsStore) /\ OldPipelines' = OldPipelines
  BY <1>1 DEF Committed, NeedsStore, OldPipelines
<1>3. \A a \in Attempts : (Unpublished(a)' <=> Unpublished(a)) /\ (Unplanned(a)' <=> Unplanned(a))
  BY <1>1, <1>2 DEF Unpublished, Unplanned
<1>4. Turns' /\ Prepared' /\ NothingPlanned'
  BY <1>1, <1>2 DEF TurnInv, Turns, Prepared, NothingPlanned, Running
<1>5. ActivePlanned' /\ ActiveLive'
  BY <1>1, <1>2 DEF TurnInv, ActivePlanned, ActiveLive
<1>6. Ages' /\ Unused'
  BY <1>1, <1>3 DEF TurnInv, Ages, Unused
<1>7. PipelinesKept'
  BY <1>1 DEF TurnInv, PipelinesKept
<1> QED BY <1>4, <1>5, <1>6, <1>7 DEF TurnInv

-----------------------------------------------------------------------------
(* The file and the requests                                               *)

\* An edit counts for itself.
LEMMA EditStep ==
  ASSUME ReloadInv, NEW content \in Configs \cup {Broken}, Edit(content) PROVE ReloadInv'
<1>1. /\ disk.edits < MaxEdits
      /\ disk' = [content |-> content, edits |-> disk.edits + 1, dirty |-> TRUE]
      /\ UNCHANGED <<events, watcher, current_config, live, requests, command, reply,
                     service, readiness, shutdown, serverVars, poolVars>>
  BY DEF Edit
<1>2. disk.edits \in 0..MaxEdits /\ disk.dirty \in BOOLEAN
  BY DEF ReloadInv, Types, DiskType
<1>3. disk'.edits = disk.edits + 1 /\ disk'.dirty = TRUE
  BY <1>1
<1>4. DiskType'
  BY <1>1, <1>2, Constants DEF DiskType, AllConfigs
<1>5. /\ watcher.attempt \in Nat /\ events \in Nat /\ watcher.seen \in Nat
      /\ watcher.seen <= disk.edits
  BY WatchFacts DEF ReloadInv
<1>6. EditsCounted'
  BY <1>1, <1>2, <1>3, <1>5, Constants DEF ReloadInv, TurnInv, EditsCounted
<1>7. TurnInv'
  BY <1>1, <1>6, TurnFrame DEF ReloadInv
<1>8. LeaseInv'
  BY <1>1, LeaseFrame DEF ReloadInv
<1>9. WatcherType'
  BY <1>1, <1>2, <1>3, <1>5, Constants DEF ReloadInv, Types, WatcherType
<1>10. EventsType' /\ PipelinesType' /\ MessagesType' /\ current_config' \in AllConfigs
  BY <1>1 DEF ReloadInv, Types, EventsType, PipelinesType, MessagesType
<1>11. Types'
  BY <1>1, <1>4, <1>9, <1>10, ServiceTypesFrame DEF ReloadInv, Types
<1> QED BY <1>7, <1>8, <1>11 DEF ReloadInv

\* A notification stands for the edit that raised it.
LEMMA NotifyStep == ASSUME ReloadInv, Notify PROVE ReloadInv'
<1>1. /\ disk.dirty /\ disk' = [disk EXCEPT !.dirty = FALSE]
      /\ events' = IF events < EventCapacity THEN events + 1 ELSE events
      /\ UNCHANGED <<watcher, current_config, live, requests, command, reply,
                     service, readiness, shutdown, serverVars, poolVars>>
  BY DEF Notify
<1>2. disk \in [content : AllConfigs \cup {Broken}, edits : 0..MaxEdits, dirty : BOOLEAN]
  BY DEF ReloadInv, Types, DiskType
<1>3. disk'.edits = disk.edits /\ disk'.dirty = FALSE /\ DiskType'
  BY <1>1, <1>2 DEF DiskType
<1>4. /\ watcher.attempt \in Nat /\ events \in 0..EventCapacity /\ watcher.seen \in Nat
      /\ disk.edits \in Nat
  BY WatchFacts DEF ReloadInv
<1>5. EventsType'
  BY <1>1, <1>4, Constants DEF EventsType
<1>6. EditsCounted'
  BY <1>1, <1>3, <1>4, Constants DEF ReloadInv, TurnInv, EditsCounted
<1>7. TurnInv'
  BY <1>1, <1>6, TurnFrame DEF ReloadInv
<1>8. LeaseInv'
  BY <1>1, LeaseFrame DEF ReloadInv
<1>9. WatcherType' /\ PipelinesType' /\ MessagesType' /\ current_config' \in AllConfigs
  BY <1>1, <1>3 DEF ReloadInv, Types, WatcherType, PipelinesType, MessagesType
<1>10. Types'
  BY <1>1, <1>3, <1>5, <1>9, ServiceTypesFrame DEF ReloadInv, Types
<1> QED BY <1>7, <1>8, <1>10 DEF ReloadInv

\* A request starts on a pipeline that is live, or lets its pipeline go.
LEMMA RequestStep ==
  ASSUME ReloadInv, NEW r \in Requests,
         \/ \E l \in Bound : RequestBegin(r, l)
         \/ RequestEnd(r)
  PROVE  ReloadInv'
<1>1. /\ UNCHANGED <<watchVars, command, reply, service, readiness, shutdown,
                     serverVars, poolVars>>
      /\ \/ \E l \in Bound : requests' = [requests EXCEPT ![r] = <<l, live[l]>>]
         \/ requests' = [requests EXCEPT ![r] = None]
  BY DEF RequestBegin, RequestEnd
<1>2. /\ disk' = disk /\ events' = events /\ watcher' = watcher
      /\ current_config' = current_config /\ live' = live
      /\ plans' = plans /\ active' = active /\ drains' = drains /\ pending' = pending
      /\ releasing' = releasing /\ holders' = holders
      /\ command' = command /\ reply' = reply /\ service' = service /\ readiness' = readiness
  BY <1>1 DEF watchVars, serverVars, poolVars
<1>3. /\ requests \in [Requests -> (Bound \X Attempts) \cup {None}]
      /\ live \in [Bound -> Attempts]
  BY DEF ReloadInv, Types, PipelinesType
<1>4. requests' \in [Requests -> (Bound \X Attempts) \cup {None}]
  BY <1>1, <1>3
<1>5. \A s \in Requests : \/ requests'[s] \in {None, requests[s]}
                          \/ \E l \in Bound : requests'[s] = <<l, live[l]>>
  BY <1>1, <1>3
<1>6. Types'
  <2>1. /\ DiskType' /\ EventsType' /\ WatcherType' /\ MessagesType'
        /\ current_config' \in AllConfigs
    BY <1>2 DEF ReloadInv, Types, DiskType, EventsType, WatcherType, MessagesType
  <2>2. PipelinesType'
    BY <1>2, <1>3, <1>4 DEF PipelinesType
  <2> QED BY <1>1, <2>1, <2>2, ServiceTypesFrame DEF ReloadInv, Types
<1>7. LeaseInv'
  BY <1>1, LeaseFrame DEF ReloadInv
<1>8. (Committed' <=> Committed) /\ (NeedsStore' <=> NeedsStore) /\ OldPipelines' = OldPipelines
  BY <1>2 DEF Committed, NeedsStore, OldPipelines
<1>9. \A a \in Attempts : (Unpublished(a)' <=> Unpublished(a)) /\ (Unplanned(a)' <=> Unplanned(a))
  BY <1>2, <1>8 DEF Unpublished, Unplanned
<1>10. EditsCounted' /\ Turns' /\ Prepared' /\ NothingPlanned'
  BY <1>2, <1>8 DEF ReloadInv, TurnInv, EditsCounted, Turns, Prepared, NothingPlanned, Running
<1>11. ActivePlanned' /\ ActiveLive'
  BY <1>2, <1>8 DEF ReloadInv, TurnInv, ActivePlanned, ActiveLive
<1>12. Ages'
  <2>1. ASSUME NEW a \in Attempts, Unpublished(a), NEW s \in Requests, requests'[s] # None
        PROVE  requests'[s][2] < a
    BY <1>5, <2>1 DEF ReloadInv, TurnInv, Ages
  <2> QED BY <1>2, <1>9, <2>1 DEF ReloadInv, TurnInv, Ages
<1>13. Unused'
  BY <1>2, <1>9 DEF ReloadInv, TurnInv, Unused
<1>14. PipelinesKept'
  <2> SUFFICES ASSUME NEW l \in Bound, NEW a \in Attempts, plans[a].key[l] # NoStore,
                      \/ live[l] = a
                      \/ \E s \in Requests : requests'[s] # None /\ requests'[s] = <<l, a>>
               PROVE  a = active \/ \E d \in drains : d.attempt = a /\ <<l, a>> \in d.old
    BY <1>2 DEF PipelinesKept
  <2>1. \/ live[l] = a
        \/ \E s \in Requests : requests[s] # None /\ requests[s] = <<l, a>>
    BY <1>5
  <2> QED BY <2>1 DEF ReloadInv, TurnInv, PipelinesKept
<1> QED BY <1>6, <1>7, <1>10, <1>11, <1>12, <1>13, <1>14 DEF ReloadInv, TurnInv

\* Nothing in the invariant depends on the shutdown flag.
LEMMA ShutdownStep == ASSUME ReloadInv, Shutdown PROVE ReloadInv'
<1>1. UNCHANGED <<watchVars, requests, command, reply, service, readiness,
                  serverVars, poolVars>>
  BY DEF Shutdown
<1>2. EditsCounted'
  BY <1>1 DEF watchVars, ReloadInv, TurnInv, EditsCounted
<1>3. TurnInv' /\ LeaseInv'
  BY <1>1, <1>2, TurnFrame, LeaseFrame DEF watchVars, ReloadInv
<1>4. MessagesType'
  BY <1>1 DEF ReloadInv, Types, MessagesType
<1> QED BY <1>1, <1>3, <1>4, ServiceTypesFrame, WatchTypesFrame DEF ReloadInv, Types

-----------------------------------------------------------------------------
(* The watcher                                                             *)

\* Whoever leaves the watcher no turn: the service does not work for it.
LEMMA WatcherTurn ==
  ASSUME ReloadInv, watcher.pc \notin Waiting \/ reply # None
  PROVE  /\ command = None
         /\ service.pc \in {"initial", "initialrollback", "loop", "stopped"}
         /\ watcher.pc \notin Waiting => reply = None
<1>1. Turns /\ service.pc \in ServicePcs
  BY DEF ReloadInv, TurnInv, Types, ServiceType
<1>2. command = None
  <2>1. ASSUME command # None PROVE FALSE
    <3>1. command.kind \in {"Prepare", "Commit", "Abort"}
      BY <2>1 DEF ReloadInv, Types, MessagesType
    <3> QED BY <1>1, <2>1, <3>1 DEF Turns, Waiting
  <2> QED BY <2>1
<1>3. service.pc \in {"initial", "initialrollback", "loop", "stopped"}
  BY <1>1 DEF Turns, Waiting, ServicePcs
<1>4. watcher.pc \notin Waiting => reply = None
  BY <1>1 DEF Turns
<1> QED BY <1>2, <1>3, <1>4

\* The watcher moves on without the service: to an idle state, or on to what it
\* does alone.
LEMMA WatcherMoves ==
  ASSUME ReloadInv, ~Committed, command = None,
         service.pc \in {"initial", "initialrollback", "loop", "stopped"},
         UNCHANGED <<disk, current_config, live, requests, command, service, readiness,
                     serverVars, poolVars>>,
         reply' = None,
         EventsType', WatcherType', EditsCounted',
         watcher'.pc \in {"idle", "debounce", "read", "validate", "build"},
         pending # {} => watcher'.pc = "build",
         watcher'.pc = "build" =>
           /\ watcher.pc \in {"validate", "prepare"}
           /\ watcher'.attempt = watcher.attempt /\ watcher'.new = watcher.new
           /\ watcher.pc = "validate" => ~NeedsStore,
         \/ watcher'.attempt = watcher.attempt /\ watcher'.pc # "validate"
         \/ watcher'.attempt = watcher.attempt + 1
  PROVE  ReloadInv'
<1>1. /\ plans' = plans /\ active' = active /\ drains' = drains /\ releasing' = releasing
      /\ pending' = pending /\ holders' = holders /\ current_config' = current_config
      /\ live' = live /\ requests' = requests /\ command' = None /\ disk' = disk
      /\ reply' = None /\ service' = service /\ readiness' = readiness
  BY DEF serverVars, poolVars
<1>2. ~Committed'
  BY DEF Committed
<1>3. watcher.attempt \in Nat /\ Attempts \subseteq Nat
  BY WatchFacts, Constants DEF ReloadInv
<1>4. \A a \in Attempts : (Unpublished(a)' => Unpublished(a)) /\ (Unplanned(a)' => Unplanned(a))
  <2> SUFFICES ASSUME NEW a \in Attempts
               PROVE  (Unpublished(a)' => Unpublished(a)) /\ (Unplanned(a)' => Unplanned(a))
    OBVIOUS
  <2>1. a \in Nat /\ command' = None
    BY <1>1, <1>3
  <2>2. CASE watcher'.attempt = watcher.attempt + 1
    <3>1. a > watcher'.attempt \/ a = watcher'.attempt => a > watcher.attempt
      BY <1>3, <2>1, <2>2
    <3> QED BY <3>1 DEF Unpublished, Unplanned
  <2>3. CASE watcher'.attempt = watcher.attempt /\ watcher'.pc # "validate"
    <3>1. Unplanned(a)' => Unplanned(a)
      BY <2>1, <2>3 DEF Unplanned
    <3>2. watcher'.pc \in Reloading => watcher'.pc = "build"
      BY <2>3 DEF Reloading
    <3>3. watcher'.pc = "build" => watcher.pc \in Reloading
      BY DEF Reloading, WatcherPcs
    <3>4. Unpublished(a)' => Unpublished(a)
      BY <2>3, <3>2, <3>3 DEF Unpublished
    <3> QED BY <3>1, <3>4
  <2> QED BY <2>2, <2>3
<1>5. watcher'.pc = "build" => (NeedsStore' <=> NeedsStore)
  BY <1>1 DEF NeedsStore
<1>6. Turns'
  <2>1. watcher'.pc \notin Waiting
    BY DEF Waiting
  <2>2. service.pc \in {"initial", "initialrollback"} => service.attempt = 0 /\ active = 0
    BY DEF ReloadInv, TurnInv, Turns
  <2> QED BY <1>1, <2>1, <2>2 DEF Turns
<1>7. Prepared'
  <2>1. ASSUME pending # {}
        PROVE  /\ pending = {watcher'.attempt} /\ service.pc = "loop" /\ NeedsStore'
               /\ \A l \in Listeners : plans[watcher'.attempt].key[l] = KeyOf(watcher'.new, l)
    BY <1>5, <2>1 DEF ReloadInv, TurnInv, Prepared
  <2>2. service.pc # "provision"
    OBVIOUS
  <2> QED BY <1>1, <1>2, <2>1, <2>2 DEF Prepared
<1>8. NothingPlanned'
  <2>1. SUFFICES ASSUME watcher'.pc = "build", ~NeedsStore' PROVE plans[watcher'.attempt] = NoPlan
    BY <1>1 DEF NothingPlanned
  <2>2. watcher.pc = "validate"
    BY <1>5, <2>1 DEF ReloadInv, TurnInv, Turns, Waiting
  <2>3. watcher.attempt \in Attempts /\ Unplanned(watcher.attempt)
    BY <2>2, WatchFacts DEF Unplanned, ReloadInv
  <2> QED BY <2>1, <2>3 DEF ReloadInv, TurnInv, Unused
<1>9. TurnInv'
  BY <1>2, <1>4, <1>6, <1>7, <1>8, UncommittedStep DEF ReloadInv
<1>10. LeaseInv'
  BY LeaseFrame DEF ReloadInv
<1>11. DiskType' /\ PipelinesType' /\ MessagesType' /\ current_config' \in AllConfigs
  BY <1>1 DEF ReloadInv, Types, DiskType, PipelinesType, MessagesType
<1>12. Types'
  BY <1>11, ServiceTypesFrame DEF ReloadInv, Types
<1> QED BY <1>9, <1>10, <1>12 DEF ReloadInv

\* The watcher gives up, or ends an abort, once it has no generation left.
LEMMA GiveUpStep ==
  ASSUME ReloadInv, ~Committed, pending = {}, command = None,
         service.pc \in {"initial", "initialrollback", "loop", "stopped"},
         watcher' = Idle(watcher), reply' = None,
         UNCHANGED <<disk, events, current_config, live, requests, command, service,
                     readiness, serverVars, poolVars>>
  PROVE  ReloadInv'
<1>1. watcher \in [pc : WatcherPcs, seen : Nat, new : AllConfigs \cup {None},
                   attempt : Attempts, todo : SUBSET Bound]
  BY DEF ReloadInv, Types, WatcherType
<1>2. /\ watcher'.pc = "idle" /\ watcher'.attempt = watcher.attempt
      /\ watcher'.seen = watcher.seen
      /\ watcher' \in [pc : WatcherPcs, seen : Nat, new : AllConfigs \cup {None},
                       attempt : Attempts, todo : SUBSET Bound]
  BY <1>1 DEF Idle, WatcherPcs
<1>3. WatcherType' /\ EventsType'
  BY <1>2 DEF ReloadInv, Types, WatcherType, EventsType, Reloading
<1>4. /\ watcher.attempt \in Nat /\ events \in Nat /\ disk.edits \in Nat
  BY WatchFacts DEF ReloadInv
<1>5. EditsCounted'
  BY <1>2, <1>4 DEF ReloadInv, TurnInv, EditsCounted
<1> QED BY <1>2, <1>3, <1>5, WatcherMoves

\* The watcher wakes up on an event, and empties its channel.
LEMMA WakeDrainStep == ASSUME ReloadInv, WatcherWake \/ WatcherDrain PROVE ReloadInv'
<1>1. /\ UNCHANGED <<disk, current_config, live, requests, command, reply, service,
                     readiness, shutdown, serverVars, poolVars>>
      /\ \/ /\ watcher.pc = "idle" /\ events > 0 /\ events' = events - 1
            /\ watcher' = [watcher EXCEPT !.pc = "debounce"]
         \/ /\ watcher.pc = "debounce" /\ events' = 0
            /\ watcher' = [watcher EXCEPT !.pc = "read"]
  BY DEF WatcherWake, WatcherDrain, WatcherAt
<1>2. watcher \in [pc : WatcherPcs, seen : Nat, new : AllConfigs \cup {None},
                   attempt : Attempts, todo : SUBSET Bound]
  BY DEF ReloadInv, Types, WatcherType
<1>3. /\ watcher'.attempt = watcher.attempt /\ watcher'.seen = watcher.seen
      /\ watcher'.pc = IF watcher.pc = "idle" THEN "debounce" ELSE "read"
      /\ watcher' \in [pc : WatcherPcs, seen : Nat, new : AllConfigs \cup {None},
                       attempt : Attempts, todo : SUBSET Bound]
  BY <1>1, <1>2 DEF WatcherPcs
<1>4. watcher.pc \in {"idle", "debounce"}
  BY <1>1
<1>5. /\ watcher.attempt \in Nat /\ events \in 0..EventCapacity /\ disk.edits \in Nat
      /\ EventCapacity \in Nat /\ watcher.seen <= disk.edits
  BY WatchFacts, Constants DEF ReloadInv
<1>6. events' \in 0..EventCapacity /\ events' \in Nat
      /\ events' + (IF watcher.pc = "idle" THEN 1 ELSE 0) <= events
  BY <1>1, <1>5
<1>7. EventsType' /\ disk' = disk
  BY <1>1, <1>6 DEF EventsType
<1>8. WatcherType'
  BY <1>3, <1>4, <1>5, <1>7 DEF WatcherType, Reloading
<1>9. EditsCounted'
  <2>1. /\ watcher'.attempt = watcher.attempt /\ watcher'.pc \in {"debounce", "read"}
        /\ EditsCounted
    BY <1>3 DEF ReloadInv, TurnInv
  <2> DEFINE dirt == IF disk.dirty THEN 1 ELSE 0
             idle == IF watcher.pc = "idle" THEN 1 ELSE 0
  <2>2. dirt \in Nat /\ idle \in Nat /\ events' + idle <= events
    BY <1>6
  <2>3. watcher.attempt + events + dirt + (1 - idle) <= disk.edits
    BY <1>4, <2>1 DEF EditsCounted
  <2>5. watcher.attempt \in Nat /\ events \in Nat /\ events' \in Nat /\ disk.edits \in Nat
    BY <1>5, <1>6
  <2>6. \A p, e, f, d, i, n \in Nat : p + e + d + (1 - i) <= n /\ f + i <= e => p + f + d + 1 <= n
    OBVIOUS
  <2> HIDE DEF dirt, idle
  <2>4. watcher.attempt + events' + dirt + 1 <= disk.edits
    BY <2>2, <2>3, <2>5, <2>6
  <2> QED BY <1>7, <2>1, <2>4 DEF EditsCounted, dirt
<1>10. watcher.pc \notin Waiting /\ ~Committed /\ pending = {}
  BY <1>4 DEF Waiting, Committed, ReloadInv, TurnInv, Prepared
<1>11. /\ command = None /\ reply = None
       /\ service.pc \in {"initial", "initialrollback", "loop", "stopped"}
  BY <1>10, WatcherTurn
<1>12. watcher'.pc \in {"debounce", "read"} /\ reply' = None
  BY <1>1, <1>3, <1>11
<1> QED BY <1>1, <1>3, <1>7, <1>8, <1>9, <1>10, <1>11, <1>12, WatcherMoves

\* What the watcher reads becomes an attempt of its own, unless it is no config.
LEMMA ReadStep == ASSUME ReloadInv, WatcherRead PROVE ReloadInv'
<1>1. /\ UNCHANGED <<disk, events, current_config, live, requests, command, reply,
                     service, readiness, shutdown, serverVars, poolVars>>
      /\ watcher.pc = "read"
      /\ watcher' = IF disk.content = Broken
                    THEN [Idle(watcher) EXCEPT !.seen = disk.edits]
                    ELSE [watcher EXCEPT !.pc = "validate", !.seen = disk.edits,
                                         !.new = disk.content, !.attempt = @ + 1]
  BY DEF WatcherRead, WatcherAt
<1>2. watcher \in [pc : WatcherPcs, seen : Nat, new : AllConfigs \cup {None},
                   attempt : Attempts, todo : SUBSET Bound]
  BY DEF ReloadInv, Types, WatcherType
<1>3. /\ watcher.attempt \in Nat /\ events \in Nat /\ disk.edits \in 0..MaxEdits
      /\ MaxEdits \in Nat /\ disk.edits \in Nat
  BY WatchFacts, Constants DEF ReloadInv
<1>4. watcher.attempt + 1 + events + (IF disk.dirty THEN 1 ELSE 0) <= disk.edits
  BY <1>1, <1>3 DEF ReloadInv, TurnInv, EditsCounted
<1>5. watcher.attempt + 1 \in Attempts
  BY <1>3, <1>4 DEF Attempts
<1>6. disk.content \in AllConfigs \cup {Broken}
  BY DEF ReloadInv, Types, DiskType
<1>7. /\ watcher'.seen = disk.edits
      /\ watcher' \in [pc : WatcherPcs, seen : Nat, new : AllConfigs \cup {None},
                       attempt : Attempts, todo : SUBSET Bound]
      /\ \/ watcher'.pc = "idle" /\ watcher'.attempt = watcher.attempt
         \/ /\ watcher'.pc = "validate" /\ watcher'.attempt = watcher.attempt + 1
            /\ watcher'.new \in AllConfigs
  BY <1>1, <1>2, <1>3, <1>5, <1>6 DEF Idle, WatcherPcs
<1>8. disk' = disk /\ events' = events
  BY <1>1
<1>9. EventsType' /\ WatcherType'
  <2>1. EventsType'
    BY <1>8 DEF ReloadInv, Types, EventsType
  <2>2. watcher'.pc \in Reloading => watcher'.new \in AllConfigs /\ watcher'.attempt > 0
    BY <1>3, <1>7 DEF Reloading
  <2>3. watcher'.seen <= disk'.edits
    BY <1>3, <1>7, <1>8
  <2> QED BY <1>7, <2>1, <2>2, <2>3 DEF WatcherType
<1>10. EditsCounted'
  <2>1. watcher'.pc \in {"idle", "validate"} /\ watcher'.attempt \in Nat
        /\ watcher'.attempt <= watcher.attempt + 1
    BY <1>3, <1>7
  <2> QED BY <1>3, <1>4, <1>8, <2>1 DEF EditsCounted
<1>11. watcher.pc \notin Waiting /\ ~Committed /\ pending = {}
  BY <1>1 DEF Waiting, Committed, ReloadInv, TurnInv, Prepared
<1>12. /\ command = None /\ reply = None
       /\ service.pc \in {"initial", "initialrollback", "loop", "stopped"}
  BY <1>11, WatcherTurn
<1>13. /\ watcher'.pc \in {"idle", "validate"} /\ reply' = None
       /\ \/ watcher'.attempt = watcher.attempt /\ watcher'.pc # "validate"
          \/ watcher'.attempt = watcher.attempt + 1
  BY <1>1, <1>7, <1>12
<1> QED BY <1>1, <1>9, <1>10, <1>11, <1>12, <1>13, WatcherMoves

\* The watcher asks the service, which works for nobody else.
LEMMA SendStep ==
  ASSUME ReloadInv, NEW message, NEW pc, NeedsStore, service.pc # "stopped",
         \/ /\ watcher.pc = "validate" /\ pc = "prepare"
            /\ message = [kind |-> "Prepare", attempt |-> watcher.attempt, old |-> {}]
         \/ /\ watcher.pc = "build" /\ pc = "abort"
            /\ message = [kind |-> "Abort", attempt |-> watcher.attempt, old |-> {}]
         \/ /\ watcher.pc = "build" /\ pc = "commit"
            /\ message = [kind |-> "Commit", attempt |-> watcher.attempt,
                          old |-> OldPipelines],
         command' = message, watcher' = [watcher EXCEPT !.pc = pc],
         UNCHANGED <<disk, events, current_config, live, requests, reply, service,
                     readiness, shutdown, serverVars, poolVars>>
  PROVE  ReloadInv'
<1>1. /\ plans' = plans /\ active' = active /\ drains' = drains /\ releasing' = releasing
      /\ pending' = pending /\ holders' = holders /\ current_config' = current_config
      /\ live' = live /\ requests' = requests /\ disk' = disk /\ events' = events
      /\ reply' = reply /\ service' = service /\ readiness' = readiness
  BY DEF serverVars, poolVars
<1>2. watcher.pc \in {"validate", "build"}
  OBVIOUS
<1>3. watcher.pc \notin Waiting /\ ~Committed
  BY <1>2 DEF Waiting, Committed
<1>4. /\ command = None /\ reply = None
      /\ service.pc \in {"initial", "initialrollback", "loop"}
  BY <1>3, WatcherTurn
<1>5. /\ watcher \in [pc : WatcherPcs, seen : Nat, new : AllConfigs \cup {None},
                      attempt : Attempts, todo : SUBSET Bound]
      /\ watcher.new \in AllConfigs /\ watcher.attempt > 0 /\ watcher.seen <= disk.edits
  BY <1>2 DEF ReloadInv, Types, WatcherType, Reloading, WatcherPcs
<1>6. pc \in Waiting /\ pc \in WatcherPcs /\ pc \in Reloading
  BY DEF Waiting, WatcherPcs, Reloading
<1>7. /\ watcher'.pc = pc /\ watcher'.attempt = watcher.attempt /\ watcher'.new = watcher.new
      /\ watcher'.seen = watcher.seen
      /\ watcher' \in [pc : WatcherPcs, seen : Nat, new : AllConfigs \cup {None},
                       attempt : Attempts, todo : SUBSET Bound]
  BY <1>5, <1>6
<1>8. OldPipelines \in SUBSET (Bound \X Attempts)
  BY DEF OldPipelines, ReloadInv, Types, PipelinesType
<1>9. /\ message.kind \in {"Prepare", "Commit", "Abort"} /\ message.attempt = watcher.attempt
      /\ message.kind = "Commit" => message.old = OldPipelines
      /\ pc = CASE message.kind = "Prepare" -> "prepare"
                [] message.kind = "Commit" -> "commit"
                [] message.kind = "Abort" -> "abort"
      /\ message \in [kind : {"Prepare", "Commit", "Abort"}, attempt : Attempts,
                      old : SUBSET (Bound \X Attempts)]
  BY <1>5, <1>8
<1>10. (NeedsStore' <=> NeedsStore) /\ OldPipelines' = OldPipelines /\ ~Committed'
  BY <1>1, <1>4, <1>6, <1>7, Constants DEF NeedsStore, OldPipelines, Committed, Waiting
<1>11. Types'
  <2>1. DiskType' /\ EventsType' /\ PipelinesType' /\ current_config' \in AllConfigs
    BY <1>1 DEF ReloadInv, Types, DiskType, EventsType, PipelinesType
  <2>2. WatcherType'
    BY <1>1, <1>5, <1>6, <1>7 DEF WatcherType
  <2>3. MessagesType'
    BY <1>1, <1>9 DEF ReloadInv, Types, MessagesType
  <2> QED BY <2>1, <2>2, <2>3, ServiceTypesFrame DEF ReloadInv, Types
<1>12. LeaseInv'
  BY LeaseFrame DEF ReloadInv
<1>13. \A a \in Attempts : (Unpublished(a)' => Unpublished(a)) /\ (Unplanned(a)' => Unplanned(a))
  <2>1. watcher.pc \in Reloading
    BY <1>2 DEF Reloading, WatcherPcs
  <2>2. watcher'.pc # "validate" /\ (watcher'.pc = "prepare" => watcher.pc = "validate")
    BY <1>7
  <2> QED BY <1>3, <1>7, <2>1, <2>2 DEF Unpublished, Unplanned
<1>14. EditsCounted'
  <2>1. watcher'.pc \notin {"debounce", "read"} /\ watcher.pc \notin {"debounce", "read"}
    BY <1>2, <1>7
  <2> QED BY <1>1, <1>7, <2>1 DEF ReloadInv, TurnInv, EditsCounted
<1>15. Turns'
  <2>1. service.pc \in {"initial", "initialrollback"} => service.attempt = 0 /\ active = 0
    BY DEF ReloadInv, TurnInv, Turns
  <2> QED BY <1>1, <1>4, <1>6, <1>7, <1>9, <1>10, <2>1 DEF Turns
<1>16. Prepared'
  <2>1. pending # {} =>
          /\ pending = {watcher.attempt} /\ service.pc = "loop" /\ watcher.pc = "build"
          /\ \A l \in Listeners : plans[watcher.attempt].key[l] = KeyOf(watcher.new, l)
    BY <1>2 DEF ReloadInv, TurnInv, Prepared, Waiting
  <2>2. watcher'.pc = "prepare" => watcher.pc = "validate"
    BY <1>7
  <2>3. /\ service'.pc # "provision" /\ reply' = None /\ watcher'.pc \in Waiting \cup {"build"}
        /\ NeedsStore'
    BY <1>1, <1>4, <1>6, <1>7, <1>10
  <2> QED BY <1>1, <1>7, <1>10, <2>1, <2>2, <2>3 DEF Prepared
<1>17. NothingPlanned'
  BY <1>10 DEF NothingPlanned
<1>18. TurnInv'
  BY <1>3, <1>10, <1>13, <1>14, <1>15, <1>16, <1>17, UncommittedStep DEF ReloadInv
<1> QED BY <1>11, <1>12, <1>18 DEF ReloadInv

\* The watcher gives up before the service has anything of it.
LEMMA ValidateFailStep == ASSUME ReloadInv, ValidateFail PROVE ReloadInv'
<1>1. /\ watcher.pc = "validate" /\ watcher' = Idle(watcher)
      /\ UNCHANGED <<disk, events, current_config, live, requests, command, reply, service,
                     readiness, serverVars, poolVars>>
  BY DEF ValidateFail, WatcherGiveUp, WatcherAt
<1>2. watcher.pc \notin Waiting /\ ~Committed /\ pending = {}
  BY <1>1 DEF Waiting, Committed, ReloadInv, TurnInv, Prepared
<1>3. /\ command = None /\ reply = None
      /\ service.pc \in {"initial", "initialrollback", "loop", "stopped"}
  BY <1>2, WatcherTurn
<1> QED BY <1>1, <1>2, <1>3, GiveUpStep

\* A message is sent, or nobody is there to take it.
LEMMA SendPrepareStep == ASSUME ReloadInv, SendPrepare PROVE ReloadInv'
<1>1. watcher.pc = "validate" /\ NeedsStore
  BY DEF SendPrepare, WatcherAt
<1>2. CASE service.pc = "stopped"
  <2>1. ValidateFail
    BY <1>2 DEF SendPrepare, Send, ValidateFail
  <2> QED BY <2>1, ValidateFailStep
<1>3. CASE service.pc # "stopped"
  <2> DEFINE msg == [kind |-> "Prepare", attempt |-> watcher.attempt, old |-> {}]
  <2>1. /\ command' = msg /\ watcher' = [watcher EXCEPT !.pc = "prepare"]
        /\ UNCHANGED <<disk, events, current_config, live, requests, reply, service,
                       readiness, shutdown, serverVars, poolVars>>
    BY <1>3 DEF SendPrepare, Send
  <2> QED BY <1>1, <1>3, <2>1, SendStep
<1> QED BY <1>2, <1>3

\* A reload without stores goes to the build by itself; one with stores once its
\* generation is prepared.
LEMMA ToBuildStep ==
  ASSUME ReloadInv, ~Committed, command = None,
         service.pc \in {"initial", "initialrollback", "loop", "stopped"},
         watcher.pc \in {"validate", "prepare"}, watcher.pc = "validate" => ~NeedsStore,
         watcher' = [watcher EXCEPT !.pc = "build"], reply' = None,
         UNCHANGED <<disk, events, current_config, live, requests, command, service,
                     readiness, serverVars, poolVars>>
  PROVE  ReloadInv'
<1>1. /\ watcher \in [pc : WatcherPcs, seen : Nat, new : AllConfigs \cup {None},
                      attempt : Attempts, todo : SUBSET Bound]
      /\ watcher.new \in AllConfigs /\ watcher.attempt > 0 /\ watcher.seen <= disk.edits
  BY DEF ReloadInv, Types, WatcherType, Reloading, WatcherPcs
<1>2. /\ watcher'.pc = "build" /\ watcher'.attempt = watcher.attempt
      /\ watcher'.new = watcher.new /\ watcher'.seen = watcher.seen
      /\ watcher' \in [pc : WatcherPcs, seen : Nat, new : AllConfigs \cup {None},
                       attempt : Attempts, todo : SUBSET Bound]
  BY <1>1 DEF WatcherPcs
<1>3. EventsType' /\ WatcherType'
  BY <1>1, <1>2 DEF ReloadInv, Types, EventsType, WatcherType
<1>4. EditsCounted'
  <2>1. watcher'.pc \notin {"debounce", "read"} /\ watcher.pc \notin {"debounce", "read"}
    BY <1>2
  <2> QED BY <1>2, <2>1 DEF ReloadInv, TurnInv, EditsCounted
<1> QED BY <1>2, <1>3, <1>4, WatcherMoves

\* No store is needed.
LEMMA NoPrepareStep == ASSUME ReloadInv, NoPrepare PROVE ReloadInv'
<1>1. /\ watcher.pc = "validate" /\ ~NeedsStore /\ watcher' = [watcher EXCEPT !.pc = "build"]
      /\ UNCHANGED <<disk, events, current_config, live, requests, command, reply, service,
                     readiness, serverVars, poolVars>>
  BY DEF NoPrepare, WatcherAt
<1>2. watcher.pc \notin Waiting /\ ~Committed
  BY <1>1 DEF Waiting, Committed
<1>3. /\ command = None /\ reply = None
      /\ service.pc \in {"initial", "initialrollback", "loop", "stopped"}
  BY <1>2, WatcherTurn
<1> QED BY <1>1, <1>2, <1>3, ToBuildStep

\* The answer to Prepare or Abort.
LEMMA AwaitStep == ASSUME ReloadInv, AwaitPrepare \/ AwaitAbort PROVE ReloadInv'
<1>1. /\ reply # None /\ reply' = None
      /\ UNCHANGED <<disk, events, current_config, live, requests, command, service,
                     readiness, serverVars, poolVars>>
      /\ \/ /\ watcher.pc = "prepare"
            /\ watcher' = IF reply THEN [watcher EXCEPT !.pc = "build"] ELSE Idle(watcher)
         \/ /\ watcher.pc = "abort"
            /\ watcher' = IF reply THEN [watcher EXCEPT !.pc = "idle"] ELSE Idle(watcher)
  BY DEF AwaitPrepare, AwaitAbort, Await, WatcherAt
<1>2. /\ command = None
      /\ service.pc \in {"initial", "initialrollback", "loop", "stopped"}
  BY <1>1, WatcherTurn
<1>3. ~Committed /\ reply \in BOOLEAN
  BY <1>1 DEF Committed, ReloadInv, Types, MessagesType
<1>4. CASE watcher.pc = "prepare" /\ reply = TRUE
  <2>1. watcher' = [watcher EXCEPT !.pc = "build"]
    BY <1>1, <1>4
  <2> QED BY <1>1, <1>2, <1>3, <1>4, <2>1, ToBuildStep
<1>5. CASE reply = FALSE
  <2>1. watcher' = Idle(watcher)
    BY <1>1, <1>5
  <2>2. pending = {}
    BY <1>5, Constants DEF ReloadInv, TurnInv, Prepared
  <2> QED BY <1>1, <1>2, <1>3, <2>1, <2>2, GiveUpStep
<1>6. CASE watcher.pc = "abort" /\ reply = TRUE
  <2>1. watcher' = [watcher EXCEPT !.pc = "idle"]
    BY <1>1, <1>6
  <2>2. pending = {}
    BY <1>6, Constants DEF ReloadInv, TurnInv, Prepared
  <2>3. /\ watcher \in [pc : WatcherPcs, seen : Nat, new : AllConfigs \cup {None},
                        attempt : Attempts, todo : SUBSET Bound]
        /\ watcher.seen <= disk.edits
    BY DEF ReloadInv, Types, WatcherType
  <2>4. /\ watcher'.pc = "idle" /\ watcher'.attempt = watcher.attempt
        /\ watcher'.seen = watcher.seen
        /\ watcher' \in [pc : WatcherPcs, seen : Nat, new : AllConfigs \cup {None},
                         attempt : Attempts, todo : SUBSET Bound]
    BY <2>1, <2>3 DEF WatcherPcs
  <2>5. EventsType' /\ WatcherType'
    BY <1>1, <2>3, <2>4 DEF ReloadInv, Types, EventsType, WatcherType, Reloading
  <2>6. EditsCounted'
    <3>1. watcher'.pc \notin {"debounce", "read"} /\ watcher.pc \notin {"debounce", "read"}
      BY <1>6, <2>4
    <3> QED BY <1>1, <2>4, <3>1 DEF ReloadInv, TurnInv, EditsCounted
  <2> QED BY <1>1, <1>2, <1>3, <2>2, <2>4, <2>5, <2>6, WatcherMoves
<1> QED BY <1>1, <1>3, <1>4, <1>5, <1>6

\* No answer will come any more.
LEMMA AwaitGoneStep == ASSUME ReloadInv, AwaitGone PROVE ReloadInv'
<1>1. /\ watcher.pc \in Waiting /\ service.pc = "stopped" /\ reply = None /\ command = None
      /\ watcher' = Idle(watcher) /\ reply' = reply
      /\ UNCHANGED <<disk, events, current_config, live, requests, command, service,
                     readiness, serverVars, poolVars>>
  BY DEF AwaitGone, WatcherGiveUp, Waiting
<1>2. ~Committed /\ pending = {}
  BY <1>1, Constants DEF Committed, Waiting, ReloadInv, TurnInv, Prepared
<1> QED BY <1>1, <1>2, GiveUpStep

\* Without a service, or without a store, a failed build ends the reload.
LEMMA BuildFailStep == ASSUME ReloadInv, BuildFail PROVE ReloadInv'
<1>1. watcher.pc = "build"
  BY DEF BuildFail, WatcherAt
<1>2. watcher.pc \notin Waiting /\ ~Committed
  BY <1>1 DEF Waiting, Committed
<1>3. /\ command = None /\ reply = None
      /\ service.pc \in {"initial", "initialrollback", "loop", "stopped"}
  BY <1>2, WatcherTurn
<1>4. CASE ~NeedsStore \/ service.pc = "stopped"
  <2>1. WatcherGiveUp /\ UNCHANGED <<command, reply>>
    BY <1>4 DEF BuildFail, Send
  <2>2. pending = {}
    BY <1>4 DEF ReloadInv, TurnInv, Prepared
  <2>3. /\ watcher' = Idle(watcher) /\ reply' = None
        /\ UNCHANGED <<disk, events, current_config, live, requests, command, service,
                       readiness, serverVars, poolVars>>
    BY <1>3, <2>1 DEF WatcherGiveUp
  <2> QED BY <1>2, <1>3, <2>2, <2>3, GiveUpStep
<1>5. CASE NeedsStore /\ service.pc # "stopped"
  <2> DEFINE msg == [kind |-> "Abort", attempt |-> watcher.attempt, old |-> {}]
  <2>1. /\ command' = msg /\ watcher' = [watcher EXCEPT !.pc = "abort"]
        /\ UNCHANGED <<disk, events, current_config, live, requests, reply, service,
                       readiness, shutdown, serverVars, poolVars>>
    BY <1>5 DEF BuildFail, Send
  <2> QED BY <1>1, <1>5, <2>1, SendStep
<1> QED BY <1>4, <1>5

\* The reload becomes one that cannot be given up any more: with a store because
\* the service has committed, without one because there is nothing to commit.
LEMMA PublishBeginStep ==
  ASSUME ReloadInv, command = None,
         service.pc \in {"initial", "initialrollback", "loop", "stopped"},
         \/ watcher.pc = "commit" /\ Committed
         \/ watcher.pc = "build" /\ ~NeedsStore,
         watcher' = Published, reply' = None,
         UNCHANGED <<disk, events, current_config, live, requests, command, service,
                     readiness, shutdown, serverVars, poolVars>>
  PROVE  ReloadInv'
<1>1. /\ plans' = plans /\ active' = active /\ drains' = drains /\ releasing' = releasing
      /\ pending' = pending /\ holders' = holders /\ current_config' = current_config
      /\ live' = live /\ requests' = requests /\ disk' = disk /\ events' = events
      /\ service' = service /\ readiness' = readiness /\ command' = None /\ reply' = None
  BY DEF serverVars, poolVars
<1>2. /\ watcher \in [pc : WatcherPcs, seen : Nat, new : AllConfigs \cup {None},
                      attempt : Attempts, todo : SUBSET Bound]
      /\ watcher.new \in AllConfigs /\ watcher.attempt > 0 /\ watcher.seen <= disk.edits
  BY DEF ReloadInv, Types, WatcherType, Reloading, WatcherPcs
<1>3. /\ watcher'.pc = "publish" /\ watcher'.attempt = watcher.attempt
      /\ watcher'.new = watcher.new /\ watcher'.seen = watcher.seen
      /\ watcher'.todo = DOMAIN watcher.new \cap Bound
      /\ watcher' \in [pc : WatcherPcs, seen : Nat, new : AllConfigs \cup {None},
                       attempt : Attempts, todo : SUBSET Bound]
  BY <1>2 DEF Published, WatcherPcs
<1>4. watcher.new \in AllConfigs /\ current_config \in AllConfigs
  BY <1>2 DEF ReloadInv, Types
<1>5. Committed' /\ (NeedsStore' <=> NeedsStore)
  BY <1>1, <1>3 DEF Committed, NeedsStore
<1>6. pending = {}
  BY DEF ReloadInv, TurnInv, Prepared
<1>7. Types'
  <2>1. DiskType' /\ EventsType' /\ PipelinesType' /\ MessagesType' /\ current_config' \in AllConfigs
    BY <1>1 DEF ReloadInv, Types, DiskType, EventsType, PipelinesType, MessagesType
  <2>2. WatcherType'
    BY <1>1, <1>2, <1>3 DEF WatcherType
  <2> QED BY <2>1, <2>2, ServiceTypesFrame DEF ReloadInv, Types
<1>8. LeaseInv'
  BY LeaseFrame DEF ReloadInv
<1>9. EditsCounted'
  <2>1. watcher'.pc \notin {"debounce", "read"} /\ watcher.pc \notin {"debounce", "read"}
    BY <1>3
  <2> QED BY <1>1, <1>3, <2>1 DEF ReloadInv, TurnInv, EditsCounted
<1>10. Turns'
  <2>1. service.pc \in {"initial", "initialrollback"} => service.attempt = 0 /\ active = 0
    BY DEF ReloadInv, TurnInv, Turns
  <2> QED BY <1>1, <1>3, <2>1 DEF Turns, Waiting
<1>11. Prepared'
  BY <1>1, <1>6 DEF Prepared
<1>12. NeedsStore \/ ~Committed
  BY DEF ReloadInv, TurnInv, Turns, Waiting, Committed
<1>13. ActivePlanned'
  <2>1. CASE Committed
    BY <1>1, <1>3, <1>5, <2>1 DEF ReloadInv, TurnInv, ActivePlanned
  <2>2. CASE ~Committed
    <3>1. StoreListeners(watcher.new) = {} /\ StoreListeners(current_config) = {}
      BY <2>2 DEF NeedsStore
    <3>2. \A l \in Listeners : KeyOf(watcher.new, l) = NoStore /\ KeyOf(current_config, l) = NoStore
      BY <1>4, <3>1, ConfigFacts
    <3> QED BY <1>1, <1>3, <1>5, <2>2, <3>2 DEF ReloadInv, TurnInv, ActivePlanned
  <2> QED BY <2>1, <2>2
<1>14. ActiveLive'
  <2>1. NeedsStore => active = watcher.attempt
    BY <1>12 DEF ReloadInv, TurnInv, ActiveLive
  <2>2. StoreListeners(watcher.new) \subseteq DOMAIN watcher.new
    BY <1>4, ConfigFacts
  <2>3. (StoreListeners(watcher'.new) \cap Bound) \ watcher'.todo = {}
    BY <1>3, <2>2
  <2> QED BY <1>1, <1>3, <1>5, <2>1, <2>3 DEF ActiveLive
<1>15. NothingPlanned'
  BY <1>1, <1>3, <1>5, <1>12 DEF ReloadInv, TurnInv, NothingPlanned
<1>16. \A a \in Attempts : (Unpublished(a)' => Unpublished(a)) /\ (Unplanned(a)' => Unplanned(a))
  BY <1>3, <1>5 DEF Unpublished, Unplanned
<1>17. Ages' /\ Unused' /\ PipelinesKept'
  BY <1>1, <1>16 DEF ReloadInv, TurnInv, Ages, Unused, PipelinesKept
<1> QED BY <1>7, <1>8, <1>9, <1>10, <1>11, <1>13, <1>14, <1>15, <1>17 DEF ReloadInv, TurnInv

\* The pipelines are built.
LEMMA BuildOkStep == ASSUME ReloadInv, BuildOk PROVE ReloadInv'
<1>1. watcher.pc = "build"
  BY DEF BuildOk, WatcherAt
<1>2. watcher.pc \notin Waiting /\ ~Committed
  BY <1>1 DEF Waiting, Committed
<1>3. /\ command = None /\ reply = None
      /\ service.pc \in {"initial", "initialrollback", "loop", "stopped"}
  BY <1>2, WatcherTurn
<1>4. CASE NeedsStore /\ service.pc = "stopped"
  <2>1. WatcherGiveUp /\ UNCHANGED <<command, reply>>
    BY <1>4 DEF BuildOk, Send
  <2>2. pending = {}
    BY <1>4 DEF ReloadInv, TurnInv, Prepared
  <2>3. /\ watcher' = Idle(watcher) /\ reply' = None
        /\ UNCHANGED <<disk, events, current_config, live, requests, command, service,
                       readiness, serverVars, poolVars>>
    BY <1>3, <2>1 DEF WatcherGiveUp
  <2> QED BY <1>2, <1>3, <2>2, <2>3, GiveUpStep
<1>5. CASE NeedsStore /\ service.pc # "stopped"
  <2> DEFINE msg == [kind |-> "Commit", attempt |-> watcher.attempt, old |-> OldPipelines]
  <2>1. /\ command' = msg /\ watcher' = [watcher EXCEPT !.pc = "commit"]
        /\ UNCHANGED <<disk, events, current_config, live, requests, reply, service,
                       readiness, shutdown, serverVars, poolVars>>
    BY <1>5 DEF BuildOk, Send
  <2> QED BY <1>1, <1>5, <2>1, SendStep
<1>6. CASE ~NeedsStore
  <2>1. /\ watcher' = Published /\ reply' = None
        /\ UNCHANGED <<disk, events, current_config, live, requests, command, service,
                       readiness, shutdown, serverVars, poolVars>>
    BY <1>3, <1>6 DEF BuildOk
  <2> QED BY <1>1, <1>3, <1>6, <2>1, PublishBeginStep
<1> QED BY <1>4, <1>5, <1>6

\* The answer to Commit.
LEMMA AwaitCommitStep == ASSUME ReloadInv, AwaitCommit PROVE ReloadInv'
<1>1. /\ watcher.pc = "commit" /\ reply # None /\ reply' = None
      /\ watcher' = IF reply THEN Published ELSE Idle(watcher)
      /\ UNCHANGED <<disk, events, current_config, live, requests, command, service,
                     readiness, shutdown, serverVars, poolVars>>
  BY DEF AwaitCommit, WatcherAt
<1>2. /\ command = None
      /\ service.pc \in {"initial", "initialrollback", "loop", "stopped"}
  BY <1>1, WatcherTurn
<1>3. reply \in BOOLEAN
  BY <1>1 DEF ReloadInv, Types, MessagesType
<1>4. CASE reply = TRUE
  <2>1. Committed /\ watcher' = Published
    BY <1>1, <1>4 DEF Committed
  <2> QED BY <1>1, <1>2, <2>1, PublishBeginStep
<1>5. CASE reply = FALSE
  <2>1. ~Committed /\ watcher' = Idle(watcher)
    BY <1>1, <1>5 DEF Committed
  <2>2. pending = {}
    BY <1>5, Constants DEF ReloadInv, TurnInv, Prepared
  <2> QED BY <1>1, <1>2, <2>1, <2>2, GiveUpStep
<1> QED BY <1>3, <1>4, <1>5

\* A listener gets the pipeline of the generation that is active already.
LEMMA PublishStep == ASSUME ReloadInv, NEW l \in Bound, Publish(l) PROVE ReloadInv'
<1>1. /\ watcher.pc = "publish" /\ l \in watcher.todo
      /\ live' = [live EXCEPT ![l] = watcher.attempt]
      /\ watcher' = [watcher EXCEPT !.todo = @ \ {l}]
      /\ UNCHANGED <<disk, events, current_config, requests, command, reply, service,
                     readiness, shutdown, serverVars, poolVars>>
  BY DEF Publish, WatcherAt
<1>2. /\ plans' = plans /\ active' = active /\ drains' = drains /\ releasing' = releasing
      /\ pending' = pending /\ holders' = holders /\ current_config' = current_config
      /\ requests' = requests /\ disk' = disk /\ events' = events
      /\ service' = service /\ readiness' = readiness /\ command' = command /\ reply' = reply
  BY <1>1 DEF serverVars, poolVars
<1>3. /\ watcher \in [pc : WatcherPcs, seen : Nat, new : AllConfigs \cup {None},
                      attempt : Attempts, todo : SUBSET Bound]
      /\ watcher.new \in AllConfigs /\ watcher.attempt > 0 /\ watcher.seen <= disk.edits
  BY <1>1 DEF ReloadInv, Types, WatcherType, Reloading, WatcherPcs
<1>4. /\ watcher'.pc = "publish" /\ watcher'.attempt = watcher.attempt
      /\ watcher'.new = watcher.new /\ watcher'.seen = watcher.seen
      /\ watcher'.todo = watcher.todo \ {l}
      /\ watcher' \in [pc : WatcherPcs, seen : Nat, new : AllConfigs \cup {None},
                       attempt : Attempts, todo : SUBSET Bound]
  BY <1>1, <1>3
<1>5. Committed /\ Committed' /\ (NeedsStore' <=> NeedsStore)
  BY <1>1, <1>2, <1>4 DEF Committed, NeedsStore
<1>6. /\ live \in [Bound -> Attempts] /\ live' \in [Bound -> Attempts]
      /\ live'[l] = watcher.attempt
      /\ \A m \in Bound : m # l => live'[m] = live[m]
  BY <1>1, <1>3 DEF ReloadInv, Types, PipelinesType
<1>7. pending = {} /\ watcher.pc \notin Waiting
  BY <1>1 DEF ReloadInv, TurnInv, Prepared, Waiting
<1>8. /\ command = None /\ reply = None
      /\ service.pc \in {"initial", "initialrollback", "loop", "stopped"}
  BY <1>7, WatcherTurn
<1>9. Types'
  <2>1. DiskType' /\ EventsType' /\ MessagesType' /\ current_config' \in AllConfigs
    BY <1>2 DEF ReloadInv, Types, DiskType, EventsType, MessagesType
  <2>2. WatcherType'
    BY <1>2, <1>3, <1>4 DEF WatcherType
  <2>3. PipelinesType'
    BY <1>2, <1>6 DEF ReloadInv, Types, PipelinesType
  <2> QED BY <1>1, <2>1, <2>2, <2>3, ServiceTypesFrame DEF ReloadInv, Types
<1>10. LeaseInv'
  BY <1>1, LeaseFrame DEF ReloadInv
<1>11. EditsCounted'
  BY <1>1, <1>2, <1>4 DEF ReloadInv, TurnInv, EditsCounted
<1>12. Turns'
  <2>1. service.pc \in {"initial", "initialrollback"} => service.attempt = 0 /\ active = 0
    BY DEF ReloadInv, TurnInv, Turns
  <2> QED BY <1>2, <1>4, <1>8, <2>1 DEF Turns, Waiting
<1>13. Prepared'
  <2>1. service'.pc # "provision" /\ pending' = {}
    BY <1>2, <1>7, <1>8
  <2> QED BY <2>1 DEF Prepared
<1>14. ActivePlanned'
  BY <1>2, <1>4, <1>5 DEF ReloadInv, TurnInv, ActivePlanned
<1>15. NeedsStore => active = watcher.attempt
  BY <1>5 DEF ReloadInv, TurnInv, ActiveLive
<1>16. ActiveLive'
  <2> SUFFICES ASSUME NEW m \in (StoreListeners(watcher.new) \cap Bound) \ (watcher.todo \ {l})
               PROVE  live'[m] = active
    BY <1>2, <1>4, <1>5, <1>15 DEF ActiveLive
  <2>1. CASE m = l
    <3>1. NeedsStore
      BY DEF NeedsStore
    <3> QED BY <1>6, <1>15, <2>1, <3>1
  <2>2. CASE m # l
    <3>1. live[m] = active
      BY <1>1, <1>5, <2>2 DEF ReloadInv, TurnInv, ActiveLive
    <3> QED BY <1>6, <2>2, <3>1
  <2> QED BY <2>1, <2>2
<1>17. NothingPlanned'
  BY <1>1, <1>2, <1>4, <1>5 DEF ReloadInv, TurnInv, NothingPlanned
<1>18. \A a \in Attempts : /\ (Unpublished(a)' => Unpublished(a)) /\ (Unplanned(a)' => Unplanned(a))
                           /\ Unpublished(a)' => watcher.attempt < a
  <2>1. watcher.attempt \in Nat /\ Attempts \subseteq Nat
    BY WatchFacts, Constants DEF ReloadInv
  <2> QED BY <1>2, <1>4, <1>5, <2>1 DEF Unpublished, Unplanned
<1>19. Ages'
  <2>1. ASSUME NEW a \in Attempts, Unpublished(a)', NEW m \in Bound PROVE live'[m] < a
    BY <1>6, <1>18, <2>1 DEF ReloadInv, TurnInv, Ages
  <2> QED BY <1>2, <1>18, <2>1 DEF ReloadInv, TurnInv, Ages
<1>20. Unused'
  BY <1>2, <1>18 DEF ReloadInv, TurnInv, Unused
<1>21. PipelinesKept'
  <2> SUFFICES ASSUME NEW m \in Bound, NEW a \in Attempts, plans[a].key[m] # NoStore,
                      \/ live'[m] = a
                      \/ \E s \in Requests : requests[s] # None /\ requests[s] = <<m, a>>
               PROVE  a = active \/ \E d \in drains : d.attempt = a /\ <<m, a>> \in d.old
    BY <1>2 DEF PipelinesKept
  <2>1. CASE m = l /\ a = watcher.attempt
    <3>1. m \in Listeners
      BY ConfigFacts
    <3>2. ~NeedsStore => plans[a].key[m] = NoStore
      BY <1>1, <2>1, <3>1 DEF ReloadInv, TurnInv, NothingPlanned, NoPlan
    <3> QED BY <1>15, <2>1, <3>2
  <2>2. CASE ~(m = l /\ a = watcher.attempt)
    <3>1. \/ live[m] = a
          \/ \E s \in Requests : requests[s] # None /\ requests[s] = <<m, a>>
      BY <1>6, <2>2
    <3> QED BY <3>1 DEF ReloadInv, TurnInv, PipelinesKept
  <2> QED BY <2>1, <2>2
<1> QED BY <1>9, <1>10, <1>11, <1>12, <1>13, <1>14, <1>16, <1>17, <1>19, <1>20, <1>21
        DEF ReloadInv, TurnInv

\* Every listener of the new config with a store serves the active generation.
LEMMA PublishEndStep == ASSUME ReloadInv, PublishEnd PROVE ReloadInv'
<1>1. /\ watcher.pc = "publish" /\ watcher.todo = {} /\ current_config' = watcher.new
      /\ watcher' = Idle(watcher)
      /\ UNCHANGED <<disk, events, live, requests, command, reply, service, readiness,
                     shutdown, serverVars, poolVars>>
  BY DEF PublishEnd, WatcherAt
<1>2. /\ plans' = plans /\ active' = active /\ drains' = drains /\ releasing' = releasing
      /\ pending' = pending /\ holders' = holders /\ live' = live
      /\ requests' = requests /\ disk' = disk /\ events' = events
      /\ service' = service /\ readiness' = readiness /\ command' = command /\ reply' = reply
  BY <1>1 DEF serverVars, poolVars
<1>3. /\ watcher \in [pc : WatcherPcs, seen : Nat, new : AllConfigs \cup {None},
                      attempt : Attempts, todo : SUBSET Bound]
      /\ watcher.new \in AllConfigs /\ watcher.attempt > 0 /\ watcher.seen <= disk.edits
  BY <1>1 DEF ReloadInv, Types, WatcherType, Reloading, WatcherPcs
<1>4. /\ watcher'.pc = "idle" /\ watcher'.attempt = watcher.attempt
      /\ watcher'.seen = watcher.seen
      /\ watcher' \in [pc : WatcherPcs, seen : Nat, new : AllConfigs \cup {None},
                       attempt : Attempts, todo : SUBSET Bound]
  BY <1>1, <1>3 DEF Idle, WatcherPcs
<1>5. Committed /\ ~Committed'
  BY <1>1, <1>4 DEF Committed
<1>6. pending = {} /\ watcher.pc \notin Waiting
  BY <1>1 DEF ReloadInv, TurnInv, Prepared, Waiting
<1>7. /\ command = None /\ reply = None
      /\ service.pc \in {"initial", "initialrollback", "loop", "stopped"}
  BY <1>6, WatcherTurn
<1>8. Types'
  <2>1. DiskType' /\ EventsType' /\ MessagesType' /\ PipelinesType' /\ current_config' \in AllConfigs
    BY <1>1, <1>2, <1>3 DEF ReloadInv, Types, DiskType, EventsType, MessagesType, PipelinesType
  <2>2. WatcherType'
    BY <1>2, <1>3, <1>4 DEF WatcherType, Reloading
  <2> QED BY <1>1, <2>1, <2>2, ServiceTypesFrame DEF ReloadInv, Types
<1>9. LeaseInv'
  BY <1>1, LeaseFrame DEF ReloadInv
<1>10. EditsCounted'
  BY <1>1, <1>2, <1>4 DEF ReloadInv, TurnInv, EditsCounted
<1>11. Turns'
  <2>1. service.pc \in {"initial", "initialrollback"} => service.attempt = 0 /\ active = 0
    BY DEF ReloadInv, TurnInv, Turns
  <2> QED BY <1>2, <1>4, <1>7, <2>1 DEF Turns, Waiting
<1>12. Prepared'
  <2>1. service'.pc # "provision" /\ pending' = {}
    BY <1>2, <1>6, <1>7
  <2> QED BY <2>1 DEF Prepared
<1>13. ActivePlanned'
  BY <1>1, <1>2, <1>5 DEF ReloadInv, TurnInv, ActivePlanned
<1>14. ActiveLive'
  <2>1. \A l \in (StoreListeners(watcher.new) \cap Bound) \ watcher.todo : live[l] = active
    BY <1>1, <1>5 DEF ReloadInv, TurnInv, ActiveLive
  <2> QED BY <1>1, <1>2, <1>5, <2>1 DEF ActiveLive
<1>15. NothingPlanned'
  BY <1>4 DEF NothingPlanned
<1>16. \A a \in Attempts : (Unpublished(a)' => Unpublished(a)) /\ (Unplanned(a)' => Unplanned(a))
  BY <1>4 DEF Unpublished, Unplanned, Reloading
<1>17. Ages' /\ Unused' /\ PipelinesKept'
  BY <1>2, <1>16 DEF ReloadInv, TurnInv, Ages, Unused, PipelinesKept
<1> QED BY <1>8, <1>9, <1>10, <1>11, <1>12, <1>13, <1>14, <1>15, <1>17 DEF ReloadInv, TurnInv

\* Every step of the watcher.
LEMMA WatcherStep == ASSUME ReloadInv, Watcher PROVE ReloadInv'
  BY WakeDrainStep, ReadStep, ValidateFailStep, SendPrepareStep, NoPrepareStep, AwaitStep,
     AwaitGoneStep, BuildFailStep, BuildOkStep, AwaitCommitStep, PublishStep, PublishEndStep
  DEF Watcher

-----------------------------------------------------------------------------
(* The provisioning service                                                *)

\* The attempt the service provisions is not one that waits for its plan, nor one
\* that needs none.
LEMMA WorkPlanned ==
  ASSUME ReloadInv, service.pc \in Provisioning \cup {"rollback", "initialrollback"}
  PROVE  /\ ~Unplanned(service.attempt)
         /\ watcher.pc \in {"build", "publish"} => service.attempt # watcher.attempt
         /\ pending = {}
         /\ \A d \in drains : d.attempt # service.attempt
<1>1. /\ watcher.attempt \in Nat
      /\ watcher.pc \in Reloading => watcher.attempt > 0
  BY WatchFacts DEF ReloadInv
<1>2. Turns /\ Prepared /\ Ages /\ active \in Attempts /\ Attempts \subseteq Nat
  BY Constants DEF ReloadInv, TurnInv, Types, MembersType
<1>3. pending = {}
  BY <1>2 DEF Prepared, Provisioning
<1>4. CASE service.attempt = 0 /\ active = 0
  <2>1. \A d \in drains : d.attempt \in Nat
    BY <1>2 DEF ReloadInv, Types, MembersType
  <2>2. \A d \in drains : d.attempt # service.attempt
    BY <1>2, <1>4, <2>1 DEF Ages
  <2>3. watcher.pc \in {"build", "publish", "validate", "prepare"} => watcher.pc \in Reloading
    BY DEF Reloading, WatcherPcs
  <2> QED BY <1>1, <1>3, <1>4, <2>2, <2>3 DEF Unplanned
<1>5. CASE watcher.pc = "prepare" /\ command = None /\ reply = None
           /\ service.attempt = watcher.attempt
  <2>1. ~Unplanned(service.attempt)
    BY <1>1, <1>5 DEF Unplanned
  <2>2. Unpublished(watcher.attempt) /\ watcher.attempt \in Attempts
    BY <1>5, WatchFacts DEF Unpublished, Committed, Reloading, WatcherPcs, ReloadInv
  <2>3. active < watcher.attempt
    BY <1>2, <2>2 DEF Ages
  <2>4. \A d \in drains : d.attempt \in Nat
    BY <1>2 DEF ReloadInv, Types, MembersType
  <2>5. \A d \in drains : d.attempt # service.attempt
    BY <1>1, <1>2, <1>5, <2>3, <2>4 DEF Ages
  <2> QED BY <1>3, <1>5, <2>1, <2>5
<1> QED BY <1>2, <1>4, <1>5 DEF Turns, Provisioning

\* A step of the service that leaves the generations in service as they are.
LEMMA ServiceQuiet ==
  ASSUME ReloadInv, UNCHANGED <<watchVars, requests, active, drains>>,
         Committed' <=> Committed,
         \A a \in Attempts : /\ \A l \in Listeners : plans'[a].key[l] = plans[a].key[l]
                             /\ plans'[a] # plans[a] =>
                                  a = service.attempt /\ service.pc \in Provisioning,
         \A a \in Attempts : Unplanned(a)' =>
           /\ Unplanned(a)
           /\ \A l \in Listeners :
                /\ <<a, l>> \in releasing' => <<a, l>> \in releasing
                /\ \A k \in Keys : <<a, l>> \in holders'[k] => <<a, l>> \in holders[k],
         Turns', Prepared'
  PROVE  TurnInv'
<1>1. /\ disk' = disk /\ events' = events /\ watcher' = watcher
      /\ current_config' = current_config /\ live' = live /\ requests' = requests
      /\ active' = active /\ drains' = drains
  BY DEF watchVars
<1>2. (NeedsStore' <=> NeedsStore) /\ EditsCounted'
  BY <1>1 DEF NeedsStore, ReloadInv, TurnInv, EditsCounted
<1>3. active \in Attempts /\ watcher.attempt \in Attempts
  BY WatchFacts DEF ReloadInv, Types, MembersType
<1>4. ActivePlanned'
  BY <1>1, <1>3 DEF ReloadInv, TurnInv, ActivePlanned
<1>5. ActiveLive'
  BY <1>1, <1>2 DEF ReloadInv, TurnInv, ActiveLive
<1>6. NothingPlanned'
  <2>1. SUFFICES ASSUME watcher.pc \in {"build", "publish"}, ~NeedsStore
                 PROVE  plans'[watcher.attempt] = NoPlan
    BY <1>1, <1>2 DEF NothingPlanned
  <2>2. plans'[watcher.attempt] = plans[watcher.attempt]
    BY <1>3, <2>1, WorkPlanned
  <2> QED BY <2>1, <2>2 DEF ReloadInv, TurnInv, NothingPlanned
<1>7. \A a \in Attempts : Unpublished(a)' <=> Unpublished(a)
  BY <1>1 DEF Unpublished
<1>8. Ages'
  BY <1>1, <1>7 DEF ReloadInv, TurnInv, Ages
<1>9. Unused'
  <2> SUFFICES ASSUME NEW a \in Attempts, Unplanned(a)'
               PROVE  /\ plans'[a] = NoPlan
                      /\ \A l \in Listeners :
                           /\ <<a, l>> \notin releasing'
                           /\ \A k \in Keys : <<a, l>> \notin holders'[k]
    BY DEF Unused
  <2>1. plans'[a] = plans[a]
    BY WorkPlanned
  <2> QED BY <2>1 DEF ReloadInv, TurnInv, Unused
<1>10. PipelinesKept'
  <2>1. \A l \in Bound : l \in Listeners
    BY ConfigFacts
  <2> QED BY <1>1, <2>1 DEF ReloadInv, TurnInv, PipelinesKept
<1> QED BY <1>2, <1>4, <1>5, <1>6, <1>8, <1>9, <1>10 DEF TurnInv

\* A command names the reload under way, which has not committed.
LEMMA CommandFacts ==
  ASSUME ReloadInv, command # None
  PROVE  /\ command.attempt = watcher.attempt /\ command.attempt \in Attempts
         /\ reply = None /\ ~Committed
         /\ command.kind \in {"Prepare", "Commit", "Abort"}
         /\ command.kind = "Prepare" => watcher.pc = "prepare" /\ pending = {}
         /\ command.kind = "Commit" => watcher.pc = "commit" /\ command.old = OldPipelines
         /\ command.kind = "Abort" => watcher.pc = "abort"
         /\ command.old \in SUBSET (Bound \X Attempts)
         /\ watcher.pc \in Waiting /\ NeedsStore
         /\ Unpublished(watcher.attempt) /\ active < watcher.attempt
<1>1. /\ command.kind \in {"Prepare", "Commit", "Abort"} /\ command.attempt \in Attempts
      /\ command.old \in SUBSET (Bound \X Attempts)
  BY DEF ReloadInv, Types, MessagesType
<1>2. /\ reply = None /\ command.attempt = watcher.attempt
      /\ command.kind = "Prepare" => watcher.pc = "prepare"
      /\ command.kind = "Commit" => watcher.pc = "commit" /\ command.old = OldPipelines
      /\ command.kind = "Abort" => watcher.pc = "abort"
  BY <1>1 DEF ReloadInv, TurnInv, Turns
<1>3. watcher.pc \in Waiting /\ ~Committed
  BY <1>1, <1>2, Constants DEF Waiting, Committed
<1>4. NeedsStore
  BY <1>3 DEF ReloadInv, TurnInv, Turns
<1>5. watcher.pc = "prepare" => pending = {}
  BY DEF ReloadInv, TurnInv, Prepared
<1>6. watcher.pc \in Reloading
  BY <1>3 DEF Waiting, Reloading, WatcherPcs
<1>7. Unpublished(watcher.attempt) /\ watcher.attempt \in Attempts
  BY <1>1, <1>2, <1>3, <1>6 DEF Unpublished
<1>8. active < watcher.attempt
  BY <1>7 DEF ReloadInv, TurnInv, Ages
<1> QED BY <1>1, <1>2, <1>3, <1>4, <1>5, <1>7, <1>8

\* The service has prepared no generation while it works on one.
LEMMA PrepareRejectStep == ASSUME ReloadInv, PrepareReject PROVE ReloadInv'
<1>1. /\ service.pc = "loop" /\ command # None /\ command.kind = "Prepare" /\ command' = None
      /\ reply' = FALSE
      /\ UNCHANGED <<watchVars, requests, service, readiness, shutdown, serverVars, poolVars>>
  BY DEF PrepareReject, ServiceAt
<1>2. /\ watcher' = watcher /\ current_config' = current_config /\ plans' = plans
      /\ active' = active /\ pending' = pending /\ service' = service
      /\ releasing' = releasing /\ holders' = holders
  BY <1>1 DEF watchVars, serverVars, poolVars
<1>3. watcher.pc = "prepare" /\ watcher.pc \in Waiting /\ pending = {} /\ NeedsStore
  BY <1>1, CommandFacts
<1>4. ~Committed /\ ~Committed' /\ NeedsStore'
  BY <1>2, <1>3 DEF Committed, NeedsStore
<1>5. Turns' /\ Prepared'
  BY <1>1, <1>2, <1>3, <1>4 DEF Turns, Prepared
<1>6. \A a \in Attempts : Unplanned(a)' => Unplanned(a)
  BY <1>1, <1>2 DEF Unplanned
<1>7. TurnInv'
  BY <1>1, <1>2, <1>4, <1>5, <1>6, ServiceQuiet DEF serverVars
<1>8. LeaseInv'
  BY <1>1, LeaseFrame DEF ReloadInv
<1>9. MessagesType'
  BY <1>1 DEF MessagesType
<1>10. Types'
  BY <1>1, <1>9, ServiceTypesFrame, WatchTypesFrame DEF ReloadInv, Types
<1> QED BY <1>7, <1>8, <1>10 DEF ReloadInv

\* What the types say of plans, leases and pools.
LEMMA PoolFacts ==
  ASSUME Types
  PROVE  /\ plans \in [Attempts -> Plans]
         /\ \A a \in Attempts :
              /\ plans[a].key \in [Listeners -> Keys \cup {NoStore}]
              /\ plans[a].backend \in [Listeners -> Nat \cup {None}]
              /\ plans[a].ready \in BOOLEAN
         /\ current \in [Keys -> Nat \cup {None}] /\ holders \in [Keys -> SUBSET Leases]
         /\ backends \in Seq([key : Keys, open : BOOLEAN]) /\ retiring \subseteq DOMAIN backends
         /\ releasing \subseteq Leases
         /\ \A lease \in Leases : /\ lease[1] \in Attempts /\ lease[2] \in Listeners
                                  /\ lease = <<lease[1], lease[2]>>
         /\ active \in Attempts /\ pending \subseteq Attempts
         /\ \A d \in drains : d.attempt \in Attempts
<1>1. plans \in [Attempts -> Plans]
  BY DEF Types, PlansType
<1>2. \A a \in Attempts : /\ plans[a].key \in [Listeners -> Keys \cup {NoStore}]
                          /\ plans[a].backend \in [Listeners -> Nat \cup {None}]
                          /\ plans[a].ready \in BOOLEAN
  BY <1>1 DEF Plans
<1>3. /\ current \in [Keys -> Nat \cup {None}] /\ holders \in [Keys -> SUBSET Leases]
      /\ backends \in Seq([key : Keys, open : BOOLEAN]) /\ retiring \subseteq DOMAIN backends
  BY DEF Types, PoolType
<1>4. \A lease \in Leases : /\ lease[1] \in Attempts /\ lease[2] \in Listeners
                            /\ lease = <<lease[1], lease[2]>>
  BY DEF Leases
<1>5. releasing \subseteq Leases /\ active \in Attempts /\ pending \subseteq Attempts
      /\ \A d \in drains : d.attempt \in Attempts
  BY DEF Types, MembersType
<1> QED BY <1>1, <1>2, <1>3, <1>4, <1>5

\* What a lease that is held says of its plan, and a holder of the pool.
LEMMA HeldFacts ==
  ASSUME ReloadInv, NEW k \in Keys
  PROVE  /\ holders[k] # {} <=> current[k] # None
         /\ current[k] # None => /\ current[k] \in DOMAIN backends
                                /\ backends[current[k]] = [key |-> k, open |-> TRUE]
         /\ \A lease \in holders[k] : /\ plans[lease[1]].key[lease[2]] = k
                                      /\ plans[lease[1]].backend[lease[2]] = current[k]
         /\ \A lease \in holders[k] : /\ lease \in Leases
                                      /\ lease[1] \in Attempts /\ lease[2] \in Listeners
                                      /\ lease = <<lease[1], lease[2]>>
<1>1. PoolsServe
  BY DEF ReloadInv, LeaseInv
<1>2. \A lease \in holders[k] : /\ lease \in Leases
                               /\ lease[1] \in Attempts /\ lease[2] \in Listeners
                               /\ lease = <<lease[1], lease[2]>>
  BY PoolFacts DEF ReloadInv
<1> QED BY <1>1, <1>2, Zenon DEF PoolsServe

\* The plan of a config has its keys, and nothing else yet.
LEMMA PlanFacts ==
  ASSUME NEW c \in AllConfigs
  PROVE  /\ PlanOf(c) \in Plans /\ PlanOf(c).ready = FALSE
         /\ \A l \in Listeners : PlanOf(c).key[l] = KeyOf(c, l) /\ PlanOf(c).backend[l] = None
         /\ StoreListeners(c) = {l \in Listeners : PlanOf(c).key[l] # NoStore}
<1> DEFINE keys == [l \in Listeners |-> KeyOf(c, l)]
           nobody == [l \in Listeners |-> None]
<1>1. keys \in [Listeners -> Keys \cup {NoStore}] /\ nobody \in [Listeners -> Nat \cup {None}]
  BY ConfigFacts
<1>2. /\ \A l \in Listeners : keys[l] = KeyOf(c, l) /\ nobody[l] = None
      /\ PlanOf(c) = [[key |-> [l \in Listeners |-> NoStore], backend |-> nobody,
                       ready |-> FALSE] EXCEPT !.key = keys]
  BY DEF PlanOf, NoPlan
<1>3. /\ PlanOf(c) \in Plans
      /\ PlanOf(c).ready = FALSE /\ PlanOf(c).key = keys /\ PlanOf(c).backend = nobody
  <2> HIDE DEF keys, nobody
  <2> QED BY <1>1, <1>2 DEF Plans
<1>4. /\ PlanOf(c).ready = FALSE
      /\ \A l \in Listeners : PlanOf(c).key[l] = KeyOf(c, l) /\ PlanOf(c).backend[l] = None
  BY <1>2, <1>3
<1>5. StoreListeners(c) \subseteq Listeners
      /\ \A l \in Listeners : l \in StoreListeners(c) <=> KeyOf(c, l) # NoStore
  BY ConfigFacts
<1>6. StoreListeners(c) = {l \in Listeners : PlanOf(c).key[l] # NoStore}
  BY <1>4, <1>5
<1> QED BY <1>3, <1>4, <1>6

\* An attempt that nobody has prepared gets its plan.
LEMMA PrepareBeginStep == ASSUME ReloadInv, PrepareBegin PROVE ReloadInv'
<1> DEFINE w == watcher.attempt
           c == watcher.new
<1>1. /\ service.pc = "loop" /\ command # None /\ command.kind = "Prepare" /\ command' = None
      /\ plans' = [plans EXCEPT ![command.attempt] = PlanOf(c)]
      /\ service' = [pc |-> "provision", attempt |-> command.attempt,
                     work |-> [l \in StoreListeners(c) |-> "todo"]]
      /\ UNCHANGED <<watchVars, requests, reply, readiness, shutdown, active, pending,
                     drains, releasing, retiring, poolVars>>
  BY DEF PrepareBegin, ServiceAt
<1>2. /\ disk' = disk /\ events' = events /\ watcher' = watcher /\ live' = live
      /\ current_config' = current_config /\ reply' = reply /\ requests' = requests
      /\ active' = active /\ pending' = pending /\ drains' = drains /\ releasing' = releasing
      /\ retiring' = retiring /\ current' = current /\ holders' = holders /\ backends' = backends
      /\ command' = None
  BY <1>1 DEF watchVars, poolVars
<1>3. /\ command.attempt = w /\ w \in Attempts /\ watcher.pc = "prepare" /\ pending = {}
      /\ watcher.pc \in Waiting /\ NeedsStore /\ reply = None /\ ~Committed
      /\ Unpublished(w) /\ active < w
  BY <1>1, CommandFacts
<1>4. c \in AllConfigs /\ w \in Nat /\ Attempts \subseteq Nat
  BY <1>3, WatchFacts, Constants DEF ReloadInv, Reloading, WatcherPcs
<1>5. Unplanned(w)
  BY <1>1, <1>3 DEF Unplanned
<1>6. \A l \in Listeners : <<w, l>> \notin releasing /\ \A k \in Keys : <<w, l>> \notin holders[k]
  BY <1>3, <1>5 DEF ReloadInv, TurnInv, Unused
<1>7. /\ plans'[w] = PlanOf(c)
      /\ \A a \in Attempts : a # w => plans'[a] = plans[a]
      /\ plans' \in [Attempts -> Plans]
  BY <1>1, <1>3, <1>4, PoolFacts, PlanFacts DEF ReloadInv
<1>8. /\ service'.pc = "provision" /\ service'.attempt = w
      /\ DOMAIN service'.work = StoreListeners(c)
      /\ \A l \in StoreListeners(c) : service'.work[l] = "todo"
  BY <1>1, <1>3
<1>9. /\ PlanOf(c).ready = FALSE
      /\ \A l \in Listeners : PlanOf(c).key[l] = KeyOf(c, l) /\ PlanOf(c).backend[l] = None
      /\ StoreListeners(c) = {l \in Listeners : PlanOf(c).key[l] # NoStore}
  BY <1>4, PlanFacts
<1>10. ~Committed' /\ NeedsStore'
  BY <1>2, <1>3 DEF Committed, NeedsStore
<1>11. Types'
  <2>1. ServiceType'
    <3>1. service' = [pc |-> "provision", attempt |-> w, work |-> [l \in StoreListeners(c) |-> "todo"]]
      BY <1>1, <1>3
    <3> QED BY <1>3, <1>9, <3>1 DEF ServiceType, ServicePcs
  <2>2. PlansType'
    BY <1>7 DEF PlansType
  <2>3. MembersType' /\ PoolType' /\ MessagesType'
    BY <1>2 DEF ReloadInv, Types, MembersType, PoolType, MessagesType
  <2> QED BY <1>1, <2>1, <2>2, <2>3, WatchTypesFrame DEF ReloadInv, Types
<1>12. TurnInv'
  <2>1. EditsCounted' /\ NothingPlanned'
    BY <1>2, <1>3 DEF ReloadInv, TurnInv, EditsCounted, NothingPlanned
  <2>2. Turns'
    BY <1>2, <1>3, <1>8, <1>10 DEF Turns, Waiting
  <2>3. Prepared'
    BY <1>2, <1>3, <1>7, <1>9 DEF Prepared
  <2>4. active \in Attempts /\ active # w
    BY <1>3, <1>4, PoolFacts DEF ReloadInv
  <2>5. ActivePlanned' /\ ActiveLive'
    BY <1>2, <1>3, <1>7, <1>10, <2>4 DEF ReloadInv, TurnInv, ActivePlanned, ActiveLive
  <2>6. \A a \in Attempts : Unpublished(a)' <=> Unpublished(a)
    BY <1>2, <1>3, <1>10 DEF Unpublished
  <2>7. Ages'
    BY <1>2, <2>6 DEF ReloadInv, TurnInv, Ages
  <2>8. \A a \in Attempts : Unplanned(a)' => Unplanned(a) /\ a # w
    BY <1>2, <1>3, <1>4 DEF Unplanned
  <2>9. Unused'
    BY <1>2, <1>7, <2>8 DEF ReloadInv, TurnInv, Unused
  <2>10. PipelinesKept'
    <3>1. /\ \A l \in Bound : live[l] # w
          /\ \A l \in Bound : \A r \in Requests : requests[r] # None => requests[r] # <<l, w>>
      <4>1. /\ \A l \in Bound : live[l] < w
            /\ \A r \in Requests : requests[r] # None => requests[r][2] < w
        BY <1>3 DEF ReloadInv, TurnInv, Ages
      <4>2. \A l \in Bound : <<l, w>>[2] = w
        OBVIOUS
      <4>3. ~(w < w)
        BY <1>4
      <4> QED BY <4>1, <4>2, <4>3
    <3>2. SUFFICES ASSUME NEW l \in Bound, NEW a \in Attempts, plans'[a].key[l] # NoStore,
                          \/ live[l] = a
                          \/ \E r \in Requests : requests[r] # None /\ requests[r] = <<l, a>>
                   PROVE  a = active \/ \E d \in drains : d.attempt = a /\ <<l, a>> \in d.old
      BY <1>2 DEF PipelinesKept
    <3>3. a # w
      BY <3>1, <3>2
    <3>4. plans[a].key[l] # NoStore
      BY <1>7, <3>2, <3>3
    <3> QED BY <3>2, <3>4 DEF ReloadInv, TurnInv, PipelinesKept
  <2> QED BY <2>1, <2>2, <2>3, <2>5, <2>7, <2>9, <2>10 DEF TurnInv
<1>13. LeaseInv'
  <2>1. \A k \in Keys : \A lease \in holders[k] : lease[1] \in Attempts /\ lease[1] # w
    BY <1>6, PoolFacts DEF ReloadInv
  <2>2. PoolsServe'
    <3>1. ASSUME NEW k \in Keys, NEW lease \in holders[k]
          PROVE  /\ plans'[lease[1]].key[lease[2]] = k
                 /\ plans'[lease[1]].backend[lease[2]] = current[k]
      <4>1. plans'[lease[1]] = plans[lease[1]]
        BY <1>7, <2>1
      <4>2. plans[lease[1]].key[lease[2]] = k /\ plans[lease[1]].backend[lease[2]] = current[k]
        BY HeldFacts
      <4> QED BY <4>1, <4>2
    <3>2. ASSUME NEW k \in Keys
          PROVE  /\ holders[k] # {} <=> current[k] # None
                 /\ current[k] # None =>
                      /\ current[k] \in DOMAIN backends
                      /\ backends[current[k]] = [key |-> k, open |-> TRUE]
      BY HeldFacts
    <3> QED BY <1>2, <3>1, <3>2 DEF PoolsServe
  <2>3. RetiringGone'
    BY <1>2 DEF ReloadInv, LeaseInv, RetiringGone
  <2>4. Builds'
    BY <1>8 DEF Builds
  <2>5. Provisioned'
    <3>1. \A l \in Listeners : Lease(l)' = <<w, l>> /\ KeyAt(l)' = PlanOf(c).key[l]
      BY <1>7, <1>8 DEF Lease, KeyAt
    <3>2. plans'[service'.attempt].ready = FALSE
      BY <1>7, <1>8, <1>9
    <3>3. \A l \in DOMAIN service'.work : service'.work[l] # "leased"
      BY <1>8
    <3>4. DOMAIN service'.work = {l \in Listeners : KeyAt(l)' # NoStore}
      BY <1>8, <1>9, <3>1
    <3> QED BY <1>2, <1>6, <3>1, <3>2, <3>3, <3>4 DEF Provisioned
  <2>6. ReadyHeld'
    <3>1. SUFFICES ASSUME NEW a \in Attempts, Kept(a), plans'[a].ready,
                          NEW l \in Listeners, plans'[a].key[l] # NoStore
                   PROVE  <<a, l>> \in holders[plans'[a].key[l]] /\ <<a, l>> \notin releasing
      BY <1>2 DEF ReadyHeld, Kept
    <3>2. plans'[a] = plans[a]
      BY <1>7, <1>9, <3>1
    <3> QED BY <3>1, <3>2 DEF ReloadInv, LeaseInv, ReadyHeld
  <2>7. StoresOnly'
    <3>1. SUFFICES ASSUME NEW a \in Attempts, NEW l \in Listeners,
                          plans'[a].backend[l] # None \/ <<a, l>> \in releasing
                   PROVE  plans'[a].key[l] # NoStore
      BY <1>2 DEF StoresOnly
    <3>2. a # w
      BY <1>6, <1>7, <1>9, <3>1
    <3> QED BY <1>7, <3>1, <3>2 DEF ReloadInv, LeaseInv, StoresOnly
  <2>8. NoLeaseLost'
    BY <1>1, <1>2 DEF ReloadInv, LeaseInv, NoLeaseLost, Provisioning
  <2> QED BY <2>2, <2>3, <2>4, <2>5, <2>6, <2>7, <2>8 DEF LeaseInv
<1> QED BY <1>11, <1>12, <1>13 DEF ReloadInv

\* A worker has a store to provide.
LEMMA WorkerKey ==
  ASSUME ReloadInv, service.pc \in Provisioning, NEW l \in DOMAIN service.work
  PROVE  service.attempt \in Attempts /\ l \in Listeners /\ KeyAt(l) \in Keys
<1>1. service.attempt \in Attempts
  BY DEF ReloadInv, Types, ServiceType
<1>2. DOMAIN service.work = {m \in Listeners : KeyAt(m) # NoStore}
  BY DEF ReloadInv, LeaseInv, Provisioned
<1>3. l \in Listeners /\ KeyAt(l) # NoStore
  BY <1>2
<1> QED BY <1>1, <1>3, PoolFacts DEF ReloadInv, KeyAt

\* What the service and its plan look like after a worker has settled l.
LEMMA WorkerFacts ==
  ASSUME ReloadInv, service.pc \in Provisioning, NEW l \in DOMAIN service.work, NEW outcome,
         Settle(l, outcome),
         \/ plans' = plans
         \/ \E b \in Nat : Serve(l, b)
  PROVE  /\ service'.pc = service.pc /\ service'.attempt = service.attempt
         /\ service.attempt \in Attempts /\ l \in Listeners /\ KeyAt(l) \in Keys
         /\ DOMAIN service'.work = DOMAIN service.work /\ DOMAIN service.work \subseteq Listeners
         /\ service'.work[l] = outcome
         /\ \A m \in DOMAIN service.work : m # l => service'.work[m] = service.work[m]
         /\ ServiceType' /\ PlansType'
         /\ \A a \in Attempts : /\ \A m \in Listeners : plans'[a].key[m] = plans[a].key[m]
                                /\ plans'[a].ready = plans[a].ready
                                /\ a # service.attempt => plans'[a] = plans[a]
         /\ \A m \in Listeners : m # l =>
              plans'[service.attempt].backend[m] = plans[service.attempt].backend[m]
         /\ \A b \in Nat : Serve(l, b) => plans'[service.attempt].backend[l] = b
<1> DEFINE s == service.attempt
<1>1. /\ service = [pc |-> service.pc, attempt |-> service.attempt, work |-> service.work]
      /\ service.pc \in ServicePcs /\ s \in Attempts
      /\ DOMAIN service.work \subseteq Listeners
      /\ service.work = [m \in DOMAIN service.work |-> service.work[m]]
  BY DEF ReloadInv, Types, ServiceType
<1>2. service' = [service EXCEPT !.work = [service.work EXCEPT ![l] = outcome]]
  BY DEF Settle
<1>3. /\ service'.pc = service.pc /\ service'.attempt = service.attempt
      /\ service'.work = [service.work EXCEPT ![l] = outcome]
      /\ service' = [pc |-> service'.pc, attempt |-> service'.attempt, work |-> service'.work]
  BY <1>1, <1>2
<1>4. /\ DOMAIN service'.work = DOMAIN service.work /\ service'.work[l] = outcome
      /\ \A m \in DOMAIN service.work : m # l => service'.work[m] = service.work[m]
      /\ service'.work = [m \in DOMAIN service'.work |-> service'.work[m]]
  BY <1>1, <1>3
<1>5. ServiceType'
  BY <1>1, <1>3, <1>4 DEF ServiceType
<1>6. l \in Listeners /\ KeyAt(l) \in Keys
  BY WorkerKey
<1>7. plans \in [Attempts -> Plans]
  BY PoolFacts DEF ReloadInv
<1>8. CASE plans' = plans
  <2>1. \A b \in Nat : Serve(l, b) => plans[s].backend[l] = b
    <3>1. SUFFICES ASSUME NEW b \in Nat, Serve(l, b) PROVE plans[s].backend[l] = b
      OBVIOUS
    <3>2. plans[s] \in Plans
      BY <1>1, <1>7
    <3>3. plans'[s] = [plans[s] EXCEPT !.backend = [plans[s].backend EXCEPT ![l] = b]]
      BY <1>1, <1>7, <3>1 DEF Serve
    <3> QED BY <1>6, <1>8, <3>2, <3>3 DEF Plans
  <2>2. PlansType'
    BY <1>7, <1>8 DEF PlansType
  <2>3. \A a \in Attempts : /\ \A m \in Listeners : plans'[a].key[m] = plans[a].key[m]
                            /\ plans'[a].ready = plans[a].ready
                            /\ a # service.attempt => plans'[a] = plans[a]
    BY <1>8
  <2>4. /\ \A m \in Listeners : m # l => plans'[s].backend[m] = plans[s].backend[m]
        /\ \A b \in Nat : Serve(l, b) => plans'[s].backend[l] = b
    BY <1>8, <2>1
  <2> QED BY <1>1, <1>3, <1>4, <1>5, <1>6, <2>2, <2>3, <2>4
<1>9. CASE \E b \in Nat : Serve(l, b)
  <2>1. PICK b \in Nat : Serve(l, b)
    BY <1>9
  <2>2. plans[s] \in Plans
    BY <1>1, <1>7
  <2>3. PICK p : p = [plans[s] EXCEPT !.backend = [plans[s].backend EXCEPT ![l] = b]]
    OBVIOUS
  <2>4. plans' = [plans EXCEPT ![s] = p]
    BY <1>1, <1>7, <2>1, <2>3 DEF Serve
  <2>5. /\ p \in Plans /\ p.key = plans[s].key /\ p.ready = plans[s].ready
        /\ p.backend[l] = b /\ \A m \in Listeners : m # l => p.backend[m] = plans[s].backend[m]
    BY <1>6, <2>2, <2>3 DEF Plans
  <2>6. /\ plans' \in [Attempts -> Plans] /\ plans'[s] = p
        /\ \A a \in Attempts : a # s => plans'[a] = plans[a]
    BY <1>1, <1>7, <2>4, <2>5
  <2>7. \A c \in Nat : Serve(l, c) => c = b
    <3>1. SUFFICES ASSUME NEW c \in Nat, Serve(l, c) PROVE c = b
      OBVIOUS
    <3>2. plans'[s] = [plans[s] EXCEPT !.backend = [plans[s].backend EXCEPT ![l] = c]]
      BY <1>1, <1>7, <3>1 DEF Serve
    <3>3. plans'[s].backend[l] = c
      BY <1>6, <2>2, <3>2 DEF Plans
    <3> QED BY <2>5, <2>6, <3>3
  <2>8. /\ PlansType'
        /\ \A a \in Attempts : /\ \A m \in Listeners : plans'[a].key[m] = plans[a].key[m]
                               /\ plans'[a].ready = plans[a].ready
                               /\ a # s => plans'[a] = plans[a]
    BY <2>5, <2>6 DEF PlansType
  <2>9. /\ \A m \in Listeners : m # l => plans'[s].backend[m] = plans[s].backend[m]
        /\ \A c \in Nat : Serve(l, c) => plans'[s].backend[l] = c
    BY <2>5, <2>6, <2>7
  <2> QED BY <1>1, <1>3, <1>4, <1>5, <1>6, <2>8, <2>9
<1> QED BY <1>8, <1>9

\* A worker does its work on behalf of the attempt the service provisions.
LEMMA WorkerTurn ==
  ASSUME ReloadInv, service.pc \in Provisioning, NEW l \in DOMAIN service.work, NEW outcome,
         Settle(l, outcome),
         \/ plans' = plans
         \/ \E b \in Nat : Serve(l, b),
         UNCHANGED <<watchVars, requests, command, reply, readiness, active, pending,
                     drains, releasing, retiring>>,
         \A k \in Keys : holders'[k] \subseteq holders[k] \cup {Lease(l)}
  PROVE  TurnInv'
<1>1. /\ watcher' = watcher /\ current_config' = current_config /\ live' = live
      /\ command' = command /\ reply' = reply /\ readiness' = readiness
      /\ active' = active /\ pending' = pending /\ drains' = drains
      /\ releasing' = releasing
  BY DEF watchVars
<1>2. /\ service'.pc = service.pc /\ service'.attempt = service.attempt
      /\ service.attempt \in Attempts
      /\ \A a \in Attempts : /\ \A m \in Listeners : plans'[a].key[m] = plans[a].key[m]
                             /\ a # service.attempt => plans'[a] = plans[a]
  BY WorkerFacts
<1>3. watcher.attempt \in Attempts
  BY WatchFacts DEF ReloadInv
<1>4. (Committed' <=> Committed) /\ (NeedsStore' <=> NeedsStore) /\ OldPipelines' = OldPipelines
  BY <1>1 DEF Committed, NeedsStore, OldPipelines
<1>5. Turns'
  BY <1>1, <1>2, <1>4 DEF ReloadInv, TurnInv, Turns, Running
<1>6. Prepared'
  BY <1>1, <1>2, <1>3, <1>4 DEF ReloadInv, TurnInv, Prepared
<1>7. ASSUME NEW a \in Attempts, Unplanned(a)'
      PROVE  /\ Unplanned(a)
             /\ \A m \in Listeners :
                  /\ <<a, m>> \in releasing' => <<a, m>> \in releasing
                  /\ \A k \in Keys : <<a, m>> \in holders'[k] => <<a, m>> \in holders[k]
  <2>1. Unplanned(a)
    BY <1>1, <1>7 DEF Unplanned
  <2>2. a # service.attempt
    BY <2>1, WorkPlanned
  <2>3. \A m \in Listeners : <<a, m>> # Lease(l)
    BY <2>2 DEF Lease
  <2> QED BY <1>1, <2>1, <2>3
<1> QED BY <1>1, <1>2, <1>4, <1>5, <1>6, <1>7, ServiceQuiet

\* A worker leaves what the leases of ready generations and the owners of leases
\* are, as long as it drops none and takes only its own.
LEMMA WorkerLeases ==
  ASSUME ReloadInv, service.pc \in Provisioning, NEW l \in DOMAIN service.work, NEW outcome,
         Settle(l, outcome),
         \/ plans' = plans
         \/ \E b \in Nat : Serve(l, b),
         UNCHANGED <<active, pending, drains, releasing>>,
         \A k \in Keys : holders[k] \subseteq holders'[k] /\ holders'[k] \subseteq holders[k] \cup {Lease(l)}
  PROVE  ReadyHeld' /\ StoresOnly' /\ NoLeaseLost'
<1>1. /\ service'.pc = service.pc /\ service'.attempt = service.attempt
      /\ service.attempt \in Attempts /\ l \in Listeners /\ KeyAt(l) \in Keys
      /\ \A a \in Attempts : /\ \A m \in Listeners : plans'[a].key[m] = plans[a].key[m]
                             /\ plans'[a].ready = plans[a].ready
                             /\ a # service.attempt => plans'[a] = plans[a]
      /\ \A m \in Listeners : m # l =>
           plans'[service.attempt].backend[m] = plans[service.attempt].backend[m]
  BY WorkerFacts
<1>2. /\ active' = active /\ pending' = pending /\ drains' = drains /\ releasing' = releasing
  OBVIOUS
<1>3. ReadyHeld'
  <2>1. SUFFICES ASSUME NEW a \in Attempts, Kept(a), plans'[a].ready,
                        NEW m \in Listeners, plans'[a].key[m] # NoStore
                 PROVE  <<a, m>> \in holders'[plans'[a].key[m]] /\ <<a, m>> \notin releasing
    BY <1>2 DEF ReadyHeld, Kept
  <2>2. plans[a].ready /\ plans[a].key[m] # NoStore /\ plans'[a].key[m] = plans[a].key[m]
    BY <1>1, <2>1
  <2>3. <<a, m>> \in holders[plans[a].key[m]] /\ <<a, m>> \notin releasing
    BY <2>1, <2>2 DEF ReloadInv, LeaseInv, ReadyHeld
  <2>4. plans[a].key[m] \in Keys
    BY <2>2, PoolFacts DEF ReloadInv
  <2> QED BY <2>2, <2>3, <2>4
<1>4. StoresOnly'
  <2>1. SUFFICES ASSUME NEW a \in Attempts, NEW m \in Listeners,
                        plans'[a].backend[m] # None \/ <<a, m>> \in releasing
                 PROVE  plans[a].key[m] # NoStore
    BY <1>1, <1>2 DEF StoresOnly
  <2>2. CASE a = service.attempt /\ m = l
    <3>1. KeyAt(l) # NoStore
      BY <1>1, Constants
    <3> QED BY <2>2, <3>1 DEF KeyAt
  <2>3. CASE ~(a = service.attempt /\ m = l)
    <3>1. plans'[a].backend[m] = plans[a].backend[m]
      BY <1>1, <2>3
    <3> QED BY <2>1, <3>1 DEF ReloadInv, LeaseInv, StoresOnly
  <2> QED BY <2>2, <2>3
<1>5. NoLeaseLost'
  <2>1. SUFFICES ASSUME NEW k \in Keys, NEW lease \in holders'[k]
                 PROVE  \/ lease[1] \in {active} \cup pending \cup {d.attempt : d \in drains}
                        \/ lease \in releasing
                        \/ lease[1] = service.attempt
    BY <1>1, <1>2 DEF NoLeaseLost
  <2>2. service.pc # "stopped"
    BY DEF Provisioning
  <2>3. CASE lease \in holders[k]
    BY <2>2, <2>3 DEF ReloadInv, LeaseInv, NoLeaseLost
  <2>4. CASE lease = Lease(l)
    BY <2>4 DEF Lease
  <2> QED BY <2>3, <2>4
<1> QED BY <1>3, <1>4, <1>5

\* A worker that is not done holds no lease.
LEMMA WorkerFresh ==
  ASSUME ReloadInv, service.pc \in Provisioning, NEW l \in DOMAIN service.work,
         service.work[l] # "leased"
  PROVE  \A k \in Keys : Lease(l) \notin holders[k]
<1>1. l \in Listeners
  BY DEF ReloadInv, Types, ServiceType
<1> QED BY <1>1 DEF ReloadInv, LeaseInv, Provisioned

\* The generation under way holds exactly the leases of the workers that are done.
LEMMA WorkerProvisioned ==
  ASSUME ReloadInv, service.pc \in Provisioning, NEW l \in DOMAIN service.work, NEW outcome,
         Settle(l, outcome),
         \/ plans' = plans
         \/ \E b \in Nat : Serve(l, b),
         releasing' = releasing, service.work[l] # "leased",
         \A k \in Keys : holders[k] \subseteq holders'[k] /\ holders'[k] \subseteq holders[k] \cup {Lease(l)},
         outcome = "leased" => Lease(l) \in holders'[KeyAt(l)],
         outcome # "leased" => holders' = holders
  PROVE  Provisioned'
<1> DEFINE s == service.attempt
<1>1. /\ service'.pc = service.pc /\ service'.attempt = s /\ s \in Attempts
      /\ DOMAIN service'.work = DOMAIN service.work /\ DOMAIN service.work \subseteq Listeners
      /\ service'.work[l] = outcome
      /\ \A m \in DOMAIN service.work : m # l => service'.work[m] = service.work[m]
      /\ \A a \in Attempts : /\ \A m \in Listeners : plans'[a].key[m] = plans[a].key[m]
                             /\ plans'[a].ready = plans[a].ready
  BY WorkerFacts
<1>2. \A m \in Listeners : KeyAt(m)' = KeyAt(m) /\ Lease(m)' = Lease(m)
  BY <1>1 DEF KeyAt, Lease
<1>3. Provisioned
  BY DEF ReloadInv, LeaseInv
<1>4. ~plans[s].ready /\ plans'[s].ready = plans[s].ready
  BY <1>1, <1>3 DEF Provisioned
<1>5. DOMAIN service.work = {m \in Listeners : KeyAt(m)' # NoStore}
  BY <1>2, <1>3 DEF Provisioned
<1>6. ASSUME NEW m \in DOMAIN service.work, service'.work[m] = "leased"
      PROVE  Lease(m) \in holders'[KeyAt(m)]
  <2>1. m \in Listeners /\ KeyAt(m) \in Keys
    BY <1>1, <1>2, <1>5, PoolFacts DEF ReloadInv, KeyAt
  <2>2. CASE m = l
    BY <1>1, <1>6, <2>2
  <2>3. CASE m # l
    <3>1. Lease(m) \in holders[KeyAt(m)]
      BY <1>1, <1>3, <1>6, <2>3 DEF Provisioned
    <3> QED BY <2>1, <3>1
  <2> QED BY <2>2, <2>3
<1>7. ASSUME NEW j \in Keys, NEW m \in Listeners, Lease(m) \in holders'[j]
      PROVE  m \in DOMAIN service.work /\ service'.work[m] = "leased"
  <2>1. CASE m = l
    <3>1. Lease(l) \notin holders[j]
      BY WorkerFresh
    <3> QED BY <1>1, <1>7, <2>1, <3>1
  <2>2. CASE m # l
    <3>1. Lease(m) # Lease(l)
      BY <2>2 DEF Lease
    <3>2. Lease(m) \in holders[j]
      BY <1>7, <3>1
    <3> QED BY <1>1, <1>3, <2>2, <3>2 DEF Provisioned
  <2> QED BY <2>1, <2>2
<1>8. \A m \in Listeners : Lease(m) \notin releasing
  BY <1>3 DEF Provisioned
<1> QED BY <1>1, <1>2, <1>4, <1>5, <1>6, <1>7, <1>8 DEF Provisioned

\* The plan a lease belongs to, after a worker has settled another one.
LEMMA OtherPlans ==
  ASSUME ReloadInv, service.pc \in Provisioning, NEW l \in DOMAIN service.work, NEW outcome,
         Settle(l, outcome),
         \/ plans' = plans
         \/ \E b \in Nat : Serve(l, b),
         NEW k \in Keys, NEW lease \in holders[k], lease # Lease(l)
  PROVE  /\ plans'[lease[1]].key[lease[2]] = k
         /\ plans'[lease[1]].backend[lease[2]] = current[k]
<1>1. /\ service.attempt \in Attempts /\ l \in Listeners
      /\ \A a \in Attempts : /\ \A m \in Listeners : plans'[a].key[m] = plans[a].key[m]
                             /\ a # service.attempt => plans'[a] = plans[a]
      /\ \A m \in Listeners : m # l =>
           plans'[service.attempt].backend[m] = plans[service.attempt].backend[m]
  BY WorkerFacts
<1>2. /\ plans[lease[1]].key[lease[2]] = k /\ plans[lease[1]].backend[lease[2]] = current[k]
      /\ lease[1] \in Attempts /\ lease[2] \in Listeners /\ lease = <<lease[1], lease[2]>>
  BY HeldFacts
<1>3. ~(lease[1] = service.attempt /\ lease[2] = l)
  BY <1>2 DEF Lease
<1>4. plans'[lease[1]].backend[lease[2]] = plans[lease[1]].backend[lease[2]]
  BY <1>1, <1>2, <1>3
<1>5. plans'[lease[1]].key[lease[2]] = plans[lease[1]].key[lease[2]]
  BY <1>1, <1>2
<1> QED BY <1>2, <1>4, <1>5

\* A worker shares the pool of its key.
LEMMA WorkerShareStep == ASSUME ReloadInv, NEW l \in Listeners, WorkerShare(l) PROVE ReloadInv'
<1> DEFINE s == service.attempt
           k == KeyAt(l)
<1>1. /\ service.pc \in Provisioning /\ l \in DOMAIN service.work /\ service.work[l] = "todo"
      /\ current[k] # None
      /\ holders' = [holders EXCEPT ![k] = @ \cup {Lease(l)}]
      /\ Serve(l, current[k]) /\ Settle(l, "leased")
      /\ UNCHANGED <<current, backends>>
      /\ UNCHANGED <<watchVars, requests, command, reply, readiness, shutdown, active,
                     pending, drains, releasing, retiring>>
  BY DEF WorkerShare, ServiceAt, Working, Pool!Share
<1>2. /\ s \in Attempts /\ k \in Keys
  BY <1>1, WorkerKey
<1>3. current[k] \in Nat /\ \E b \in Nat : Serve(l, b)
  <2>1. current[k] \in Nat \cup {None}
    BY <1>2, PoolFacts DEF ReloadInv
  <2> QED BY <1>1, <2>1
<1>4. /\ service'.pc = service.pc /\ service'.attempt = s
      /\ DOMAIN service'.work = DOMAIN service.work /\ DOMAIN service.work \subseteq Listeners
      /\ service'.work[l] = "leased"
      /\ \A m \in DOMAIN service.work : m # l => service'.work[m] = service.work[m]
      /\ ServiceType' /\ PlansType'
      /\ \A a \in Attempts : /\ \A m \in Listeners : plans'[a].key[m] = plans[a].key[m]
                             /\ plans'[a].ready = plans[a].ready
                             /\ a # s => plans'[a] = plans[a]
      /\ \A m \in Listeners : m # l => plans'[s].backend[m] = plans[s].backend[m]
      /\ plans'[s].backend[l] = current[k]
  BY <1>1, <1>3, WorkerFacts
<1>5. /\ holders \in [Keys -> SUBSET Leases] /\ Lease(l) \in Leases
      /\ Lease(l) = <<s, l>> /\ Lease(l)[1] = s /\ Lease(l)[2] = l
  BY <1>2, PoolFacts DEF ReloadInv, Lease, Leases
<1>6. /\ holders'[k] = holders[k] \cup {Lease(l)} /\ \A j \in Keys : j # k => holders'[j] = holders[j]
      /\ holders' \in [Keys -> SUBSET Leases]
  BY <1>1, <1>2, <1>5
<1>7. /\ current' = current /\ backends' = backends /\ releasing' = releasing
      /\ retiring' = retiring /\ active' = active /\ pending' = pending /\ drains' = drains
  BY <1>1
<1>8. TurnInv'
  BY <1>1, <1>3, <1>6, WorkerTurn
<1>9. Types'
  <2>1. MembersType' /\ PoolType' /\ MessagesType'
    BY <1>1, <1>6, <1>7 DEF ReloadInv, Types, MembersType, PoolType, MessagesType
  <2> QED BY <1>1, <1>4, <2>1, WatchTypesFrame DEF ReloadInv, Types
<1>10. LeaseInv'
  <2>1. \A j \in Keys : Lease(l) \notin holders[j]
    BY <1>1, WorkerFresh
  <2>2. \A m \in Listeners : KeyAt(m)' = KeyAt(m) /\ Lease(m)' = Lease(m)
    BY <1>2, <1>4 DEF KeyAt, Lease
  <2>3. PoolsServe'
    <3>1. ASSUME NEW j \in Keys, NEW lease \in holders'[j]
          PROVE  /\ plans'[lease[1]].key[lease[2]] = j
                 /\ plans'[lease[1]].backend[lease[2]] = current[j]
      <4>1. CASE lease \in holders[j]
        <5>1. lease # Lease(l)
          BY <2>1, <4>1
        <5> QED BY <1>1, <1>3, <4>1, <5>1, OtherPlans
      <4>2. CASE lease \notin holders[j]
        <5>1. lease = Lease(l) /\ j = k
          BY <1>6, <4>2
        <5>2. plans'[s].key[l] = k
          BY <1>2, <1>4 DEF KeyAt
        <5> QED BY <1>4, <1>5, <5>1, <5>2
      <4> QED BY <4>1, <4>2
    <3>2. ASSUME NEW j \in Keys
          PROVE  /\ holders'[j] # {} <=> current[j] # None
                 /\ current[j] # None =>
                      /\ current[j] \in DOMAIN backends
                      /\ backends[current[j]] = [key |-> j, open |-> TRUE]
      BY <1>1, <1>6, HeldFacts
    <3> QED BY <1>7, <3>1, <3>2 DEF PoolsServe
  <2>4. RetiringGone'
    BY <1>7 DEF ReloadInv, LeaseInv, RetiringGone
  <2>5. Builds'
    <3>1. SUFFICES ASSUME NEW m \in DOMAIN service.work, service'.work[m] = "built"
                   PROVE  LET b == plans'[s].backend[m] IN
                          /\ current[KeyAt(m)] = None
                          /\ b \in DOMAIN backends /\ b \notin retiring
                          /\ backends[b] = [key |-> KeyAt(m), open |-> TRUE]
                          /\ \A n \in DOMAIN service.work :
                               service'.work[n] = "built" /\ KeyAt(n) = KeyAt(m) => n = m
      BY <1>4, <1>7, <2>2 DEF Builds
    <3>2. m # l /\ service.work[m] = "built" /\ plans'[s].backend[m] = plans[s].backend[m]
      BY <1>4, <3>1
    <3>3. \A n \in DOMAIN service.work : service'.work[n] = "built" => service.work[n] = "built"
      BY <1>4
    <3> QED BY <1>1, <3>1, <3>2, <3>3 DEF ReloadInv, LeaseInv, Builds
  <2>6. Provisioned'
    BY <1>1, <1>3, <1>6, <1>7, WorkerProvisioned
  <2>7. \A j \in Keys : holders[j] \subseteq holders'[j] /\ holders'[j] \subseteq holders[j] \cup {Lease(l)}
    BY <1>6
  <2>8. ReadyHeld' /\ StoresOnly' /\ NoLeaseLost'
    BY <1>1, <1>3, <1>7, <2>7, WorkerLeases
  <2> QED BY <2>3, <2>4, <2>5, <2>6, <2>8 DEF LeaseInv
<1> QED BY <1>8, <1>9, <1>10 DEF ReloadInv

\* A worker builds a pool, alone on its key.
LEMMA WorkerBuildStep == ASSUME ReloadInv, NEW l \in Listeners, WorkerBuild(l) PROVE ReloadInv'
<1> DEFINE s == service.attempt
           k == KeyAt(l)
           b == Len(backends) + 1
<1>1. /\ service.pc \in Provisioning /\ l \in DOMAIN service.work /\ service.work[l] = "todo"
      /\ current[k] = None
      /\ \A m \in DOMAIN service.work : service.work[m] = "built" => KeyAt(m) # k
      /\ backends' = Append(backends, [key |-> k, open |-> TRUE])
      /\ Serve(l, b) /\ Settle(l, "built")
      /\ UNCHANGED <<current, holders>>
      /\ UNCHANGED <<watchVars, requests, command, reply, readiness, shutdown, active,
                     pending, drains, releasing, retiring>>
  BY DEF WorkerBuild, ServiceAt, Working, Pool!Build
<1>2. /\ s \in Attempts /\ k \in Keys
  BY <1>1, WorkerKey
<1>3. /\ backends \in Seq([key : Keys, open : BOOLEAN]) /\ retiring \subseteq DOMAIN backends
  BY PoolFacts DEF ReloadInv
<1>4. /\ b \in Nat /\ b \in DOMAIN backends' /\ b \notin DOMAIN backends
      /\ DOMAIN backends \subseteq DOMAIN backends'
      /\ backends'[b] = [key |-> k, open |-> TRUE]
      /\ \A i \in DOMAIN backends : backends'[i] = backends[i]
      /\ backends' \in Seq([key : Keys, open : BOOLEAN])
  BY <1>1, <1>2, <1>3
<1>5. \E c \in Nat : Serve(l, c)
  BY <1>1, <1>4
<1>6. /\ service'.pc = service.pc /\ service'.attempt = s
      /\ DOMAIN service'.work = DOMAIN service.work /\ DOMAIN service.work \subseteq Listeners
      /\ service'.work[l] = "built"
      /\ \A m \in DOMAIN service.work : m # l => service'.work[m] = service.work[m]
      /\ ServiceType' /\ PlansType'
      /\ \A a \in Attempts : \A m \in Listeners : plans'[a].key[m] = plans[a].key[m]
      /\ \A m \in Listeners : m # l => plans'[s].backend[m] = plans[s].backend[m]
      /\ plans'[s].backend[l] = b
  BY <1>1, <1>4, <1>5, WorkerFacts
<1>7. /\ current' = current /\ holders' = holders /\ releasing' = releasing
      /\ retiring' = retiring /\ active' = active /\ pending' = pending /\ drains' = drains
  BY <1>1
<1>8. \A j \in Keys : holders[j] \subseteq holders'[j] /\ holders'[j] \subseteq holders[j] \cup {Lease(l)}
  BY <1>7
<1>9. TurnInv'
  BY <1>1, <1>5, <1>8, WorkerTurn
<1>10. Types'
  <2>1. PoolType'
    BY <1>3, <1>4, <1>7 DEF ReloadInv, Types, PoolType
  <2>2. MembersType' /\ MessagesType'
    BY <1>1, <1>7 DEF ReloadInv, Types, MembersType, MessagesType
  <2> QED BY <1>1, <1>6, <2>1, <2>2, WatchTypesFrame DEF ReloadInv, Types
<1>11. LeaseInv'
  <2>1. \A j \in Keys : Lease(l) \notin holders[j]
    BY <1>1, WorkerFresh
  <2>2. \A m \in Listeners : KeyAt(m)' = KeyAt(m)
    BY <1>2, <1>6 DEF KeyAt
  <2>3. PoolsServe'
    <3>1. ASSUME NEW j \in Keys, NEW lease \in holders[j]
          PROVE  /\ plans'[lease[1]].key[lease[2]] = j
                 /\ plans'[lease[1]].backend[lease[2]] = current[j]
      <4>1. lease # Lease(l)
        BY <2>1
      <4> QED BY <1>1, <1>5, <4>1, OtherPlans
    <3>2. ASSUME NEW j \in Keys
          PROVE  /\ holders[j] # {} <=> current[j] # None
                 /\ current[j] # None =>
                      /\ current[j] \in DOMAIN backends'
                      /\ backends'[current[j]] = [key |-> j, open |-> TRUE]
      <4>1. /\ holders[j] # {} <=> current[j] # None
            /\ current[j] # None =>
                 /\ current[j] \in DOMAIN backends
                 /\ backends[current[j]] = [key |-> j, open |-> TRUE]
        BY HeldFacts
      <4>2. current[j] # None =>
              /\ current[j] \in DOMAIN backends' /\ backends'[current[j]] = backends[current[j]]
        BY <1>4, <4>1
      <4> QED BY <4>1, <4>2
    <3> QED BY <1>7, <3>1, <3>2 DEF PoolsServe
  <2>4. RetiringGone'
    BY <1>7 DEF ReloadInv, LeaseInv, RetiringGone
  <2>5. Builds'
    <3>1. SUFFICES ASSUME NEW m \in DOMAIN service.work, service'.work[m] = "built"
                   PROVE  LET c == plans'[s].backend[m] IN
                          /\ current[KeyAt(m)] = None
                          /\ c \in DOMAIN backends' /\ c \notin retiring
                          /\ backends'[c] = [key |-> KeyAt(m), open |-> TRUE]
                          /\ \A n \in DOMAIN service.work :
                               service'.work[n] = "built" /\ KeyAt(n) = KeyAt(m) => n = m
      BY <1>6, <1>7, <2>2 DEF Builds
    <3>2. CASE m = l
      <4>1. \A n \in DOMAIN service.work :
              service'.work[n] = "built" /\ KeyAt(n) = KeyAt(m) => n = m
        BY <1>1, <1>6, <3>2
      <4> QED BY <1>1, <1>3, <1>4, <1>6, <3>2, <4>1
    <3>3. CASE m # l
      <4>1. service.work[m] = "built" /\ plans'[s].backend[m] = plans[s].backend[m]
        BY <1>6, <3>1, <3>3
      <4>2. LET c == plans[s].backend[m] IN
            /\ current[KeyAt(m)] = None
            /\ c \in DOMAIN backends /\ c \notin retiring
            /\ backends[c] = [key |-> KeyAt(m), open |-> TRUE]
            /\ \A n \in DOMAIN service.work :
                 service.work[n] = "built" /\ KeyAt(n) = KeyAt(m) => n = m
        BY <1>1, <4>1 DEF ReloadInv, LeaseInv, Builds
      <4>3. \A n \in DOMAIN service.work :
              service'.work[n] = "built" /\ KeyAt(n) = KeyAt(m) => n = m
        <5>1. KeyAt(l) # KeyAt(m)
          BY <1>1, <4>1
        <5> QED BY <1>6, <4>2, <5>1
      <4> QED BY <1>4, <4>1, <4>2, <4>3
    <3> QED BY <3>2, <3>3
  <2>6. Provisioned'
    BY <1>1, <1>5, <1>7, <1>8, WorkerProvisioned
  <2>7. ReadyHeld' /\ StoresOnly' /\ NoLeaseLost'
    BY <1>1, <1>5, <1>7, <1>8, WorkerLeases
  <2> QED BY <2>3, <2>4, <2>5, <2>6, <2>7 DEF LeaseInv
<1> QED BY <1>9, <1>10, <1>11 DEF ReloadInv

\* A worker puts the pool it built into service.
LEMMA WorkerInstallStep == ASSUME ReloadInv, NEW l \in Listeners, WorkerInstall(l) PROVE ReloadInv'
<1> DEFINE s == service.attempt
           k == KeyAt(l)
           b == plans[s].backend[l]
<1>1. /\ service.pc \in Provisioning /\ l \in DOMAIN service.work /\ service.work[l] = "built"
      /\ current[k] = None /\ b \in DOMAIN backends
      /\ backends[b] = [key |-> k, open |-> TRUE]
      /\ current' = [current EXCEPT ![k] = b]
      /\ holders' = [holders EXCEPT ![k] = {Lease(l)}]
      /\ backends' = backends /\ Settle(l, "leased")
      /\ UNCHANGED <<watchVars, requests, command, reply, readiness, shutdown, serverVars>>
  BY DEF WorkerInstall, ServiceAt, Working, Pool!Install
<1>2. /\ s \in Attempts /\ k \in Keys
  BY <1>1, WorkerKey
<1>3. /\ plans' = plans /\ releasing' = releasing /\ retiring' = retiring /\ active' = active
      /\ pending' = pending /\ drains' = drains
  BY <1>1 DEF serverVars
<1>4. /\ service'.pc = service.pc /\ service'.attempt = s
      /\ DOMAIN service'.work = DOMAIN service.work /\ DOMAIN service.work \subseteq Listeners
      /\ service'.work[l] = "leased"
      /\ \A m \in DOMAIN service.work : m # l => service'.work[m] = service.work[m]
      /\ ServiceType' /\ PlansType'
  BY <1>1, <1>3, WorkerFacts
<1>5. /\ holders \in [Keys -> SUBSET Leases] /\ Lease(l) \in Leases
      /\ Lease(l) = <<s, l>> /\ Lease(l)[1] = s /\ Lease(l)[2] = l
      /\ current \in [Keys -> Nat \cup {None}]
      /\ backends \in Seq([key : Keys, open : BOOLEAN])
  BY <1>2, PoolFacts DEF ReloadInv, Lease, Leases
<1>6. holders[k] = {}
  BY <1>1, <1>2, HeldFacts
<1>7. /\ holders'[k] = {Lease(l)} /\ \A j \in Keys : j # k => holders'[j] = holders[j]
      /\ holders' \in [Keys -> SUBSET Leases]
  BY <1>1, <1>2, <1>5
<1>8. b \in Nat
  BY <1>1, <1>5
<1>9. /\ current'[k] = b /\ \A j \in Keys : j # k => current'[j] = current[j]
      /\ current' \in [Keys -> Nat \cup {None}]
  BY <1>1, <1>2, <1>5, <1>8
<1>10. \A j \in Keys : holders[j] \subseteq holders'[j] /\ holders'[j] \subseteq holders[j] \cup {Lease(l)}
  BY <1>6, <1>7
<1>11. TurnInv'
  BY <1>1, <1>3, <1>10, WorkerTurn
<1>12. Types'
  <2>1. MembersType' /\ PoolType' /\ MessagesType'
    BY <1>1, <1>3, <1>7, <1>9 DEF ReloadInv, Types, MembersType, PoolType, MessagesType
  <2> QED BY <1>1, <1>4, <2>1, WatchTypesFrame DEF ReloadInv, Types
<1>13. Builds
  BY DEF ReloadInv, LeaseInv
<1>14. /\ b \notin retiring /\ b # None
       /\ \A m \in DOMAIN service.work : service.work[m] = "built" /\ KeyAt(m) = k => m = l
  BY <1>1, <1>8, <1>13, Constants DEF Builds
<1>15. LeaseInv'
  <2>1. \A j \in Keys : Lease(l) \notin holders[j]
    BY <1>1, WorkerFresh
  <2>2. \A m \in Listeners : KeyAt(m)' = KeyAt(m)
    BY <1>3, <1>4 DEF KeyAt
  <2>3. PoolsServe'
    <3>1. ASSUME NEW j \in Keys, NEW lease \in holders'[j]
          PROVE  /\ plans[lease[1]].key[lease[2]] = j
                 /\ plans[lease[1]].backend[lease[2]] = current'[j]
      <4>1. CASE j = k
        <5>1. lease = Lease(l)
          BY <1>7, <4>1
        <5>2. plans[s].key[l] = k
          BY DEF KeyAt
        <5> QED BY <1>5, <1>9, <4>1, <5>1, <5>2
      <4>2. CASE j # k
        <5>1. lease \in holders[j] /\ current'[j] = current[j]
          BY <1>7, <1>9, <4>2
        <5>2. plans[lease[1]].key[lease[2]] = j /\ plans[lease[1]].backend[lease[2]] = current[j]
          BY <5>1, HeldFacts
        <5> QED BY <5>1, <5>2
      <4> QED BY <4>1, <4>2
    <3>2. ASSUME NEW j \in Keys
          PROVE  /\ holders'[j] # {} <=> current'[j] # None
                 /\ current'[j] # None =>
                      /\ current'[j] \in DOMAIN backends
                      /\ backends[current'[j]] = [key |-> j, open |-> TRUE]
      <4>1. CASE j = k
        BY <1>1, <1>7, <1>9, <1>14, <4>1
      <4>2. CASE j # k
        <5>1. holders'[j] = holders[j] /\ current'[j] = current[j]
          BY <1>7, <1>9, <4>2
        <5>2. /\ holders[j] # {} <=> current[j] # None
              /\ current[j] # None =>
                   /\ current[j] \in DOMAIN backends
                   /\ backends[current[j]] = [key |-> j, open |-> TRUE]
          BY HeldFacts
        <5> QED BY <5>1, <5>2
      <4> QED BY <4>1, <4>2
    <3> QED BY <1>1, <1>3, <3>1, <3>2 DEF PoolsServe
  <2>4. RetiringGone'
    <3>1. ASSUME NEW c \in retiring, NEW j \in Keys PROVE current'[j] # c
      BY <1>9, <1>14 DEF ReloadInv, LeaseInv, RetiringGone
    <3> QED BY <1>3, <3>1 DEF RetiringGone
  <2>5. Builds'
    <3>1. SUFFICES ASSUME NEW m \in DOMAIN service.work, service'.work[m] = "built"
                   PROVE  LET c == plans[s].backend[m] IN
                          /\ current'[KeyAt(m)] = None
                          /\ c \in DOMAIN backends /\ c \notin retiring
                          /\ backends[c] = [key |-> KeyAt(m), open |-> TRUE]
                          /\ \A n \in DOMAIN service.work :
                               service'.work[n] = "built" /\ KeyAt(n) = KeyAt(m) => n = m
      BY <1>1, <1>3, <1>4, <2>2 DEF Builds
    <3>2. m # l /\ service.work[m] = "built"
      BY <1>4, <3>1
    <3>3. \A n \in DOMAIN service.work : service'.work[n] = "built" => service.work[n] = "built"
      BY <1>4
    <3>4. KeyAt(m) # k
      BY <1>14, <3>2
    <3>5. KeyAt(m) \in Keys
      BY <1>1, WorkerKey
    <3>6. LET c == plans[s].backend[m] IN
          /\ current[KeyAt(m)] = None
          /\ c \in DOMAIN backends /\ c \notin retiring
          /\ backends[c] = [key |-> KeyAt(m), open |-> TRUE]
          /\ \A n \in DOMAIN service.work :
               service.work[n] = "built" /\ KeyAt(n) = KeyAt(m) => n = m
      BY <1>1, <1>13, <3>2 DEF Builds
    <3> QED BY <1>9, <3>3, <3>4, <3>5, <3>6
  <2>6. Provisioned'
    BY <1>1, <1>3, <1>7, <1>10, WorkerProvisioned
  <2>7. ReadyHeld' /\ StoresOnly' /\ NoLeaseLost'
    BY <1>1, <1>3, <1>10, WorkerLeases
  <2> QED BY <2>3, <2>4, <2>5, <2>6, <2>7 DEF LeaseInv
<1> QED BY <1>11, <1>12, <1>15 DEF ReloadInv

\* A worker fails, and has taken nothing.
LEMMA WorkerFailStep == ASSUME ReloadInv, NEW l \in Listeners, WorkerFail(l) PROVE ReloadInv'
<1> DEFINE s == service.attempt
<1>1. /\ service.pc \in Provisioning /\ l \in DOMAIN service.work /\ service.work[l] = "todo"
      /\ Settle(l, "failed")
      /\ UNCHANGED <<watchVars, requests, command, reply, readiness, shutdown, serverVars, poolVars>>
  BY DEF WorkerFail, ServiceAt, Working
<1>2. /\ plans' = plans /\ releasing' = releasing /\ retiring' = retiring /\ active' = active
      /\ pending' = pending /\ drains' = drains /\ holders' = holders /\ current' = current
      /\ backends' = backends
  BY <1>1 DEF serverVars, poolVars
<1>3. /\ service'.pc = service.pc /\ service'.attempt = s
      /\ DOMAIN service'.work = DOMAIN service.work /\ DOMAIN service.work \subseteq Listeners
      /\ service'.work[l] = "failed"
      /\ \A m \in DOMAIN service.work : m # l => service'.work[m] = service.work[m]
      /\ ServiceType' /\ PlansType'
  BY <1>1, <1>2, WorkerFacts
<1>4. \A j \in Keys : holders[j] \subseteq holders'[j] /\ holders'[j] \subseteq holders[j] \cup {Lease(l)}
  BY <1>2
<1>5. TurnInv'
  BY <1>1, <1>2, <1>4, WorkerTurn
<1>6. Types'
  <2>1. MembersType' /\ PoolType' /\ MessagesType'
    BY <1>1, <1>2 DEF ReloadInv, Types, MembersType, PoolType, MessagesType
  <2> QED BY <1>1, <1>3, <2>1, WatchTypesFrame DEF ReloadInv, Types
<1>7. LeaseInv'
  <2>1. PoolsServe' /\ RetiringGone'
    BY <1>2 DEF ReloadInv, LeaseInv, PoolsServe, RetiringGone
  <2>2. Builds'
    <3>1. \A m \in Listeners : KeyAt(m)' = KeyAt(m)
      BY <1>2, <1>3 DEF KeyAt
    <3>2. \A n \in DOMAIN service.work : service'.work[n] = "built" => service.work[n] = "built"
      BY <1>3
    <3>3. SUFFICES ASSUME NEW m \in DOMAIN service.work, service'.work[m] = "built"
                   PROVE  LET c == plans[s].backend[m] IN
                          /\ current[KeyAt(m)] = None
                          /\ c \in DOMAIN backends /\ c \notin retiring
                          /\ backends[c] = [key |-> KeyAt(m), open |-> TRUE]
                          /\ \A n \in DOMAIN service.work :
                               service'.work[n] = "built" /\ KeyAt(n) = KeyAt(m) => n = m
      BY <1>2, <1>3, <3>1 DEF Builds
    <3>4. service.work[m] = "built"
      BY <3>2, <3>3
    <3>5. LET c == plans[s].backend[m] IN
          /\ current[KeyAt(m)] = None
          /\ c \in DOMAIN backends /\ c \notin retiring
          /\ backends[c] = [key |-> KeyAt(m), open |-> TRUE]
          /\ \A n \in DOMAIN service.work :
               service.work[n] = "built" /\ KeyAt(n) = KeyAt(m) => n = m
      BY <1>1, <3>4 DEF ReloadInv, LeaseInv, Builds
    <3> QED BY <3>2, <3>5
  <2>3. Provisioned'
    BY <1>1, <1>2, <1>4, WorkerProvisioned
  <2>4. ReadyHeld' /\ StoresOnly' /\ NoLeaseLost'
    BY <1>1, <1>2, <1>4, WorkerLeases
  <2> QED BY <2>1, <2>2, <2>3, <2>4 DEF LeaseInv
<1> QED BY <1>5, <1>6, <1>7 DEF ReloadInv

\* The service goes on to another state.
LEMMA ServiceMoves ==
  ASSUME ReloadInv, NEW pc \in ServicePcs, NEW a \in Attempts,
         service' = [service EXCEPT !.pc = pc] \/ service' = [service EXCEPT !.pc = pc, !.attempt = a]
  PROVE  /\ service'.pc = pc /\ ServiceType'
         /\ service' = [service EXCEPT !.pc = pc] => service'.attempt = service.attempt
<1>1. /\ service = [pc |-> service.pc, attempt |-> service.attempt, work |-> service.work]
      /\ service.attempt \in Attempts
      /\ DOMAIN service.work \subseteq Listeners
      /\ service.work = [m \in DOMAIN service.work |-> service.work[m]]
  BY DEF ReloadInv, Types, ServiceType
<1>2. CASE service' = [service EXCEPT !.pc = pc]
  <2>1. /\ service'.pc = pc /\ service'.attempt = service.attempt /\ service'.work = service.work
        /\ service' = [pc |-> service'.pc, attempt |-> service'.attempt, work |-> service'.work]
    BY <1>1, <1>2
  <2> QED BY <1>1, <2>1 DEF ServiceType
<1>3. CASE service' = [service EXCEPT !.pc = pc, !.attempt = a]
  <2>1. /\ service'.pc = pc /\ service'.attempt = a /\ service'.work = service.work
        /\ service' = [pc |-> service'.pc, attempt |-> service'.attempt, work |-> service'.work]
    BY <1>1, <1>3
  <2>2. service' = [service EXCEPT !.pc = pc] => service'.attempt = service.attempt
    BY <1>1
  <2> QED BY <1>1, <2>1, <2>2 DEF ServiceType
<1> QED BY <1>2, <1>3

\* The plan under way becomes ready, and is otherwise as it was.
LEMMA MarkReadyFacts ==
  ASSUME ReloadInv, MarkReady
  PROVE  /\ PlansType' /\ service.attempt \in Attempts /\ plans'[service.attempt].ready = TRUE
         /\ \A a \in Attempts : /\ plans'[a].key = plans[a].key
                                /\ plans'[a].backend = plans[a].backend
                                /\ a # service.attempt => plans'[a] = plans[a]
<1> DEFINE s == service.attempt
<1>1. s \in Attempts /\ plans \in [Attempts -> Plans] /\ plans[s] \in Plans
  <2>1. s \in Attempts
    BY DEF ReloadInv, Types, ServiceType
  <2> QED BY <2>1, PoolFacts DEF ReloadInv
<1>2. PICK p : p = [plans[s] EXCEPT !.ready = TRUE]
  OBVIOUS
<1>3. plans' = [plans EXCEPT ![s] = p]
  BY <1>1, <1>2 DEF MarkReady
<1>4. p \in Plans /\ p.key = plans[s].key /\ p.backend = plans[s].backend /\ p.ready = TRUE
  BY <1>1, <1>2 DEF Plans
<1> QED BY <1>1, <1>3, <1>4 DEF PlansType

\* Outside a provisioning the pools stay as they are.
LEMMA SettledPools ==
  ASSUME ReloadInv, UNCHANGED <<retiring, poolVars>>, service'.pc \notin Provisioning,
         \A a \in Attempts : plans'[a].key = plans[a].key /\ plans'[a].backend = plans[a].backend,
         \A a \in Attempts : \A l \in Listeners :
           <<a, l>> \in releasing' => <<a, l>> \in releasing \/ plans[a].key[l] # NoStore
  PROVE  PoolsServe' /\ RetiringGone' /\ Builds' /\ Provisioned' /\ StoresOnly'
<1>1. /\ current' = current /\ holders' = holders /\ backends' = backends /\ retiring' = retiring
  BY DEF poolVars
<1>2. PoolsServe'
  <2>1. ASSUME NEW k \in Keys, NEW lease \in holders[k]
        PROVE  /\ plans'[lease[1]].key[lease[2]] = k
               /\ plans'[lease[1]].backend[lease[2]] = current[k]
    <3>1. /\ plans[lease[1]].key[lease[2]] = k /\ plans[lease[1]].backend[lease[2]] = current[k]
          /\ lease[1] \in Attempts
      BY HeldFacts
    <3>2. plans'[lease[1]].key = plans[lease[1]].key /\ plans'[lease[1]].backend = plans[lease[1]].backend
      BY <3>1
    <3> QED BY <3>1, <3>2
  <2>2. ASSUME NEW k \in Keys
        PROVE  /\ holders[k] # {} <=> current[k] # None
               /\ current[k] # None =>
                    /\ current[k] \in DOMAIN backends
                    /\ backends[current[k]] = [key |-> k, open |-> TRUE]
    BY HeldFacts
  <2> QED BY <1>1, <2>1, <2>2 DEF PoolsServe
<1>3. RetiringGone' /\ Builds' /\ Provisioned'
  BY <1>1 DEF ReloadInv, LeaseInv, RetiringGone, Builds, Provisioned
<1>4. StoresOnly'
  BY DEF ReloadInv, LeaseInv, StoresOnly
<1> QED BY <1>2, <1>3, <1>4

\* Every worker is done: each store of the generation has its lease.
LEMMA AllLeased ==
  ASSUME ReloadInv, service.pc \in Provisioning, Outcomes \subseteq {"leased"}
  PROVE  \A l \in Listeners : KeyAt(l) # NoStore => Lease(l) \in holders[KeyAt(l)] /\ Lease(l) \notin releasing
<1>1. SUFFICES ASSUME NEW l \in Listeners, KeyAt(l) # NoStore
               PROVE  Lease(l) \in holders[KeyAt(l)] /\ Lease(l) \notin releasing
  OBVIOUS
<1>2. /\ DOMAIN service.work = {m \in Listeners : KeyAt(m) # NoStore}
      /\ \A m \in Listeners : Lease(m) \notin releasing
      /\ \A m \in DOMAIN service.work :
           service.work[m] = "leased" => Lease(m) \in holders[KeyAt(m)]
  BY DEF ReloadInv, LeaseInv, Provisioned
<1>3. l \in DOMAIN service.work
  BY <1>1, <1>2
<1>4. service.work[l] = "leased"
  BY <1>3 DEF Outcomes
<1> QED BY <1>2, <1>3, <1>4

\* A generation is ready, and kept: as the active one or as a prepared one.
LEMMA ReadyLeases ==
  ASSUME ReloadInv, service.pc \in Provisioning, Outcomes \subseteq {"leased"}, MarkReady,
         service' = [service EXCEPT !.pc = "loop"],
         UNCHANGED <<active, drains, releasing, retiring, poolVars>>,
         pending' = pending \/ pending' = pending \cup {service.attempt},
         service.attempt \in {active} \cup pending'
  PROVE  LeaseInv'
<1> DEFINE s == service.attempt
<1>1. /\ s \in Attempts /\ plans'[s].ready = TRUE
      /\ \A a \in Attempts : /\ plans'[a].key = plans[a].key /\ plans'[a].backend = plans[a].backend
                             /\ a # s => plans'[a] = plans[a]
  BY MarkReadyFacts
<1>2. /\ current' = current /\ holders' = holders /\ backends' = backends /\ releasing' = releasing
      /\ active' = active /\ drains' = drains
  BY DEF poolVars
<1>3. service'.pc = "loop"
  BY <1>1, ServiceMoves DEF ServicePcs
<1>4. PoolsServe' /\ RetiringGone' /\ Builds' /\ Provisioned' /\ StoresOnly'
  BY <1>1, <1>2, <1>3, SettledPools DEF Provisioning
<1>5. ReadyHeld'
  <2>1. SUFFICES ASSUME NEW a \in Attempts, Kept(a)', plans'[a].ready,
                        NEW l \in Listeners, plans[a].key[l] # NoStore
                 PROVE  <<a, l>> \in holders[plans[a].key[l]] /\ <<a, l>> \notin releasing
    BY <1>1, <1>2 DEF ReadyHeld
  <2>2. CASE a = s
    BY <2>1, <2>2, AllLeased DEF KeyAt, Lease
  <2>3. CASE a # s
    <3>1. Kept(a) /\ plans[a].ready
      BY <1>1, <1>2, <2>1, <2>3 DEF Kept
    <3> QED BY <2>1, <3>1 DEF ReloadInv, LeaseInv, ReadyHeld
  <2> QED BY <2>2, <2>3
<1>6. NoLeaseLost'
  <2>1. SUFFICES ASSUME NEW k \in Keys, NEW lease \in holders[k]
                 PROVE  \/ lease[1] \in {active} \cup pending' \cup {d.attempt : d \in drains}
                        \/ lease \in releasing
    BY <1>2 DEF NoLeaseLost
  <2>2. \/ lease[1] \in {active} \cup pending \cup {d.attempt : d \in drains}
        \/ lease \in releasing
        \/ lease[1] = s
    BY DEF ReloadInv, LeaseInv, NoLeaseLost, Provisioning
  <2> QED BY <2>2
<1> QED BY <1>4, <1>5, <1>6 DEF LeaseInv

\* The generation of the startup config is ready.
LEMMA InitialReadyStep == ASSUME ReloadInv, InitialReady PROVE ReloadInv'
<1> DEFINE s == service.attempt
<1>1. /\ service.pc = "initial" /\ Outcomes \subseteq {"leased"} /\ MarkReady
      /\ readiness' = "Ready" /\ service' = [service EXCEPT !.pc = "loop"]
      /\ UNCHANGED <<watchVars, requests, command, reply, shutdown, active, pending,
                     drains, releasing, retiring, poolVars>>
  BY DEF InitialReady, ServiceAt
<1>2. /\ watcher' = watcher /\ current_config' = current_config /\ live' = live
      /\ command' = command /\ reply' = reply /\ active' = active /\ pending' = pending
      /\ releasing' = releasing /\ holders' = holders
  BY <1>1 DEF watchVars, poolVars
<1>3. service'.pc = "loop" /\ ServiceType' /\ PlansType'
      /\ \A a \in Attempts : plans'[a].key = plans[a].key /\ (a # s => plans'[a] = plans[a])
  BY <1>1, ServiceMoves, MarkReadyFacts DEF ServicePcs
<1>4. Turns /\ Prepared /\ pending = {} /\ s = active /\ reply = None
  BY <1>1 DEF ReloadInv, TurnInv, Turns, Prepared
<1>5. (Committed' <=> Committed) /\ (NeedsStore' <=> NeedsStore) /\ OldPipelines' = OldPipelines
  BY <1>2 DEF Committed, NeedsStore, OldPipelines
<1>6. Turns'
  BY <1>2, <1>3, <1>4, <1>5 DEF Turns
<1>7. Prepared'
  BY <1>2, <1>3, <1>4 DEF Prepared
<1>8. \A a \in Attempts : Unplanned(a)' => Unplanned(a)
  BY <1>2 DEF Unplanned
<1>9. TurnInv'
  BY <1>1, <1>2, <1>3, <1>5, <1>6, <1>7, <1>8, ServiceQuiet DEF Provisioning
<1>10. LeaseInv'
  BY <1>1, <1>4, ReadyLeases DEF Provisioning
<1>11. Types'
  <2>1. MembersType' /\ PoolType' /\ MessagesType'
    BY <1>1 DEF ReloadInv, Types, MembersType, PoolType, MessagesType, poolVars
  <2> QED BY <1>1, <1>3, <2>1, WatchTypesFrame DEF ReloadInv, Types
<1> QED BY <1>9, <1>10, <1>11 DEF ReloadInv

\* The generation of a reload is prepared.
LEMMA PrepareReadyStep == ASSUME ReloadInv, PrepareReady PROVE ReloadInv'
<1> DEFINE s == service.attempt
<1>1. /\ service.pc = "provision" /\ Outcomes \subseteq {"leased"} /\ MarkReady
      /\ pending' = pending \cup {s} /\ reply' = TRUE
      /\ service' = [service EXCEPT !.pc = "loop"]
      /\ UNCHANGED <<watchVars, requests, command, readiness, shutdown, active, drains,
                     releasing, retiring, poolVars>>
  BY DEF PrepareReady, ServiceAt
<1>2. /\ watcher' = watcher /\ current_config' = current_config /\ live' = live
      /\ command' = command /\ active' = active
      /\ releasing' = releasing /\ holders' = holders
  BY <1>1 DEF watchVars, poolVars
<1>3. /\ service'.pc = "loop" /\ ServiceType' /\ PlansType' /\ s \in Attempts
      /\ \A a \in Attempts : plans'[a].key = plans[a].key /\ (a # s => plans'[a] = plans[a])
  BY <1>1, ServiceMoves, MarkReadyFacts DEF ServicePcs
<1>4. /\ pending = {} /\ watcher.pc = "prepare" /\ command = None /\ reply = None
      /\ s = watcher.attempt
      /\ \A l \in Listeners : plans[watcher.attempt].key[l] = KeyOf(watcher.new, l)
  BY <1>1 DEF ReloadInv, TurnInv, Turns, Prepared
<1>5. watcher.pc \in Waiting
  BY <1>4 DEF Waiting
<1>6. NeedsStore
  BY <1>5 DEF ReloadInv, TurnInv, Turns
<1>7. ~Committed /\ ~Committed' /\ NeedsStore'
  BY <1>2, <1>4, <1>6 DEF Committed, NeedsStore
<1>8. Turns'
  BY <1>2, <1>3, <1>4, <1>5, <1>7 DEF Turns
<1>9. Prepared'
  <2>1. pending' = {watcher.attempt} /\ reply' = TRUE
    BY <1>1, <1>4
  <2>2. \A l \in Listeners : plans'[watcher.attempt].key[l] = KeyOf(watcher.new, l)
    BY <1>3, <1>4
  <2> QED BY <1>2, <1>3, <1>4, <1>5, <1>7, <2>1, <2>2 DEF Prepared
<1>10. \A a \in Attempts : Unplanned(a)' => Unplanned(a)
  BY <1>2 DEF Unplanned
<1>11. TurnInv'
  BY <1>1, <1>2, <1>3, <1>7, <1>8, <1>9, <1>10, ServiceQuiet DEF Provisioning
<1>12. LeaseInv'
  BY <1>1, ReadyLeases DEF Provisioning
<1>13. Types'
  <2>1. MembersType' /\ PoolType' /\ MessagesType'
    BY <1>1, <1>3 DEF ReloadInv, Types, MembersType, PoolType, MessagesType, poolVars
  <2> QED BY <1>1, <1>3, <2>1, WatchTypesFrame DEF ReloadInv, Types
<1> QED BY <1>11, <1>12, <1>13 DEF ReloadInv

\* Leases are given up only by generations that are not kept.
LEMMA ReleaseLeases ==
  ASSUME ReloadInv, UNCHANGED <<plans, retiring, poolVars>>, service'.pc \notin Provisioning,
         \A a \in Attempts : Kept(a)' => Kept(a),
         \A a \in Attempts : \A l \in Listeners : <<a, l>> \in releasing' =>
           \/ <<a, l>> \in releasing
           \/ plans[a].key[l] # NoStore /\ ~(Kept(a)' /\ plans[a].ready),
         NoLeaseLost'
  PROVE  LeaseInv'
<1>1. plans' = plans /\ holders' = holders
  BY DEF poolVars
<1>2. PoolsServe' /\ RetiringGone' /\ Builds' /\ Provisioned' /\ StoresOnly'
  BY <1>1, SettledPools
<1>3. ReadyHeld'
  <2>1. SUFFICES ASSUME NEW a \in Attempts, Kept(a)', plans[a].ready,
                        NEW l \in Listeners, plans[a].key[l] # NoStore
                 PROVE  <<a, l>> \in holders[plans[a].key[l]] /\ <<a, l>> \notin releasing'
    BY <1>1 DEF ReadyHeld
  <2>2. <<a, l>> \in holders[plans[a].key[l]] /\ <<a, l>> \notin releasing
    BY <2>1 DEF ReloadInv, LeaseInv, ReadyHeld
  <2> QED BY <2>1, <2>2
<1> QED BY <1>2, <1>3 DEF LeaseInv

\* A prepared generation is neither active nor draining, and it has been planned.
LEMMA PendingApart ==
  ASSUME ReloadInv, NEW a \in pending
  PROVE  /\ a = watcher.attempt /\ a # active /\ active < a /\ \A d \in drains : d.attempt # a
         /\ ~Unplanned(a) /\ pending = {a} /\ service.pc = "loop"
<1>1. /\ pending = {watcher.attempt} /\ service.pc = "loop"
      /\ watcher.pc \in Waiting \cup {"build"} /\ ~Committed
      /\ watcher.pc = "prepare" => command = None
  BY DEF ReloadInv, TurnInv, Prepared
<1>2. watcher.attempt \in Attempts /\ watcher.attempt \in Nat /\ Attempts \subseteq Nat
  BY WatchFacts, Constants DEF ReloadInv
<1>3. watcher.pc \in Reloading /\ watcher.pc # "validate"
  BY <1>1 DEF Waiting, Reloading, WatcherPcs
<1>4. Unpublished(watcher.attempt)
  BY <1>1, <1>3 DEF Unpublished
<1>5. active < watcher.attempt /\ (\A d \in drains : d.attempt < active)
  BY <1>2, <1>4 DEF ReloadInv, TurnInv, Ages
<1>6. active \in Nat /\ \A d \in drains : d.attempt \in Nat
  BY <1>2, PoolFacts DEF ReloadInv
<1>7. watcher.attempt # active /\ \A d \in drains : d.attempt # watcher.attempt
  BY <1>2, <1>5, <1>6
<1>8. ~Unplanned(watcher.attempt)
  BY <1>1, <1>2, <1>3 DEF Unplanned
<1> QED BY <1>1, <1>5, <1>7, <1>8

\* The leases of a generation that somebody holds are among its leases.
LEMMA HeldLeases ==
  ASSUME ReloadInv, NEW k \in Keys, NEW lease \in holders[k]
  PROVE  lease \in LeasesOf(lease[1])
<1>1. /\ plans[lease[1]].key[lease[2]] = k /\ lease[2] \in Listeners
      /\ lease = <<lease[1], lease[2]>>
  BY HeldFacts
<1>2. k # NoStore
  BY Constants
<1> QED BY <1>1, <1>2 DEF LeasesOf

\* Of a generation that cannot be provided, what it got so far is released.
LEMMA ProvisionFailedStep == ASSUME ReloadInv, ProvisionFailed PROVE ReloadInv'
<1> DEFINE s == service.attempt
           pc == IF service.pc = "initial" THEN "initialrollback" ELSE "rollback"
<1>1. /\ service.pc \in Provisioning
      /\ releasing' = releasing \cup Leased
      /\ service' = [service EXCEPT !.pc = pc]
      /\ UNCHANGED <<watchVars, requests, command, reply, readiness, shutdown, plans,
                     active, pending, drains, retiring, poolVars>>
  BY DEF ProvisionFailed, ServiceAt
<1>2. /\ watcher' = watcher /\ current_config' = current_config /\ live' = live
      /\ command' = command /\ reply' = reply /\ readiness' = readiness /\ active' = active
      /\ pending' = pending /\ drains' = drains /\ plans' = plans /\ holders' = holders
  BY <1>1 DEF watchVars, poolVars
<1>3. pc \in ServicePcs /\ pc \notin Provisioning /\ s \in Attempts
  BY DEF ServicePcs, Provisioning, ReloadInv, Types, ServiceType
<1>4. service'.pc = pc /\ service'.attempt = s /\ ServiceType'
  BY <1>1, <1>3, ServiceMoves
<1>5. (Committed' <=> Committed) /\ (NeedsStore' <=> NeedsStore) /\ OldPipelines' = OldPipelines
  BY <1>2 DEF Committed, NeedsStore, OldPipelines
<1>6. Turns'
  <2>1. Turns /\ (Running' <=> Running)
    BY <1>2 DEF ReloadInv, TurnInv, Running
  <2>2. CASE service.pc = "initial"
    <3>1. service'.pc = "initialrollback"
      BY <1>4, <2>2
    <3> QED BY <1>2, <1>4, <1>5, <2>1, <2>2, <3>1 DEF Turns
  <2>3. CASE service.pc = "provision"
    <3>1. service'.pc = "rollback"
      BY <1>4, <2>3
    <3> QED BY <1>2, <1>4, <1>5, <2>1, <2>3, <3>1 DEF Turns
  <2> QED BY <1>1, <2>2, <2>3 DEF Provisioning
<1>7. pending = {} /\ ~Unplanned(s)
  BY <1>1, WorkPlanned
<1>8. Prepared'
  BY <1>2, <1>4, <1>7 DEF Prepared
<1>9. \A l \in Listeners : \A a \in Attempts : <<a, l>> \in Leased =>
        a = s /\ l \in DOMAIN service.work /\ service.work[l] = "leased"
  BY DEF Leased, Lease
<1>10. ASSUME NEW a \in Attempts, Unplanned(a)'
       PROVE  Unplanned(a) /\ \A l \in Listeners : <<a, l>> \in releasing' => <<a, l>> \in releasing
  <2>1. Unplanned(a)
    BY <1>2, <1>10 DEF Unplanned
  <2> QED BY <1>1, <1>7, <1>9, <2>1
<1>11. TurnInv'
  BY <1>1, <1>2, <1>5, <1>6, <1>8, <1>10, ServiceQuiet
<1>12. Provisioned
  BY DEF ReloadInv, LeaseInv
<1>13. NoLeaseLost'
  <2>1. SUFFICES ASSUME NEW k \in Keys, NEW lease \in holders[k]
                 PROVE  \/ lease[1] \in {active} \cup pending \cup {d.attempt : d \in drains}
                        \/ lease \in releasing \cup Leased
    BY <1>1, <1>2 DEF NoLeaseLost
  <2>2. \/ lease[1] \in {active} \cup pending \cup {d.attempt : d \in drains}
        \/ lease \in releasing
        \/ lease[1] = s
    BY <1>1 DEF ReloadInv, LeaseInv, NoLeaseLost, Provisioning
  <2>3. CASE lease[1] = s
    <3>1. lease = Lease(lease[2]) /\ lease[2] \in Listeners
      BY <2>3, HeldFacts DEF Lease
    <3>2. lease[2] \in DOMAIN service.work /\ service.work[lease[2]] = "leased"
      BY <1>1, <1>12, <3>1 DEF Provisioned
    <3> QED BY <3>1, <3>2 DEF Leased
  <2> QED BY <2>2, <2>3
<1>14. LeaseInv'
  <2>1. \A a \in Attempts : Kept(a)' => Kept(a)
    BY <1>2 DEF Kept
  <2>2. ASSUME NEW a \in Attempts, NEW l \in Listeners, <<a, l>> \in releasing'
        PROVE  \/ <<a, l>> \in releasing
               \/ plans[a].key[l] # NoStore /\ ~(Kept(a)' /\ plans[a].ready)
    <3>1. CASE <<a, l>> \in Leased
      <4>1. a = s /\ l \in DOMAIN service.work
        BY <1>9, <3>1
      <4>2. KeyAt(l) # NoStore /\ ~plans[s].ready
        BY <1>1, <1>12, <4>1 DEF Provisioned
      <4> QED BY <4>1, <4>2 DEF KeyAt
    <3> QED BY <1>1, <2>2, <3>1
  <2> QED BY <1>1, <1>3, <1>4, <1>13, <2>1, <2>2, ReleaseLeases
<1>15. Types'
  <2>1. Leased \subseteq Leases
    <3>1. DOMAIN service.work \subseteq Listeners
      BY DEF ReloadInv, Types, ServiceType
    <3> QED BY <1>3, <3>1 DEF Leased, Lease, Leases
  <2>2. MembersType' /\ PlansType' /\ PoolType' /\ MessagesType'
    BY <1>1, <1>2, <2>1 DEF ReloadInv, Types, MembersType, PlansType, PoolType, MessagesType, poolVars
  <2> QED BY <1>1, <1>4, <2>2, WatchTypesFrame DEF ReloadInv, Types
<1> QED BY <1>11, <1>14, <1>15 DEF ReloadInv

\* The service answers, or ends the process, once its rollback is through.
LEMMA FailedStep == ASSUME ReloadInv, InitialFailed \/ PrepareFailed \/ AbortDone PROVE ReloadInv'
<1> DEFINE s == service.attempt
           pc == IF service.pc = "initialrollback" THEN "stopped" ELSE "loop"
<1>1. /\ service' = [service EXCEPT !.pc = pc]
      /\ UNCHANGED <<watchVars, requests, command, shutdown, serverVars, poolVars>>
      /\ \/ service.pc = "initialrollback" /\ readiness' = "Failed" /\ reply' = reply
         \/ service.pc = "rollback" /\ reply' = FALSE /\ readiness' = readiness
         \/ service.pc = "abort" /\ reply' = TRUE /\ readiness' = readiness
  BY DEF InitialFailed, PrepareFailed, AbortDone, ServiceAt
<1>2. /\ watcher' = watcher /\ current_config' = current_config /\ live' = live
      /\ command' = command /\ active' = active /\ releasing' = releasing
      /\ pending' = pending /\ drains' = drains /\ plans' = plans /\ holders' = holders
  BY <1>1 DEF watchVars, serverVars, poolVars
<1>3. pc \in ServicePcs /\ pc \notin Provisioning /\ s \in Attempts
  BY DEF ServicePcs, Provisioning, ReloadInv, Types, ServiceType
<1>4. service'.pc = pc /\ service'.attempt = s /\ ServiceType'
  BY <1>1, <1>3, ServiceMoves
<1>5. Turns /\ Prepared
  BY DEF ReloadInv, TurnInv
<1>6. pending = {} /\ reply = None
  BY <1>1, <1>5 DEF Turns, Prepared
<1>7. /\ service.pc = "rollback" => watcher.pc = "prepare" /\ command = None
      /\ service.pc = "abort" => watcher.pc = "abort" /\ command = None
  BY <1>5 DEF Turns
<1>8. watcher.pc \in Waiting => NeedsStore
  BY <1>5 DEF Turns
<1>9. (Committed' <=> Committed) /\ (NeedsStore' <=> NeedsStore) /\ OldPipelines' = OldPipelines
  BY <1>1, <1>2, <1>6, <1>7 DEF Committed, NeedsStore, OldPipelines
<1>10. Turns'
  <2>1. CASE service.pc = "initialrollback"
    <3>1. ~Running' /\ reply' = None /\ service'.pc = "stopped"
      BY <1>1, <1>4, <1>6, <2>1 DEF Running
    <3> QED BY <1>2, <1>5, <1>9, <3>1 DEF Turns
  <2>2. CASE service.pc # "initialrollback"
    <3>1. /\ service'.pc = "loop" /\ command' = None /\ watcher.pc \in {"prepare", "abort"}
      BY <1>1, <1>2, <1>4, <1>7, <2>2
    <3> QED BY <1>2, <1>8, <1>9, <3>1 DEF Turns, Waiting
  <2> QED BY <2>1, <2>2
<1>11. Prepared'
  BY <1>2, <1>4, <1>6 DEF Prepared
<1>12. \A a \in Attempts : Unplanned(a)' => Unplanned(a)
  BY <1>2 DEF Unplanned
<1>13. TurnInv'
  BY <1>1, <1>2, <1>9, <1>10, <1>11, <1>12, ServiceQuiet
<1>14. NoLeaseLost'
  <2>1. service.pc # "stopped" /\ service.pc \notin Provisioning
    BY <1>1 DEF Provisioning
  <2> QED BY <1>2, <2>1 DEF ReloadInv, LeaseInv, NoLeaseLost
<1>15. LeaseInv'
  <2>1. \A a \in Attempts : Kept(a)' => Kept(a)
    BY <1>2 DEF Kept
  <2> QED BY <1>1, <1>2, <1>3, <1>4, <1>14, <2>1, ReleaseLeases DEF serverVars
<1>16. Types'
  <2>1. MembersType' /\ PlansType' /\ PoolType' /\ MessagesType'
    BY <1>1 DEF ReloadInv, Types, MembersType, PlansType, PoolType, MessagesType, serverVars, poolVars
  <2> QED BY <1>1, <1>4, <2>1, WatchTypesFrame DEF ReloadInv, Types
<1> QED BY <1>13, <1>15, <1>16 DEF ReloadInv

\* A command whose generation is not prepared is answered with an error.
LEMMA RefusedStep ==
  ASSUME ReloadInv, service.pc = "loop", command # None, command.attempt \notin pending,
         command' = None, reply' = FALSE,
         UNCHANGED <<watchVars, requests, service, readiness, shutdown, serverVars, poolVars>>
  PROVE  ReloadInv'
<1>1. /\ watcher' = watcher /\ current_config' = current_config /\ plans' = plans
      /\ active' = active /\ pending' = pending /\ service' = service
      /\ releasing' = releasing /\ holders' = holders
  BY DEF watchVars, serverVars, poolVars
<1>2. /\ watcher.pc \in Waiting /\ NeedsStore /\ ~Committed /\ command.attempt = watcher.attempt
  BY CommandFacts
<1>3. pending = {}
  BY <1>2 DEF ReloadInv, TurnInv, Prepared
<1>4. ~Committed' /\ NeedsStore'
  BY <1>1, <1>2 DEF Committed, NeedsStore, Waiting
<1>5. Turns' /\ Prepared'
  BY <1>1, <1>2, <1>3, <1>4 DEF Turns, Prepared
<1>6. \A a \in Attempts : Unplanned(a)' => Unplanned(a)
  BY <1>1 DEF Unplanned
<1>7. TurnInv'
  BY <1>1, <1>2, <1>4, <1>5, <1>6, ServiceQuiet DEF serverVars
<1>8. LeaseInv'
  BY LeaseFrame DEF ReloadInv
<1>9. MessagesType'
  BY DEF MessagesType
<1>10. Types'
  BY <1>9, ServiceTypesFrame, WatchTypesFrame DEF ReloadInv, Types
<1> QED BY <1>7, <1>8, <1>10 DEF ReloadInv

\* The prepared generation becomes the active one; the leases of the old one wait
\* for the pipelines that may still use them.
LEMMA CommitStep == ASSUME ReloadInv, Commit PROVE ReloadInv'
<1> DEFINE w == watcher.attempt
           drain == [old |-> command.old, attempt |-> active]
<1>1. service.pc = "loop" /\ command # None /\ command.kind = "Commit"
  BY DEF Commit, ServiceAt
<1>2. CASE command.attempt \notin pending
  <2>1. /\ command' = None /\ reply' = FALSE
        /\ UNCHANGED <<watchVars, requests, service, readiness, shutdown, serverVars, poolVars>>
    BY <1>2 DEF Commit, serverVars
  <2> QED BY <1>1, <1>2, <2>1, RefusedStep
<1>3. CASE command.attempt \in pending
  <2>1. /\ command' = None /\ drains' = drains \cup {drain} /\ releasing' = releasing
        /\ active' = command.attempt /\ pending' = pending \ {command.attempt}
        /\ readiness' = "Ready" /\ reply' = TRUE
        /\ UNCHANGED <<watchVars, requests, service, shutdown, plans, retiring, poolVars>>
    BY <1>3 DEF Commit, RetireOld
  <2>2. /\ disk' = disk /\ events' = events /\ watcher' = watcher /\ live' = live
        /\ current_config' = current_config /\ requests' = requests /\ service' = service
        /\ plans' = plans /\ holders' = holders
    BY <2>1 DEF watchVars, poolVars
  <2>3. /\ command.attempt = w /\ w \in Attempts /\ watcher.pc = "commit"
        /\ command.old = OldPipelines /\ command.old \in SUBSET (Bound \X Attempts)
        /\ watcher.pc \in Waiting /\ NeedsStore /\ ~Committed
        /\ Unpublished(w) /\ active < w
    BY <1>1, CommandFacts
  <2>4. pending = {w} /\ \A l \in Listeners : plans[w].key[l] = KeyOf(watcher.new, l)
    BY <1>3, <2>3 DEF ReloadInv, TurnInv, Prepared
  <2>5. active' = w /\ pending' = {}
    BY <2>1, <2>3, <2>4
  <2>6. Committed' /\ NeedsStore'
    BY <2>1, <2>2, <2>3 DEF Committed, NeedsStore
  <2>7. active \in Nat /\ w \in Nat /\ active \in Attempts /\ Attempts \subseteq Nat
        /\ \A d \in drains : d.attempt \in Nat
    BY <2>3, PoolFacts, Constants DEF ReloadInv
  <2>8. drain.attempt = active /\ drain.old = command.old
    OBVIOUS
  <2>9. Types'
    <3>1. drain \in [old : SUBSET (Bound \X Attempts), attempt : Attempts]
      BY <2>3, <2>7
    <3>2. MembersType'
      BY <2>1, <2>3, <2>5, <3>1 DEF ReloadInv, Types, MembersType
    <3>3. MessagesType' /\ ServiceType' /\ PlansType' /\ PoolType'
      BY <2>1 DEF ReloadInv, Types, MessagesType, ServiceType, PlansType, PoolType, poolVars
    <3> QED BY <2>1, <3>2, <3>3, WatchTypesFrame DEF ReloadInv, Types
  <2>10. EditsCounted'
    BY <2>2 DEF ReloadInv, TurnInv, EditsCounted
  <2>11. Turns'
    BY <1>1, <2>1, <2>2, <2>3, <2>6 DEF Turns
  <2>12. Prepared'
    BY <1>1, <2>2, <2>5 DEF Prepared
  <2>13. ActivePlanned' /\ ActiveLive' /\ NothingPlanned'
    BY <2>2, <2>3, <2>4, <2>5, <2>6 DEF ActivePlanned, ActiveLive, NothingPlanned
  <2>14. \A a \in Attempts : Unpublished(a)' => Unpublished(a) /\ w < a
    BY <2>2, <2>6, <2>7 DEF Unpublished
  <2>15. Ages'
    <3>1. Ages
      BY DEF ReloadInv, TurnInv
    <3>2. \A d \in drains' : d.attempt < w
      BY <2>1, <2>3, <2>7, <2>8, <3>1 DEF Ages
    <3>3. \A d, e \in drains' : d.attempt = e.attempt => d = e
      <4>1. \A d \in drains : d.attempt # active
        BY <2>7, <3>1 DEF Ages
      <4> QED BY <2>1, <2>8, <3>1, <4>1 DEF Ages
    <3> QED BY <2>2, <2>5, <2>14, <3>1, <3>2, <3>3 DEF Ages
  <2>16. Unused'
    <3>1. \A a \in Attempts : Unplanned(a)' => Unplanned(a)
      BY <2>2, <2>3 DEF Unplanned
    <3> QED BY <2>1, <2>2, <3>1 DEF ReloadInv, TurnInv, Unused
  <2>17. PipelinesKept'
    <3>1. SUFFICES ASSUME NEW l \in Bound, NEW a \in Attempts, plans[a].key[l] # NoStore,
                          \/ live[l] = a
                          \/ \E r \in Requests : requests[r] # None /\ requests[r] = <<l, a>>
                   PROVE  \E d \in drains' : d.attempt = a /\ <<l, a>> \in d.old
      BY <2>2 DEF PipelinesKept
    <3>2. a = active \/ \E d \in drains : d.attempt = a /\ <<l, a>> \in d.old
      BY <3>1 DEF ReloadInv, TurnInv, PipelinesKept
    <3>3. CASE a = active
      <4>1. l \in Listeners /\ current_config \in AllConfigs
        BY ConfigFacts DEF ReloadInv, Types
      <4>2. KeyOf(current_config, l) # NoStore
        BY <2>3, <3>1, <3>3, <4>1 DEF ReloadInv, TurnInv, ActivePlanned
      <4>3. l \in StoreListeners(current_config) \cap Bound
        BY <4>1, <4>2, ConfigFacts
      <4>4. live[l] = active
        BY <2>3, <4>3 DEF ReloadInv, TurnInv, ActiveLive
      <4>5. <<l, a>> \in command.old
        BY <2>3, <3>3, <4>3, <4>4 DEF OldPipelines
      <4> QED BY <2>1, <2>8, <3>3, <4>5
    <3>4. CASE \E d \in drains : d.attempt = a /\ <<l, a>> \in d.old
      BY <2>1, <3>4
    <3> QED BY <3>2, <3>3, <3>4
  <2>18. TurnInv'
    BY <2>10, <2>11, <2>12, <2>13, <2>15, <2>16, <2>17 DEF TurnInv
  <2>19. \A a \in Attempts : Kept(a)' => Kept(a)
    BY <2>1, <2>4, <2>5, <2>8 DEF Kept
  <2>20. NoLeaseLost'
    <3>1. SUFFICES ASSUME NEW k \in Keys, NEW lease \in holders[k]
                   PROVE  \/ lease[1] \in {active'} \cup {d.attempt : d \in drains'}
                          \/ lease \in releasing
      BY <2>1, <2>2 DEF NoLeaseLost
    <3>2. \/ lease[1] \in {active} \cup pending \cup {d.attempt : d \in drains}
          \/ lease \in releasing
      BY <1>1 DEF ReloadInv, LeaseInv, NoLeaseLost, Provisioning
    <3> QED BY <2>1, <2>4, <2>5, <2>8, <3>2
  <2>21. LeaseInv'
    <3>1. service'.pc \notin Provisioning
      BY <1>1, <2>2 DEF Provisioning
    <3> QED BY <2>1, <2>19, <2>20, <3>1, ReleaseLeases
  <2> QED BY <2>9, <2>18, <2>21 DEF ReloadInv
<1> QED BY <1>2, <1>3

\* The prepared generations are given up, and all their leases released.
LEMMA GivenUp ==
  ASSUME ReloadInv, service.pc = "loop", pending # {}, pending' = {},
         releasing' = releasing \cup LeasesOf(watcher.attempt),
         service'.pc \notin Provisioning \cup {"loop"},
         UNCHANGED <<plans, active, drains, retiring, poolVars>>
  PROVE  /\ LeaseInv' /\ releasing' \subseteq Leases
         /\ \A a \in Attempts : Unplanned(a) =>
              \A l \in Listeners : <<a, l>> \in releasing' => <<a, l>> \in releasing
<1> DEFINE w == watcher.attempt
<1>1. pending = {w}
  BY DEF ReloadInv, TurnInv, Prepared
<1>2. w # active /\ (\A d \in drains : d.attempt # w) /\ ~Unplanned(w)
  BY <1>1, PendingApart
<1>3. \A a : \A l \in Listeners : <<a, l>> \in LeasesOf(w) <=> a = w /\ plans[w].key[l] # NoStore
  BY DEF LeasesOf
<1>4. \A a \in Attempts : Kept(a)' => Kept(a) /\ a # w
  BY <1>2 DEF Kept
<1>5. NoLeaseLost'
  <2>1. SUFFICES ASSUME NEW k \in Keys, NEW lease \in holders[k]
                 PROVE  \/ lease[1] \in {active} \cup {d.attempt : d \in drains}
                        \/ lease \in releasing \cup LeasesOf(w)
    BY DEF NoLeaseLost, poolVars
  <2>2. \/ lease[1] \in {active} \cup pending \cup {d.attempt : d \in drains}
        \/ lease \in releasing
    BY DEF ReloadInv, LeaseInv, NoLeaseLost, Provisioning
  <2> QED BY <1>1, <2>2, HeldLeases
<1>6. LeaseInv'
  BY <1>3, <1>4, <1>5, ReleaseLeases
<1>7. releasing' \subseteq Leases
  <2>1. w \in Attempts /\ releasing \subseteq Leases
    BY <1>1, PoolFacts DEF ReloadInv
  <2> QED BY <2>1 DEF LeasesOf, Leases
<1> QED BY <1>2, <1>3, <1>6, <1>7

\* A prepared generation is aborted.
LEMMA AbortStep == ASSUME ReloadInv, Abort PROVE ReloadInv'
<1> DEFINE w == watcher.attempt
<1>1. service.pc = "loop" /\ command # None /\ command.kind = "Abort"
  BY DEF Abort, ServiceAt
<1>2. CASE command.attempt \notin pending
  <2>1. /\ command' = None /\ reply' = FALSE
        /\ UNCHANGED <<watchVars, requests, service, readiness, shutdown, serverVars, poolVars>>
    BY <1>2 DEF Abort, serverVars
  <2> QED BY <1>1, <1>2, <2>1, RefusedStep
<1>3. CASE command.attempt \in pending
  <2>1. /\ command' = None /\ releasing' = releasing \cup LeasesOf(command.attempt)
        /\ pending' = pending \ {command.attempt} /\ reply' = reply
        /\ service' = [service EXCEPT !.pc = "abort", !.attempt = command.attempt]
        /\ UNCHANGED <<watchVars, requests, readiness, shutdown, plans, active, drains,
                       retiring, poolVars>>
    BY <1>3 DEF Abort
  <2>2. /\ watcher' = watcher /\ current_config' = current_config
        /\ plans' = plans /\ holders' = holders /\ active' = active
    BY <2>1 DEF watchVars, poolVars
  <2>3. /\ command.attempt = w /\ w \in Attempts /\ watcher.pc = "abort" /\ reply = None
        /\ watcher.pc \in Waiting /\ NeedsStore /\ ~Committed
    BY <1>1, CommandFacts
  <2>4. pending = {w}
    BY <1>3, <2>3 DEF ReloadInv, TurnInv, Prepared
  <2>5. pending' = {} /\ releasing' = releasing \cup LeasesOf(w) /\ pending # {}
    BY <2>1, <2>3, <2>4
  <2>6. service'.pc = "abort" /\ ServiceType'
    BY <2>1, <2>3, ServiceMoves DEF ServicePcs
  <2>7. /\ LeaseInv' /\ releasing' \subseteq Leases
        /\ \A a \in Attempts : Unplanned(a) =>
             \A l \in Listeners : <<a, l>> \in releasing' => <<a, l>> \in releasing
    BY <1>1, <2>1, <2>5, <2>6, GivenUp DEF Provisioning
  <2>8. ~Committed' /\ NeedsStore'
    BY <2>2, <2>3 DEF Committed, NeedsStore
  <2>9. Turns' /\ Prepared'
    BY <2>1, <2>2, <2>3, <2>5, <2>6, <2>8 DEF Turns, Prepared
  <2>10. \A a \in Attempts : Unplanned(a)' => Unplanned(a)
    BY <2>2, <2>3 DEF Unplanned
  <2>11. TurnInv'
    BY <2>1, <2>2, <2>3, <2>7, <2>8, <2>9, <2>10, ServiceQuiet
  <2>12. Types'
    <3>1. MembersType' /\ MessagesType' /\ PlansType' /\ PoolType'
      BY <2>1, <2>5, <2>7 DEF ReloadInv, Types, MembersType, MessagesType, PlansType, PoolType, poolVars
    <3> QED BY <2>1, <2>6, <3>1, WatchTypesFrame DEF ReloadInv, Types
  <2> QED BY <2>7, <2>11, <2>12 DEF ReloadInv
<1> QED BY <1>2, <1>3

\* The service stops between two commands.
LEMMA StopStep == ASSUME ReloadInv, Stop PROVE ReloadInv'
<1> DEFINE w == watcher.attempt
<1>1. /\ service.pc = "loop" /\ releasing' = releasing \cup PendingLeases /\ pending' = {}
      /\ command' = None /\ service' = [service EXCEPT !.pc = "stopped"]
      /\ UNCHANGED <<watchVars, requests, reply, readiness, shutdown, plans, active,
                     drains, retiring, poolVars>>
  BY DEF Stop, ServiceAt
<1>2. /\ watcher' = watcher /\ current_config' = current_config /\ reply' = reply
      /\ plans' = plans /\ holders' = holders /\ active' = active /\ drains' = drains
  BY <1>1 DEF watchVars, poolVars
<1>3. service'.pc = "stopped" /\ ServiceType'
  <2>1. 0 \in Attempts
    BY Constants
  <2> QED BY <1>1, <2>1, ServiceMoves DEF ServicePcs
<1>4. /\ LeaseInv' /\ releasing' \subseteq Leases
      /\ \A a \in Attempts : Unplanned(a) =>
           \A l \in Listeners : <<a, l>> \in releasing' => <<a, l>> \in releasing
  <2>1. CASE pending = {}
    <3>1. releasing' = releasing
      BY <1>1, <2>1 DEF PendingLeases
    <3>2. NoLeaseLost'
      BY <1>3 DEF NoLeaseLost
    <3>3. \A a \in Attempts : Kept(a)' => Kept(a)
      BY <1>1, <1>2 DEF Kept
    <3>4. LeaseInv'
      BY <1>1, <1>3, <3>1, <3>2, <3>3, ReleaseLeases DEF Provisioning
    <3> QED BY <3>1, <3>4, PoolFacts DEF ReloadInv
  <2>2. CASE pending # {}
    <3>1. pending = {w}
      BY <2>2 DEF ReloadInv, TurnInv, Prepared
    <3>2. releasing' = releasing \cup LeasesOf(w)
      BY <1>1, <3>1 DEF PendingLeases
    <3> QED BY <1>1, <1>3, <2>2, <3>2, GivenUp DEF Provisioning
  <2> QED BY <2>1, <2>2
<1>5. (Committed' <=> Committed) /\ (NeedsStore' <=> NeedsStore)
  BY <1>2 DEF Committed, NeedsStore
<1>6. Turns'
  <2>1. Turns
    BY DEF ReloadInv, TurnInv
  <2> QED BY <1>1, <1>2, <1>3, <1>5, <2>1 DEF Turns
<1>7. Prepared'
  BY <1>1, <1>3 DEF Prepared
<1>8. \A a \in Attempts : Unplanned(a)' => Unplanned(a)
  BY <1>1, <1>2 DEF Unplanned
<1>9. TurnInv'
  BY <1>1, <1>2, <1>4, <1>5, <1>6, <1>7, <1>8, ServiceQuiet
<1>10. Types'
  <2>1. MembersType' /\ MessagesType' /\ PlansType' /\ PoolType'
    BY <1>1, <1>4 DEF ReloadInv, Types, MembersType, MessagesType, PlansType, PoolType, poolVars
  <2> QED BY <1>1, <1>3, <2>1, WatchTypesFrame DEF ReloadInv, Types
<1> QED BY <1>4, <1>9, <1>10 DEF ReloadInv

\* The service stops while it provisions or rolls back.
LEMMA StopProvisioningStep == ASSUME ReloadInv, StopProvisioning PROVE ReloadInv'
<1>1. /\ service.pc \in {"initial", "provision", "initialrollback", "rollback"}
      /\ releasing' = (releasing \ LeasesOf(service.attempt)) \cup PendingLeases /\ pending' = {}
      /\ command' = None /\ service' = [service EXCEPT !.pc = "stopped"]
      /\ reply' = IF service.pc \in {"provision", "rollback"} THEN FALSE ELSE reply
      /\ UNCHANGED <<watchVars, requests, readiness, shutdown, plans, active, drains,
                     retiring, poolVars>>
  BY DEF StopProvisioning, ServiceAt
<1>2. /\ watcher' = watcher /\ current_config' = current_config
      /\ plans' = plans /\ holders' = holders /\ active' = active /\ drains' = drains
  BY <1>1 DEF watchVars, poolVars
<1>3. service'.pc = "stopped" /\ ServiceType'
  <2>1. 0 \in Attempts
    BY Constants
  <2> QED BY <1>1, <2>1, ServiceMoves DEF ServicePcs
<1>4. pending = {}
  BY <1>1, WorkPlanned DEF Provisioning
<1>5. releasing' \subseteq releasing
  BY <1>1, <1>4 DEF PendingLeases
<1>6. LeaseInv'
  <2>1. NoLeaseLost'
    BY <1>3 DEF NoLeaseLost
  <2>2. \A a \in Attempts : Kept(a)' => Kept(a)
    BY <1>1, <1>2 DEF Kept
  <2> QED BY <1>1, <1>3, <1>5, <2>1, <2>2, ReleaseLeases DEF Provisioning
<1>7. Turns /\ reply = None
  BY <1>1 DEF ReloadInv, TurnInv, Turns
<1>8. service.pc \in {"provision", "rollback"} => watcher.pc = "prepare" /\ reply' = FALSE
  BY <1>1, <1>7 DEF Turns
<1>9. service.pc \notin {"provision", "rollback"} => reply' = None
  BY <1>1, <1>7
<1>10. (Committed' <=> Committed) /\ (NeedsStore' <=> NeedsStore)
  BY <1>2, <1>7, <1>8, <1>9, Constants DEF Committed, NeedsStore
<1>11. Turns'
  <2>1. watcher.pc \in Waiting => NeedsStore
    BY <1>7 DEF Turns
  <2>2. reply' # None => watcher.pc = "prepare"
    BY <1>8, <1>9
  <2> QED BY <1>1, <1>2, <1>3, <1>10, <2>1, <2>2 DEF Turns, Waiting
<1>12. Prepared'
  BY <1>1, <1>3 DEF Prepared
<1>13. \A a \in Attempts : Unplanned(a)' => Unplanned(a)
  BY <1>1, <1>2 DEF Unplanned
<1>14. TurnInv'
  BY <1>1, <1>2, <1>5, <1>10, <1>11, <1>12, <1>13, ServiceQuiet
<1>15. Types'
  <2>1. MembersType' /\ PlansType' /\ PoolType'
    BY <1>1, <1>5 DEF ReloadInv, Types, MembersType, PlansType, PoolType, poolVars
  <2>2. MessagesType'
    BY <1>1, <1>8, <1>9 DEF MessagesType
  <2> QED BY <1>1, <1>3, <2>1, <2>2, WatchTypesFrame DEF ReloadInv, Types
<1> QED BY <1>6, <1>14, <1>15 DEF ReloadInv

\* Every step of the service.
LEMMA ServiceStep == ASSUME ReloadInv, Service PROVE ReloadInv'
  BY PrepareRejectStep, PrepareBeginStep, WorkerShareStep, WorkerBuildStep, WorkerInstallStep,
     WorkerFailStep, InitialReadyStep, PrepareReadyStep, ProvisionFailedStep, FailedStep,
     CommitStep, AbortStep, StopStep, StopProvisioningStep
  DEF Service

-----------------------------------------------------------------------------
(* Drains and releases                                                     *)

\* A step beside the service: the watcher and the service keep their turns.
LEMMA BackgroundTurn ==
  ASSUME ReloadInv,
         UNCHANGED <<watchVars, requests, command, reply, service, readiness, plans, active,
                     pending>>,
         drains' \subseteq drains, PipelinesKept',
         \A a \in Attempts : Unplanned(a) => \A l \in Listeners :
           /\ <<a, l>> \in releasing' => <<a, l>> \in releasing
           /\ \A k \in Keys : <<a, l>> \in holders'[k] => <<a, l>> \in holders[k]
  PROVE  TurnInv'
<1>1. /\ disk' = disk /\ events' = events /\ watcher' = watcher
      /\ current_config' = current_config /\ live' = live /\ requests' = requests
      /\ active' = active /\ pending' = pending /\ plans' = plans /\ command' = command
      /\ reply' = reply /\ service' = service /\ readiness' = readiness
  BY DEF watchVars
<1>2. (Committed' <=> Committed) /\ (NeedsStore' <=> NeedsStore) /\ OldPipelines' = OldPipelines
  BY <1>1 DEF Committed, NeedsStore, OldPipelines
<1>3. \A a \in Attempts : (Unpublished(a)' <=> Unpublished(a)) /\ (Unplanned(a)' <=> Unplanned(a))
  BY <1>1, <1>2 DEF Unpublished, Unplanned
<1>4. EditsCounted' /\ Turns' /\ Prepared' /\ NothingPlanned'
  BY <1>1, <1>2 DEF ReloadInv, TurnInv, EditsCounted, Turns, Prepared, NothingPlanned, Running
<1>5. ActivePlanned' /\ ActiveLive'
  BY <1>1, <1>2 DEF ReloadInv, TurnInv, ActivePlanned, ActiveLive
<1>6. Ages'
  BY <1>1, <1>3 DEF ReloadInv, TurnInv, Ages
<1>7. Unused'
  BY <1>1, <1>3 DEF ReloadInv, TurnInv, Unused
<1> QED BY <1>4, <1>5, <1>6, <1>7 DEF TurnInv

\* The old pipelines are gone: the leases of their generation are released.
LEMMA DrainedStep == ASSUME ReloadInv, NEW d \in drains, Drained(d) PROVE ReloadInv'
<1> DEFINE g == d.attempt
<1>1. /\ \A pipeline \in d.old : ~Strong(pipeline)
      /\ drains' = drains \ {d} /\ releasing' = releasing \cup LeasesOf(g)
      /\ UNCHANGED <<watchVars, requests, command, reply, service, readiness, shutdown,
                     plans, active, pending, retiring, poolVars>>
  BY DEF Drained
<1>2. /\ live' = live /\ requests' = requests /\ service' = service /\ plans' = plans
      /\ active' = active /\ pending' = pending /\ retiring' = retiring
      /\ current' = current /\ holders' = holders /\ backends' = backends
  BY <1>1 DEF watchVars, poolVars
<1>3. g \in Attempts /\ g \in Nat /\ active \in Nat /\ Attempts \subseteq Nat
  BY PoolFacts, Constants DEF ReloadInv
<1>4. Ages
  BY DEF ReloadInv, TurnInv
<1>5. g < active /\ g # active
  BY <1>3, <1>4 DEF Ages
<1>6. g \notin pending
  BY PendingApart
<1>7. \A e \in drains \ {d} : e.attempt # g
  BY <1>4 DEF Ages
<1>8. \A a \in Attempts : Kept(a)' => Kept(a) /\ a # g
  BY <1>1, <1>2, <1>5, <1>6, <1>7 DEF Kept
<1>9. \A a : \A l \in Listeners : <<a, l>> \in LeasesOf(g) <=> a = g /\ plans[g].key[l] # NoStore
  BY DEF LeasesOf
<1>10. ~Unplanned(g)
  <2>1. Unplanned(g) => Unpublished(g)
    BY DEF Unplanned, Unpublished, Committed, Reloading, WatcherPcs
  <2>2. Unpublished(g) => active < g
    BY <1>3, <1>4 DEF Ages
  <2> QED BY <1>3, <1>5, <2>1, <2>2
<1>11. PipelinesKept'
  <2>1. SUFFICES ASSUME NEW l \in Bound, NEW a \in Attempts, plans[a].key[l] # NoStore,
                        \/ live[l] = a
                        \/ \E r \in Requests : requests[r] # None /\ requests[r] = <<l, a>>
                 PROVE  a = active \/ \E e \in drains \ {d} : e.attempt = a /\ <<l, a>> \in e.old
    BY <1>1, <1>2 DEF PipelinesKept
  <2>2. a = active \/ \E e \in drains : e.attempt = a /\ <<l, a>> \in e.old
    BY <2>1 DEF ReloadInv, TurnInv, PipelinesKept
  <2>3. Strong(<<l, a>>)
    BY <2>1 DEF Strong
  <2> QED BY <1>1, <2>2, <2>3
<1>12. TurnInv'
  BY <1>1, <1>2, <1>9, <1>10, <1>11, BackgroundTurn
<1>13. LeaseInv'
  <2>1. PoolsServe' /\ RetiringGone' /\ Builds'
    BY <1>2 DEF ReloadInv, LeaseInv, PoolsServe, RetiringGone, Builds, KeyAt
  <2>2. Provisioned'
    <3>1. ASSUME service.pc \in Provisioning, NEW l \in Listeners PROVE Lease(l) \notin releasing'
      <4>1. service.attempt # g
        BY <3>1, WorkPlanned
      <4>2. Lease(l) \notin LeasesOf(g)
        BY <1>9, <4>1 DEF Lease
      <4> QED BY <1>1, <3>1, <4>2 DEF ReloadInv, LeaseInv, Provisioned
    <3>2. \A l \in Listeners : Lease(l)' = Lease(l) /\ KeyAt(l)' = KeyAt(l)
      BY <1>2 DEF Lease, KeyAt
    <3>3. DOMAIN service.work \subseteq Listeners
      BY DEF ReloadInv, Types, ServiceType
    <3> QED BY <1>2, <3>1, <3>2, <3>3 DEF ReloadInv, LeaseInv, Provisioned
  <2>3. ReadyHeld'
    <3>1. SUFFICES ASSUME NEW a \in Attempts, Kept(a)', plans[a].ready,
                          NEW l \in Listeners, plans[a].key[l] # NoStore
                   PROVE  <<a, l>> \in holders[plans[a].key[l]] /\ <<a, l>> \notin releasing'
      BY <1>2 DEF ReadyHeld
    <3>2. <<a, l>> \in holders[plans[a].key[l]] /\ <<a, l>> \notin releasing
      BY <1>8, <3>1 DEF ReloadInv, LeaseInv, ReadyHeld
    <3> QED BY <1>1, <1>8, <1>9, <3>1, <3>2
  <2>4. StoresOnly'
    BY <1>1, <1>2, <1>9 DEF ReloadInv, LeaseInv, StoresOnly
  <2>5. NoLeaseLost'
    <3>1. SUFFICES ASSUME service.pc # "stopped", NEW k \in Keys, NEW lease \in holders[k]
                   PROVE  \/ lease[1] \in {active} \cup pending \cup {e.attempt : e \in drains \ {d}}
                          \/ lease \in releasing \cup LeasesOf(g)
                          \/ lease[1] = service.attempt /\ service.pc \in Provisioning
      BY <1>1, <1>2 DEF NoLeaseLost
    <3>2. \/ lease[1] \in {active} \cup pending \cup {e.attempt : e \in drains}
          \/ lease \in releasing
          \/ lease[1] = service.attempt /\ service.pc \in Provisioning
      BY <3>1 DEF ReloadInv, LeaseInv, NoLeaseLost
    <3>3. lease \in LeasesOf(lease[1])
      BY HeldLeases
    <3> QED BY <3>2, <3>3
  <2> QED BY <2>1, <2>2, <2>3, <2>4, <2>5 DEF LeaseInv
<1>14. Types'
  <2>1. LeasesOf(g) \subseteq Leases
    BY <1>3 DEF LeasesOf, Leases
  <2>2. MembersType' /\ MessagesType' /\ ServiceType' /\ PlansType' /\ PoolType'
    BY <1>1, <1>2, <2>1
    DEF ReloadInv, Types, MembersType, MessagesType, ServiceType, PlansType, PoolType
  <2> QED BY <1>1, <2>2, WatchTypesFrame DEF ReloadInv, Types
<1> QED BY <1>12, <1>13, <1>14 DEF ReloadInv

\* A lease is released; the last one takes the pool of its key out of service.
LEMMA ReleaseStep == ASSUME ReloadInv, NEW lease \in releasing, Release(lease) PROVE ReloadInv'
<1> DEFINE k == plans[lease[1]].key[lease[2]]
           last == holders[k] = {lease}
<1>1. /\ lease \in holders[k]
      /\ holders' = [holders EXCEPT ![k] = @ \ {lease}]
      /\ current' = [current EXCEPT ![k] = IF last THEN None ELSE @]
      /\ backends' = backends
      /\ retiring' = IF last THEN retiring \cup {current[k]} ELSE retiring
      /\ releasing' = releasing \ {lease}
      /\ UNCHANGED <<watchVars, requests, command, reply, service, readiness, shutdown,
                     plans, active, pending, drains>>
  BY DEF Release, Pool!Drop
<1>2. /\ live' = live /\ requests' = requests /\ service' = service /\ plans' = plans
      /\ active' = active /\ pending' = pending /\ drains' = drains
  BY <1>1 DEF watchVars
<1>3. /\ lease[1] \in Attempts /\ lease[2] \in Listeners /\ lease = <<lease[1], lease[2]>>
  BY PoolFacts DEF ReloadInv
<1>4. k \in Keys
  <2>1. k # NoStore
    <3>1. <<lease[1], lease[2]>> \in releasing
      BY <1>3
    <3> QED BY <1>3, <3>1 DEF ReloadInv, LeaseInv, StoresOnly
  <2>2. k \in Keys \cup {NoStore}
    BY <1>3, PoolFacts DEF ReloadInv
  <2> QED BY <2>1, <2>2
<1>5. /\ holders \in [Keys -> SUBSET Leases] /\ current \in [Keys -> Nat \cup {None}]
      /\ retiring \subseteq DOMAIN backends /\ releasing \subseteq Leases
  BY PoolFacts DEF ReloadInv
<1> HIDE DEF k
<1>6. /\ holders'[k] = holders[k] \ {lease} /\ \A j \in Keys : j # k => holders'[j] = holders[j]
      /\ holders' \in [Keys -> SUBSET Leases]
  BY <1>1, <1>4, <1>5
<1>7. /\ current'[k] = IF last THEN None ELSE current[k]
      /\ \A j \in Keys : j # k => current'[j] = current[j]
      /\ current' \in [Keys -> Nat \cup {None}]
  BY <1>1, <1>4, <1>5
<1>8. /\ current[k] # None /\ current[k] \in DOMAIN backends
      /\ backends[current[k]] = [key |-> k, open |-> TRUE]
  BY <1>1, <1>4, HeldFacts
<1>9. \A j \in Keys : lease \in holders[j] => j = k
  BY HeldFacts DEF k
<1>10. \A j \in Keys : holders'[j] = holders[j] \ {lease}
  BY <1>6, <1>9
<1>11. \A j \in Keys : j # k => current[j] # current[k]
  <2>1. SUFFICES ASSUME NEW j \in Keys, j # k, current[j] = current[k] PROVE FALSE
    OBVIOUS
  <2>2. backends[current[j]] = [key |-> j, open |-> TRUE]
    BY <1>8, <2>1, HeldFacts
  <2>3. [key |-> j, open |-> TRUE].key = j /\ [key |-> k, open |-> TRUE].key = k
    OBVIOUS
  <2> QED BY <1>8, <2>1, <2>2, <2>3
<1>12. PipelinesKept'
  BY <1>2 DEF ReloadInv, TurnInv, PipelinesKept
<1>13. TurnInv'
  BY <1>1, <1>10, <1>12, BackgroundTurn
<1>14. PoolsServe'
  <2>1. ASSUME NEW j \in Keys, NEW h \in holders'[j]
        PROVE  /\ plans[h[1]].key[h[2]] = j
               /\ plans[h[1]].backend[h[2]] = current'[j]
    <3>1. h \in holders[j] /\ h # lease
      BY <1>10
    <3>2. plans[h[1]].key[h[2]] = j /\ plans[h[1]].backend[h[2]] = current[j]
      BY <3>1, HeldFacts
    <3>3. current'[j] = current[j]
      BY <1>7, <3>1
    <3> QED BY <3>2, <3>3
  <2>2. ASSUME NEW j \in Keys
        PROVE  /\ holders'[j] # {} <=> current'[j] # None
               /\ current'[j] # None =>
                    /\ current'[j] \in DOMAIN backends
                    /\ backends[current'[j]] = [key |-> j, open |-> TRUE]
    <3>1. CASE j = k
      <4>1. holders'[k] = {} <=> last
        BY <1>1, <1>6
      <4> QED BY <1>7, <1>8, <3>1, <4>1
    <3>2. CASE j # k
      <4>1. holders'[j] = holders[j] /\ current'[j] = current[j]
        BY <1>6, <1>7, <3>2
      <4>2. /\ holders[j] # {} <=> current[j] # None
            /\ current[j] # None =>
                 /\ current[j] \in DOMAIN backends
                 /\ backends[current[j]] = [key |-> j, open |-> TRUE]
        BY HeldFacts
      <4> QED BY <4>1, <4>2
    <3> QED BY <3>1, <3>2
  <2>3. backends' = backends /\ plans' = plans
    BY <1>1, <1>2
  <2> QED BY <2>1, <2>2, <2>3 DEF PoolsServe
<1>15. RetiringGone'
  <2>1. SUFFICES ASSUME NEW b \in retiring', NEW j \in Keys, current'[j] = b PROVE FALSE
    BY DEF RetiringGone
  <2>2. CASE b \in retiring
    <3>1. current[j] # b /\ b \in Nat /\ b # None
      <4>1. b \in DOMAIN backends /\ backends \in Seq([key : Keys, open : BOOLEAN])
        BY <1>5, <2>2, PoolFacts DEF ReloadInv
      <4>2. b \in Nat
        BY <4>1
      <4>3. current[j] # b
        BY <2>2 DEF ReloadInv, LeaseInv, RetiringGone
      <4> QED BY <4>2, <4>3, Constants
    <3> QED BY <1>7, <2>1, <3>1
  <2>3. CASE b \notin retiring
    <3>1. last /\ b = current[k]
      BY <1>1, <2>1, <2>3
    <3> QED BY <1>7, <1>8, <1>11, <2>1, <3>1
  <2> QED BY <2>2, <2>3
<1>16. \A l : KeyAt(l)' = KeyAt(l) /\ Lease(l)' = Lease(l)
  BY <1>2 DEF KeyAt, Lease
<1>17. Builds'
  <2>1. SUFFICES ASSUME service.pc \in Provisioning,
                        NEW m \in DOMAIN service.work, service.work[m] = "built"
                 PROVE  LET c == plans[service.attempt].backend[m] IN
                        /\ current'[KeyAt(m)] = None
                        /\ c \in DOMAIN backends /\ c \notin retiring'
                        /\ backends[c] = [key |-> KeyAt(m), open |-> TRUE]
                        /\ \A n \in DOMAIN service.work :
                             service.work[n] = "built" /\ KeyAt(n) = KeyAt(m) => n = m
    BY <1>1, <1>2, <1>16 DEF Builds
  <2> DEFINE c == plans[service.attempt].backend[m]
  <2>2. /\ current[KeyAt(m)] = None
        /\ c \in DOMAIN backends /\ c \notin retiring
        /\ backends[c] = [key |-> KeyAt(m), open |-> TRUE]
        /\ \A n \in DOMAIN service.work :
             service.work[n] = "built" /\ KeyAt(n) = KeyAt(m) => n = m
    BY <2>1 DEF ReloadInv, LeaseInv, Builds
  <2>3. KeyAt(m) \in Keys
    BY <2>1, WorkerKey
  <2>4. KeyAt(m) # k
    BY <1>8, <2>2
  <2>5. c # current[k]
    <3>1. [key |-> KeyAt(m), open |-> TRUE].key = KeyAt(m) /\ [key |-> k, open |-> TRUE].key = k
      OBVIOUS
    <3> QED BY <1>8, <2>2, <2>4, <3>1
  <2>6. current'[KeyAt(m)] = None /\ c \notin retiring'
    BY <1>1, <1>7, <2>2, <2>3, <2>4, <2>5
  <2> QED BY <2>2, <2>6
<1>18. Provisioned'
  <2>1. SUFFICES ASSUME service.pc \in Provisioning PROVE Provisioned'
    BY <1>2 DEF Provisioned
  <2>2. /\ ~plans[service.attempt].ready
        /\ DOMAIN service.work = {l \in Listeners : KeyAt(l) # NoStore}
        /\ \A l \in Listeners : Lease(l) \notin releasing
        /\ \A l \in DOMAIN service.work :
             service.work[l] = "leased" => Lease(l) \in holders[KeyAt(l)]
        /\ \A j \in Keys : \A l \in Listeners :
             Lease(l) \in holders[j] => l \in DOMAIN service.work /\ service.work[l] = "leased"
    BY <2>1 DEF ReloadInv, LeaseInv, Provisioned
  <2>3. \A l \in Listeners : Lease(l) \notin releasing'
    BY <1>1, <2>2
  <2>4. ASSUME NEW l \in DOMAIN service.work, service.work[l] = "leased"
        PROVE  Lease(l) \in holders'[KeyAt(l)]
    <3>1. KeyAt(l) \in Keys /\ l \in Listeners
      BY <2>1, WorkerKey
    <3>2. Lease(l) # lease /\ Lease(l) \in holders[KeyAt(l)]
      BY <2>2, <2>4, <3>1
    <3> QED BY <1>10, <3>1, <3>2
  <2>5. \A j \in Keys : \A l \in Listeners :
          Lease(l) \in holders'[j] => l \in DOMAIN service.work /\ service.work[l] = "leased"
    BY <1>10, <2>2
  <2> QED BY <1>2, <1>16, <2>2, <2>3, <2>4, <2>5 DEF Provisioned
<1>19. ReadyHeld'
  <2>1. SUFFICES ASSUME NEW a \in Attempts, Kept(a), plans[a].ready,
                        NEW l \in Listeners, plans[a].key[l] # NoStore
                 PROVE  <<a, l>> \in holders'[plans[a].key[l]] /\ <<a, l>> \notin releasing'
    BY <1>2 DEF ReadyHeld, Kept
  <2>2. <<a, l>> \in holders[plans[a].key[l]] /\ <<a, l>> \notin releasing
    BY <2>1 DEF ReloadInv, LeaseInv, ReadyHeld
  <2>3. plans[a].key[l] \in Keys
    BY <2>1, PoolFacts DEF ReloadInv
  <2> QED BY <1>1, <1>10, <2>2, <2>3
<1>20. StoresOnly' /\ NoLeaseLost'
  <2>1. StoresOnly'
    BY <1>1, <1>2 DEF ReloadInv, LeaseInv, StoresOnly
  <2>2. NoLeaseLost'
    <3>1. SUFFICES ASSUME service.pc # "stopped", NEW j \in Keys, NEW h \in holders'[j]
                   PROVE  \/ h[1] \in {active} \cup pending \cup {d.attempt : d \in drains}
                          \/ h \in releasing'
                          \/ h[1] = service.attempt /\ service.pc \in Provisioning
      BY <1>2 DEF NoLeaseLost
    <3>2. h \in holders[j] /\ h # lease
      BY <1>10
    <3>3. \/ h[1] \in {active} \cup pending \cup {d.attempt : d \in drains}
          \/ h \in releasing
          \/ h[1] = service.attempt /\ service.pc \in Provisioning
      BY <3>1, <3>2 DEF ReloadInv, LeaseInv, NoLeaseLost
    <3> QED BY <1>1, <3>2, <3>3
  <2> QED BY <2>1, <2>2
<1>21. LeaseInv'
  BY <1>14, <1>15, <1>17, <1>18, <1>19, <1>20 DEF LeaseInv
<1>22. Types'
  <2>1. PoolType'
    BY <1>1, <1>5, <1>6, <1>7, <1>8, PoolFacts DEF PoolType, ReloadInv
  <2>2. MembersType' /\ MessagesType' /\ ServiceType' /\ PlansType'
    BY <1>1, <1>2 DEF ReloadInv, Types, MembersType, MessagesType, ServiceType, PlansType
  <2> QED BY <1>1, <2>1, <2>2, WatchTypesFrame DEF ReloadInv, Types
<1> QED BY <1>13, <1>21, <1>22 DEF ReloadInv

\* A pool out of service is retired.
LEMMA RetireStep == ASSUME ReloadInv, NEW b \in retiring, Retire(b) PROVE ReloadInv'
<1>1. /\ b \in DOMAIN backends /\ \A k \in Keys : current[k] # b
      /\ backends' = [backends EXCEPT ![b].open = FALSE]
      /\ current' = current /\ holders' = holders /\ retiring' = retiring \ {b}
      /\ UNCHANGED <<watchVars, requests, command, reply, service, readiness, shutdown,
                     plans, active, pending, drains, releasing>>
  BY DEF Retire, Pool!Retire
<1>2. /\ live' = live /\ requests' = requests /\ service' = service /\ plans' = plans
      /\ active' = active /\ pending' = pending /\ drains' = drains /\ releasing' = releasing
  BY <1>1 DEF watchVars
<1>3. backends \in Seq([key : Keys, open : BOOLEAN]) /\ retiring \subseteq DOMAIN backends
  BY PoolFacts DEF ReloadInv
<1>4. /\ DOMAIN backends' = DOMAIN backends
      /\ \A i \in DOMAIN backends : i # b => backends'[i] = backends[i]
      /\ backends' \in Seq([key : Keys, open : BOOLEAN])
  <2>5. b \in DOMAIN backends
    BY <1>1
  <2>1. backends[b] \in [key : Keys, open : BOOLEAN]
    <3>1. \A R : \A s \in Seq(R) : \A i \in DOMAIN s : s[i] \in R
      OBVIOUS
    <3>2. backends \in Seq([key : Keys, open : BOOLEAN])
      BY <1>3
    <3> QED BY <2>5, <3>1, <3>2, Zenon
  <2>2. PICK v : v = [backends[b] EXCEPT !.open = FALSE]
    OBVIOUS
  <2>3. v \in [key : Keys, open : BOOLEAN]
    BY <2>1, <2>2
  <2>4. backends' = [backends EXCEPT ![b] = v]
    BY <1>1, <2>2
  <2> QED BY <1>3, <2>3, <2>4, <2>5
<1>5. PipelinesKept'
  BY <1>2 DEF ReloadInv, TurnInv, PipelinesKept
<1>6. TurnInv'
  BY <1>1, <1>5, BackgroundTurn
<1>7. PoolsServe'
  <2>1. ASSUME NEW j \in Keys, NEW h \in holders[j]
        PROVE  /\ plans[h[1]].key[h[2]] = j
               /\ plans[h[1]].backend[h[2]] = current[j]
    BY HeldFacts
  <2>2. ASSUME NEW j \in Keys
        PROVE  /\ holders[j] # {} <=> current[j] # None
               /\ current[j] # None =>
                    /\ current[j] \in DOMAIN backends'
                    /\ backends'[current[j]] = [key |-> j, open |-> TRUE]
    <3>1. /\ holders[j] # {} <=> current[j] # None
          /\ current[j] # None =>
               /\ current[j] \in DOMAIN backends
               /\ backends[current[j]] = [key |-> j, open |-> TRUE]
      BY HeldFacts
    <3>2. current[j] # None => backends'[current[j]] = backends[current[j]]
      BY <1>1, <1>4, <3>1
    <3> QED BY <1>4, <3>1, <3>2
  <2>3. current' = current /\ holders' = holders /\ plans' = plans
    BY <1>1, <1>2
  <2> QED BY <2>1, <2>2, <2>3 DEF PoolsServe
<1>8. RetiringGone'
  BY <1>1 DEF ReloadInv, LeaseInv, RetiringGone
<1>9. \A l : KeyAt(l)' = KeyAt(l) /\ Lease(l)' = Lease(l)
  BY <1>2 DEF KeyAt, Lease
<1>10. Builds'
  <2>1. SUFFICES ASSUME service.pc \in Provisioning,
                        NEW m \in DOMAIN service.work, service.work[m] = "built"
                 PROVE  LET c == plans[service.attempt].backend[m] IN
                        /\ current[KeyAt(m)] = None
                        /\ c \in DOMAIN backends' /\ c \notin retiring'
                        /\ backends'[c] = [key |-> KeyAt(m), open |-> TRUE]
                        /\ \A n \in DOMAIN service.work :
                             service.work[n] = "built" /\ KeyAt(n) = KeyAt(m) => n = m
    BY <1>1, <1>2, <1>9 DEF Builds
  <2> DEFINE c == plans[service.attempt].backend[m]
  <2>2. /\ current[KeyAt(m)] = None
        /\ c \in DOMAIN backends /\ c \notin retiring
        /\ backends[c] = [key |-> KeyAt(m), open |-> TRUE]
        /\ \A n \in DOMAIN service.work :
             service.work[n] = "built" /\ KeyAt(n) = KeyAt(m) => n = m
    BY <2>1 DEF ReloadInv, LeaseInv, Builds
  <2>3. c # b /\ c \notin retiring' /\ c \in DOMAIN backends' /\ backends'[c] = backends[c]
    BY <1>1, <1>4, <2>2
  <2> QED BY <2>2, <2>3
<1>11. Provisioned' /\ ReadyHeld' /\ StoresOnly' /\ NoLeaseLost'
  BY <1>1, <1>2, <1>9
  DEF ReloadInv, LeaseInv, Provisioned, ReadyHeld, Kept, StoresOnly, NoLeaseLost
<1>12. LeaseInv'
  BY <1>7, <1>8, <1>10, <1>11 DEF LeaseInv
<1>13. Types'
  <2>1. PoolType'
    BY <1>1, <1>3, <1>4, PoolFacts DEF PoolType, ReloadInv
  <2>2. MembersType' /\ MessagesType' /\ ServiceType' /\ PlansType'
    BY <1>1, <1>2 DEF ReloadInv, Types, MembersType, MessagesType, ServiceType, PlansType
  <2> QED BY <1>1, <2>1, <2>2, WatchTypesFrame DEF ReloadInv, Types
<1> QED BY <1>6, <1>12, <1>13 DEF ReloadInv

-----------------------------------------------------------------------------
(* The theorems                                                            *)

\* The invariant holds when the server starts.
LEMMA InitInv == Init => ReloadInv
<1> SUFFICES ASSUME Init PROVE ReloadInv
  OBVIOUS
<1>1. /\ disk = [content |-> Initial, edits |-> 0, dirty |-> FALSE] /\ events = 0
      /\ watcher = [pc |-> "idle", seen |-> 0, new |-> None, attempt |-> 0, todo |-> {}]
      /\ current_config = Initial /\ live = [l \in Bound |-> 0]
      /\ requests = [r \in Requests |-> None] /\ command = None /\ reply = None
      /\ plans = [a \in Attempts |-> IF a = 0 THEN PlanOf(Initial) ELSE NoPlan]
      /\ service = [pc |-> "initial", attempt |-> 0,
                    work |-> [l \in StoreListeners(Initial) |-> "todo"]]
      /\ active = 0 /\ pending = {} /\ drains = {} /\ releasing = {} /\ retiring = {}
      /\ current = [k \in Keys |-> None] /\ holders = [k \in Keys |-> {}] /\ backends = <<>>
  BY DEF Init, Pool!Init
<1>2. /\ 0 \in Attempts /\ Attempts \subseteq Nat /\ MaxEdits \in Nat /\ EventCapacity \in Nat
      /\ Initial \in AllConfigs
  BY Constants DEF AllConfigs
<1>3. /\ PlanOf(Initial) \in Plans /\ PlanOf(Initial).ready = FALSE
      /\ \A l \in Listeners : /\ PlanOf(Initial).key[l] = KeyOf(Initial, l)
                              /\ PlanOf(Initial).backend[l] = None
      /\ StoreListeners(Initial) = {l \in Listeners : PlanOf(Initial).key[l] # NoStore}
  BY <1>2, PlanFacts
<1>4. NoPlan \in Plans /\ \A l \in Listeners : NoPlan.backend[l] = None
  BY DEF NoPlan, Plans
<1>5. /\ plans \in [Attempts -> Plans] /\ plans[0] = PlanOf(Initial)
      /\ \A a \in Attempts : \A l \in Listeners : plans[a].backend[l] = None
      /\ \A a \in Attempts : a # 0 => plans[a] = NoPlan
  BY <1>1, <1>2, <1>3, <1>4
<1>6. /\ watcher.pc = "idle" /\ watcher.seen = 0 /\ watcher.attempt = 0 /\ disk.edits = 0
      /\ disk.dirty = FALSE
      /\ service.pc = "initial" /\ service.attempt = 0
      /\ DOMAIN service.work = StoreListeners(Initial)
      /\ \A l \in StoreListeners(Initial) : service.work[l] = "todo"
  BY <1>1
<1>7. Types
  <2>1. DiskType /\ EventsType
    BY <1>1, <1>2 DEF DiskType, EventsType
  <2>2. WatcherType
    BY <1>1, <1>2, <1>6 DEF WatcherType, WatcherPcs, Reloading
  <2>3. PipelinesType /\ MessagesType /\ MembersType
    BY <1>1, <1>2 DEF PipelinesType, MessagesType, MembersType
  <2>4. ServiceType
    BY <1>1, <1>2, <1>3, <1>6 DEF ServiceType, ServicePcs
  <2>5. PlansType
    BY <1>5 DEF PlansType
  <2>6. PoolType
    BY <1>1 DEF PoolType
  <2> QED BY <1>1, <1>2, <2>1, <2>2, <2>3, <2>4, <2>5, <2>6 DEF Types
<1>8. ~Committed
  BY <1>6 DEF Committed
<1>9. TurnInv
  <2>1. EditsCounted
    BY <1>1, <1>6 DEF EditsCounted
  <2>2. Turns /\ Prepared /\ NothingPlanned
    BY <1>1, <1>6 DEF Turns, Prepared, NothingPlanned, Waiting
  <2>3. ActivePlanned
    BY <1>1, <1>3, <1>5, <1>8 DEF ActivePlanned
  <2>4. ActiveLive
    BY <1>1, <1>8 DEF ActiveLive
  <2>5. \A a \in Attempts : Unpublished(a) \/ Unplanned(a) => a > 0
    BY <1>2, <1>6 DEF Unpublished, Unplanned, Reloading
  <2>6. Ages
    BY <1>1, <1>2, <2>5 DEF Ages
  <2>7. Unused
    BY <1>1, <1>2, <1>5, <2>5 DEF Unused
  <2>8. PipelinesKept
    BY <1>1 DEF PipelinesKept
  <2> QED BY <2>1, <2>2, <2>3, <2>4, <2>6, <2>7, <2>8 DEF TurnInv
<1>10. LeaseInv
  <2>1. PoolsServe /\ RetiringGone /\ StoresOnly /\ NoLeaseLost
    BY <1>1, <1>5 DEF PoolsServe, RetiringGone, StoresOnly, NoLeaseLost
  <2>2. Builds
    BY <1>6 DEF Builds
  <2>3. Provisioned
    BY <1>1, <1>3, <1>5, <1>6 DEF Provisioned, KeyAt
  <2>4. ReadyHeld
    <3>1. active = 0 /\ ~plans[0].ready /\ pending = {} /\ drains = {}
      BY <1>1, <1>3, <1>5
    <3> QED BY <3>1 DEF ReadyHeld, Kept
  <2> QED BY <2>1, <2>2, <2>3, <2>4 DEF LeaseInv
<1> QED BY <1>7, <1>9, <1>10 DEF ReloadInv

\* Every step keeps the invariant.
LEMMA NextInv == ReloadInv /\ [Next]_vars => ReloadInv'
<1> SUFFICES ASSUME ReloadInv, [Next]_vars PROVE ReloadInv'
  OBVIOUS
<1>1. CASE Environment
  BY <1>1, EditStep, RequestStep, ShutdownStep DEF Environment
<1>2. CASE Notify \/ Watcher \/ Service
  BY <1>2, NotifyStep, WatcherStep, ServiceStep
<1>3. CASE Background
  BY <1>3, DrainedStep, ReleaseStep, RetireStep DEF Background
<1>4. CASE \E r \in Requests : RequestEnd(r)
  BY <1>4, RequestStep
<1>5. CASE UNCHANGED vars
  <2>1. UNCHANGED <<watchVars, requests, command, reply, service, readiness, shutdown,
                    serverVars, poolVars>>
    BY <1>5 DEF vars
  <2>2. EditsCounted' /\ MessagesType'
    BY <2>1 DEF watchVars, ReloadInv, TurnInv, EditsCounted, Types, MessagesType
  <2>3. TurnInv' /\ LeaseInv'
    BY <2>1, <2>2, TurnFrame, LeaseFrame DEF watchVars, ReloadInv
  <2> QED BY <2>1, <2>2, <2>3, ServiceTypesFrame, WatchTypesFrame DEF ReloadInv, Types
<1> QED BY <1>1, <1>2, <1>3, <1>4, <1>5 DEF Next

\* The watcher, the service and the pools always agree.
THEOREM ReloadInvariant == Spec => []ReloadInv
  BY InitInv, NextInv, PTL DEF Spec

\* A pipeline that is live, or that a request holds, belongs to a generation that
\* is kept; a kept generation that is ready holds its leases, and the pool of a
\* lease is open (reload.rs, store_provision.rs).
THEOREM RequestsNeverOnRetiredPools == Spec => []NoRequestOnRetiredPool
<1>1. ReloadInv => NoRequestOnRetiredPool
  <2> SUFFICES ASSUME ReloadInv,
                      NEW p \in {<<l, live[l]>> : l \in Bound}
                                \cup {requests[r] : r \in {s \in Requests : requests[s] # None}},
                      PoolOf(p) # None
               PROVE  backends[PoolOf(p)].open
    BY DEF NoRequestOnRetiredPool
  <2>1. PICK l \in Bound, a \in Attempts :
          /\ p = <<l, a>>
          /\ live[l] = a \/ \E r \in Requests : requests[r] # None /\ requests[r] = <<l, a>>
    <3>1. /\ live \in [Bound -> Attempts]
          /\ requests \in [Requests -> (Bound \X Attempts) \cup {None}]
      BY DEF ReloadInv, Types, PipelinesType
    <3>2. CASE p \in {<<l, live[l]>> : l \in Bound}
      BY <3>1, <3>2
    <3>3. CASE p \in {requests[r] : r \in {s \in Requests : requests[s] # None}}
      <4>1. PICK r \in Requests : requests[r] # None /\ p = requests[r]
        BY <3>3
      <4>2. requests[r] \in Bound \X Attempts
        BY <3>1, <4>1
      <4>3. PICK l \in Bound, a \in Attempts : requests[r] = <<l, a>>
        BY <4>2
      <4> QED BY <4>1, <4>3
    <3> QED BY <3>2, <3>3
  <2>2. /\ plans[a].ready /\ PoolOf(p) = plans[a].backend[l] /\ plans[a].backend[l] # None
    BY <2>1 DEF PoolOf
  <2>3. l \in Listeners
    BY ConfigFacts
  <2>4. plans[a].key[l] # NoStore
    BY <2>2, <2>3 DEF ReloadInv, LeaseInv, StoresOnly
  <2>5. Kept(a)
    BY <2>1, <2>4 DEF ReloadInv, TurnInv, PipelinesKept, Kept
  <2>6. <<a, l>> \in holders[plans[a].key[l]] /\ plans[a].key[l] \in Keys
    <3>1. <<a, l>> \in holders[plans[a].key[l]]
      BY <2>2, <2>3, <2>4, <2>5 DEF ReloadInv, LeaseInv, ReadyHeld
    <3>2. plans[a].key[l] \in Keys
      BY <2>3, <2>4, PoolFacts DEF ReloadInv
    <3> QED BY <3>1, <3>2
  <2>7. PICK k \in Keys : <<a, l>> \in holders[k]
    BY <2>6
  <2>8. plans[<<a, l>>[1]].backend[<<a, l>>[2]] = current[k]
        /\ (current[k] # None => backends[current[k]] = [key |-> k, open |-> TRUE])
    BY <2>7, HeldFacts
  <2>9. PoolOf(p) = current[k] /\ current[k] # None
    BY <2>2, <2>8
  <2>10. [key |-> k, open |-> TRUE].open
    OBVIOUS
  <2> QED BY <2>8, <2>9, <2>10
<1> QED BY <1>1, ReloadInvariant, PTL

\* The service knows every lease that is held, and between reloads the listeners
\* serve the active generation (store_provision.rs, watcher.rs).
THEOREM LeasesAreKnown == Spec => []LeasesFollowPipelines
<1>1. ReloadInv => LeasesFollowPipelines
  <2> SUFFICES ASSUME ReloadInv PROVE LeasesFollowPipelines
    OBVIOUS
  <2>1. TypeOK
    <3>1. /\ disk.edits \in 0..MaxEdits /\ events \in 0..EventCapacity
          /\ watcher.attempt \in Attempts /\ watcher.seen \in Nat
          /\ watcher.seen <= disk.edits /\ disk.edits \in Nat
      BY WatchFacts DEF ReloadInv
    <3>2. watcher.seen \in 0..disk.edits
      BY <3>1
    <3>3. /\ live \in [Bound -> Attempts]
          /\ requests \in [Requests -> (Bound \X Attempts) \cup {None}]
          /\ reply \in BOOLEAN \cup {None}
      BY DEF ReloadInv, Types, PipelinesType, MessagesType
    <3>4. /\ active \in Attempts /\ pending \subseteq Attempts /\ releasing \subseteq Leases
          /\ retiring \subseteq DOMAIN backends /\ \A k \in Keys : holders[k] \subseteq Leases
      BY PoolFacts DEF ReloadInv
    <3> QED BY <3>1, <3>2, <3>3, <3>4 DEF TypeOK
  <2>2. ActiveMatchesLive
    <3>1. watcher.pc = "idle" => ~Committed
      BY DEF Committed
    <3> QED BY <3>1 DEF ActiveMatchesLive, ReloadInv, TurnInv, ActiveLive
  <2>3. NoLeaseLost
    BY DEF ReloadInv, LeaseInv
  <2> QED BY <2>1, <2>2, <2>3 DEF LeasesFollowPipelines
<1> QED BY <1>1, ReloadInvariant, PTL

=============================================================================
