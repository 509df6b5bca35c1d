-------------------------- MODULE AccountingMarker --------------------------
(***************************************************************************)
(* Who may touch the quota state of a rule in a shared Valkey namespace.   *)
(* Before every operation a gateway checks two persistent keys: the        *)
(* namespace's generation, claimed once after a scan of the namespace      *)
(* found no unmarked state, and the rule's marker, claimed in a WATCHed    *)
(* transaction and holding a fingerprint of the accounting configuration.  *)
(* Gateways of different configurations, and writers of the version before *)
(* the markers, run at the same time; any reply may be lost.               *)
(*                                                                         *)
(* The keyspace is reduced to the two markers, the id sequence (which has  *)
(* no TTL), the rule's quota state, named by who wrote it, and the rule's  *)
(* retained-key index.  A fingerprint is a model value.                    *)
(***************************************************************************)
EXTENDS Naturals, FiniteSets

CONSTANTS
    Gateways,
    Config,        \* Config[g]: the fingerprint of gateway g's configuration
    Legacy,        \* the writers that know no marker
    NoMarker

ASSUME AccountingMarkerAssumption ==
    /\ NoMarker # Legacy
    /\ \A g \in Gateways : Config[g] \notin {Legacy, NoMarker}

VARIABLES
    generation,    \* "none", "v3" or "legacy", the permanent tombstone
    marker,        \* the rule's fingerprint
    sequence,      \* does the id sequence exist
    quota,         \* who wrote the quota state that is alive
    index,         \* does the retained-key index exist
    pc, found,     \* of each gateway: where it is; has its scan found state
    clean,         \* has no watched key changed since the gateway's WATCH
    legacyRan      \* history: legacy state was there at some time

markerKeys == <<generation, marker, sequence, quota, index>>
markerVars == <<markerKeys, pc, found, clean, legacyRan>>

\* The namespace may hold what legacy writers left, in part expired.
MarkerInit ==
    /\ generation = "none" /\ marker = NoMarker
    /\ sequence \in BOOLEAN /\ quota \in {{}, {Legacy}}
    /\ index \in {b \in BOOLEAN : b => quota # {}}
    /\ quota # {} => sequence
    /\ pc = [g \in Gateways |-> "idle"]
    /\ found = [g \in Gateways |-> FALSE]
    /\ clean = [g \in Gateways |-> FALSE]
    /\ legacyRan = sequence

GoTo(g, l) == pc' = [pc EXCEPT ![g] = l]
Touch == clean' = [g \in Gateways |-> FALSE]

\* Defect: any marker that is there is accepted.
VerdictAny(g, stored) == "owner"

\* validate_accounting_config
Verdict(g, stored) == IF stored = Config[g] THEN "owner" ELSE "mismatch"

\* reserve or reconcile begins: both markers are read together.
ReadMarkers(g) ==
    /\ pc[g] = "idle"
    /\ GoTo(g, CASE generation = "none" -> "generation"
                 [] generation = "legacy" -> "mismatch"
                 [] generation = "v3" /\ marker # NoMarker -> Verdict(g, marker)
                 [] OTHER -> "watch")
    /\ UNCHANGED <<markerKeys, found, clean, legacyRan>>

\* ensure_accounting_generation reads the generation once more.
ReadGeneration(g) ==
    /\ pc[g] = "generation"
    /\ GoTo(g, CASE generation = "none" -> "scan"
                 [] generation = "v3" -> "watch"
                 [] OTHER -> "mismatch")
    /\ found' = [found EXCEPT ![g] = FALSE]
    /\ UNCHANGED <<markerKeys, clean, legacyRan>>

\* The scan takes several rounds of SCAN; a key written behind its cursor is
\* missed.  Any key but a marker is unmarked state, whoever wrote it.
ScanFirst(g) ==
    /\ pc[g] = "scan"
    /\ GoTo(g, "scan2")
    /\ found' = [found EXCEPT ![g] = sequence]
    /\ UNCHANGED <<markerKeys, clean, legacyRan>>

ScanRest(g) ==
    /\ pc[g] = "scan2"
    /\ GoTo(g, "claim")
    /\ found' = [found EXCEPT ![g] = @ \/ quota # {} \/ index]
    /\ UNCHANGED <<markerKeys, clean, legacyRan>>

\* SET NX: the first claim stays.
Claimed(value) == IF generation = "none" THEN value ELSE generation

\* SET NX and GET in one transaction.
ClaimGeneration(g) ==
    /\ pc[g] = "claim"
    /\ generation' = Claimed(IF found[g] THEN "legacy" ELSE "v3")
    /\ GoTo(g, IF generation' = "v3" THEN "watch" ELSE "mismatch")
    /\ UNCHANGED <<marker, sequence, quota, index, found, clean, legacyRan>>

\* WATCH of marker and index, with GET and EXISTS.
WatchMarker(g) ==
    /\ pc[g] = "watch"
    /\ GoTo(g, IF marker # NoMarker THEN Verdict(g, marker)
               ELSE IF index THEN "mismatch" ELSE "init")
    /\ clean' = [clean EXCEPT ![g] = TRUE]
    /\ UNCHANGED <<markerKeys, found, legacyRan>>

\* Defect: the transaction runs although a watched key has changed.
MayInitAnyway(g) == TRUE

MayInit(g) == clean[g]

\* EXEC of SET marker: aborted when a watched key changed, and tried again.
InitMarker(g) ==
    /\ pc[g] = "init"
    /\ IF MayInit(g)
       THEN marker' = Config[g] /\ GoTo(g, "owner") /\ Touch
       ELSE GoTo(g, "watch") /\ UNCHANGED <<marker, clean>>
    /\ UNCHANGED <<generation, sequence, quota, index, found, legacyRan>>

\* The operation itself: draw an id, write quota state and the index.
WriteQuota(g) ==
    /\ pc[g] = "owner"
    /\ sequence' = TRUE /\ quota' = quota \cup {Config[g]} /\ index' = TRUE
    /\ Touch /\ GoTo(g, "idle")
    /\ UNCHANGED <<generation, marker, found, legacyRan>>

\* An operation ends: refused, the next one starts over; or it fails, with its
\* last command run or not, when a deadline passes or a reply is lost.
Refused(g) ==
    /\ pc[g] = "mismatch" /\ GoTo(g, "idle")
    /\ UNCHANGED <<markerKeys, found, clean, legacyRan>>

OperationFails(g) ==
    /\ pc[g] \notin {"idle", "mismatch"} /\ GoTo(g, "idle")
    /\ \/ UNCHANGED <<markerKeys, clean>>
       \/ /\ pc[g] = "claim" /\ UNCHANGED <<marker, sequence, quota, index, clean>>
          /\ generation' = Claimed(IF found[g] THEN "legacy" ELSE "v3")
       \/ /\ pc[g] = "init" /\ MayInit(g) /\ marker' = Config[g] /\ Touch
          /\ UNCHANGED <<generation, sequence, quota, index>>
       \/ /\ pc[g] = "owner" /\ sequence' = TRUE /\ quota' = quota \cup {Config[g]}
          /\ index' = TRUE /\ Touch /\ UNCHANGED <<generation, marker>>
    /\ UNCHANGED <<found, legacyRan>>

\* A gateway of the version before the markers serves a request.
LegacyWrite ==
    /\ sequence' = TRUE /\ quota' = quota \cup {Legacy} /\ index' = TRUE
    /\ legacyRan' = TRUE /\ Touch
    /\ UNCHANGED <<generation, marker, pc, found>>

\* The rule is idle long enough: its quota state and its index expire.
Expire ==
    /\ quota # {} /\ quota' = {} /\ index' = FALSE /\ Touch
    /\ UNCHANGED <<generation, marker, sequence, pc, found, legacyRan>>

MarkerNext ==
    \/ \E g \in Gateways :
         \/ ReadMarkers(g) \/ ReadGeneration(g) \/ ScanFirst(g) \/ ScanRest(g)
         \/ ClaimGeneration(g) \/ WatchMarker(g) \/ InitMarker(g) \/ WriteQuota(g)
         \/ Refused(g) \/ OperationFails(g)
    \/ LegacyWrite \/ Expire

MarkerSpec == MarkerInit /\ [][MarkerNext]_markerVars

-----------------------------------------------------------------------------
\* Two configurations never account in the same quota state: the state that
\* marker-aware gateways wrote is that of the one fingerprint in the marker.
NeverMixed == quota \ {Legacy} \subseteq {marker}

\* A gateway about to write holds the rule's marker in its own configuration,
\* in a namespace that was not tombstoned.
OwnersAgree == \A g \in Gateways : pc[g] = "owner" => marker = Config[g] /\ generation = "v3"

\* "claiming it would make the new policy reinterpret live quota": a marker is
\* claimed only while no quota state of the rule is alive.
NoLiveStateAdopted ==
    [][(marker = NoMarker /\ marker' # NoMarker) => quota = {}]_markerVars

\* The tombstone, which only a new namespace undoes, is set only where legacy
\* state was: never by a scan that met the state of another new gateway.
TombstoneJustified == generation = "legacy" => legacyRan

\* A namespace is accounted in by one configuration, and tombstoned only where
\* legacy state was.
MarkerSound == NeverMixed /\ OwnersAgree /\ TombstoneJustified

=============================================================================
