---------------------------- MODULE NodeExporter ----------------------------
(***************************************************************************)
(* The node exporter (pkg/manager/node_exporter.go): a local copy of the   *)
(* conditions the agent manages on its Node, the unresolved fatal reasons  *)
(* behind them, and the loop that writes the local copy to the API server. *)
(*                                                                         *)
(* Every operation runs under managedConditionsLock.  The report holds it  *)
(* over two API calls, so a report is several steps here and the others    *)
(* are one step each, taken while no report is under way.  Events and logs *)
(* are left out; the message of a healthy condition is a function of its   *)
(* reason and is left out too.                                             *)
(***************************************************************************)
EXTENDS Integers, Sequences

CONSTANTS
  Types,       \* condition types the monitors report under
  Configured,  \* types of the enabled monitors (conditionConfigs)
  Foreign,     \* condition types of other writers of the Node (kubelet)
  Reasons,     \* reasons of fatal conditions
  Messages,    \* non-empty messages
  NoMessage,   \* the empty message
  Absent,      \* no condition, or no object read yet
  MaxReports,  \* bound: Fatal calls per life of the agent
  MaxNow,      \* bound: instants of the clock
  MaxRestarts  \* bound: restarts of the agent

ASSUME ConfiguredAssumption == Configured \subseteq Types
ASSUME BoundsAssumption ==
  MaxReports \in Nat /\ MaxNow \in Nat /\ MaxRestarts \in Nat

VARIABLES
  managedConditions,       \* per type, the local condition or Absent
  managedConditionsDirty,  \* local changes not yet written
  fatalEntries,            \* per type, unresolved reasons in arrival order
  reportSeq,               \* Fatal calls so far
  reportPhase,             \* where reportManagedConditions is, "idle" if unlocked
  oldNode, newNode,        \* its local variables
  node,                    \* the Node as the API server holds it
  now,                     \* wall clock
  restarts                 \* restarts so far

localVars == <<managedConditions, managedConditionsDirty, fatalEntries, reportSeq>>
reportVars == <<reportPhase, oldNode, newNode>>
exporterVars == <<localVars, reportVars, node, now, restarts>>

-----------------------------------------------------------------------------
(* Types *)

Status == {"True", "False"}

\* The ready reason of a configured type, and the fallback for any other.
ReadyReasons == {"Ready", "Resolved"}

ASSUME ValuesAssumption ==
  /\ NoMessage \notin Messages
  /\ Reasons \cap ReadyReasons = {}

Texts == Messages \cup {NoMessage}

FatalEntry == [reason : Reasons, message : Texts, reported : Nat]

Condition == [status : Status, reason : Reasons \cup ReadyReasons,
              message : Seq(Texts), heartbeat : Nat, transition : Nat]

ASSUME AbsentAssumption == Absent \notin Condition

MaybeCondition == Condition \cup {Absent}

NodeObject == [conditions : [Types -> MaybeCondition],
               foreign    : [Foreign -> Status]]

ASSUME AbsentNodeAssumption == Absent \notin NodeObject

-----------------------------------------------------------------------------
(* Conditions *)

\* No lock at all.
Unlocked_NoLock == TRUE

\* The lock is free.
Unlocked == reportPhase = "idle"

\* Every rebuild counts as a transition.
TransitionTime_Now(t, status) == now

\* The transition time moves only when the status does.
TransitionTime(t, status) ==
  IF managedConditions[t] # Absent /\ managedConditions[t].status = status
  THEN managedConditions[t].transition
  ELSE now

\* A condition of a type the agent manages from the start.
ReadyReason(t) == IF t \in Configured THEN "Ready" ELSE "Resolved"

NewCondition(status, reason, message, transition) ==
  [status |-> status, reason |-> reason, message |-> message,
   heartbeat |-> now, transition |-> transition]

initializeManagedConditions ==
  [t \in Types |->
     IF t \in Configured THEN NewCondition("True", "Ready", <<>>, now) ELSE Absent]

\* Position of the entry with the latest report.
Latest(entries) ==
  CHOOSE i \in DOMAIN entries :
    \A j \in DOMAIN entries : entries[j].reported <= entries[i].reported

(***************************************************************************)
(* The aggregated message: one slot per entry in arrival order, blank      *)
(* where the text is empty or an earlier entry already carries it.         *)
(***************************************************************************)
Aggregate(entries) ==
  [i \in 1..Len(entries) |->
     IF \E j \in 1..(i - 1) : entries[j].message = entries[i].message
     THEN NoMessage
     ELSE entries[i].message]

\* Reason of the first entry instead of the latest.
FatalCondition_First(t, entries) ==
  NewCondition("False", entries[1].reason, Aggregate(entries),
               TransitionTime(t, "False"))

FatalCondition(t, entries) ==
  NewCondition("False", entries[Latest(entries)].reason, Aggregate(entries),
               TransitionTime(t, "False"))

ReadyCondition(t) ==
  NewCondition("True", ReadyReason(t), <<>>, TransitionTime(t, "True"))

-----------------------------------------------------------------------------
(* Operations under the lock *)

Positions(t, r) == {i \in DOMAIN fatalEntries[t] : fatalEntries[t][i].reason = r}

HasReason(t, r) == Positions(t, r) # {}

\* Stamps the entry with a sequence number one report too old.
Reported_Stamp(t, r, m) ==
  Append(fatalEntries[t], [reason |-> r, message |-> m, reported |-> reportSeq - 1])

\* The entries after one more report of reason r.
Reported(t, r, m) ==
  LET entry == [reason |-> r, message |-> m, reported |-> reportSeq + 1]
  IN IF HasReason(t, r)
     THEN [fatalEntries[t] EXCEPT ![CHOOSE i \in Positions(t, r) : TRUE] = entry]
     ELSE Append(fatalEntries[t], entry)

\* The sequence s without its i-th element.
Without(s, i) == [j \in 1..(Len(s) - 1) |-> IF j < i THEN s[j] ELSE s[j + 1]]

\* Clears the whole type, as if one resolution meant recovery.
Remaining_All(t, r) == <<>>

\* The entries after reason r is resolved.
Remaining(t, r) ==
  IF HasReason(t, r)
  THEN Without(fatalEntries[t], CHOOSE i \in Positions(t, r) : TRUE)
  ELSE fatalEntries[t]

\* Fatal: remember the reason and rebuild the condition.
Fatal(t, r, m) ==
  /\ Unlocked
  /\ reportSeq < MaxReports
  /\ reportSeq' = reportSeq + 1
  /\ fatalEntries' = [fatalEntries EXCEPT ![t] = Reported(t, r, m)]
  /\ managedConditions' =
       [managedConditions EXCEPT ![t] = FatalCondition(t, Reported(t, r, m))]
  /\ managedConditionsDirty' = TRUE
  /\ UNCHANGED <<reportVars, node, now, restarts>>

\* The result Resolve returns: no reason is left for the type.
Recovered(t, r) == Remaining(t, r) = <<>>

\* Resolve: forget the reason; the last one restores the ready state.
Resolve(t, r) ==
  /\ Unlocked
  /\ \/ /\ ~HasReason(t, r)
        /\ UNCHANGED localVars
     \/ /\ HasReason(t, r)
        /\ fatalEntries' = [fatalEntries EXCEPT ![t] = Remaining(t, r)]
        /\ managedConditions' =
             [managedConditions EXCEPT
                ![t] = IF Recovered(t, r) THEN ReadyCondition(t)
                       ELSE FatalCondition(t, Remaining(t, r))]
        /\ managedConditionsDirty' = TRUE
        /\ UNCHANGED reportSeq
  /\ UNCHANGED <<reportVars, node, now, restarts>>

\* Heartbeats that do not mark the state dirty.
updateHeartbeatTimes_Clean ==
  /\ Unlocked
  /\ managedConditions' =
       [t \in Types |-> IF managedConditions[t] = Absent THEN Absent
                        ELSE [managedConditions[t] EXCEPT !.heartbeat = now]]
  /\ UNCHANGED <<managedConditionsDirty, fatalEntries, reportSeq>>
  /\ UNCHANGED <<reportVars, node, now, restarts>>

\* Heartbeat tick: the loop refreshes every managed condition.
updateHeartbeatTimes ==
  /\ Unlocked
  /\ managedConditions' =
       [t \in Types |-> IF managedConditions[t] = Absent THEN Absent
                        ELSE [managedConditions[t] EXCEPT !.heartbeat = now]]
  /\ managedConditionsDirty' = TRUE
  /\ UNCHANGED <<fatalEntries, reportSeq, reportVars, node, now, restarts>>

-----------------------------------------------------------------------------
(* reportManagedConditions: Get, upsert, Patch, with the lock held *)

ReportStart ==
  /\ Unlocked
  /\ managedConditionsDirty
  /\ reportPhase' = "get"
  /\ UNCHANGED <<localVars, oldNode, newNode, node, now, restarts>>

\* The conditions as read, each managed one replaced by the local copy.
Upsert(read) ==
  [read EXCEPT !.conditions =
     [t \in Types |-> IF managedConditions[t] # Absent THEN managedConditions[t]
                      ELSE read.conditions[t]]]

ReportGet ==
  /\ reportPhase = "get"
  /\ reportPhase' = "patch"
  /\ oldNode' = node
  /\ newNode' = Upsert(node)
  /\ UNCHANGED <<localVars, node, now, restarts>>

(***************************************************************************)
(* client.MergeFrom builds a JSON merge patch: nothing when the two        *)
(* objects agree, and otherwise the whole list of conditions, which        *)
(* replaces the list the server holds.                                     *)
(***************************************************************************)
MergePatched == IF newNode = oldNode THEN node ELSE newNode

\* The deferred unlock, with the local variables out of scope.
Return ==
  /\ reportPhase' = "idle"
  /\ oldNode' = Absent
  /\ newNode' = Absent

ReportPatch ==
  /\ reportPhase = "patch"
  /\ node' = MergePatched
  /\ managedConditionsDirty' = FALSE
  /\ Return
  /\ UNCHANGED <<managedConditions, fatalEntries, reportSeq, now, restarts>>

\* A failed report that clears the dirty flag all the same.
ReportError_Clean ==
  /\ reportPhase \in {"get", "patch"}
  /\ UNCHANGED node
  /\ managedConditionsDirty' = FALSE
  /\ Return
  /\ UNCHANGED <<managedConditions, fatalEntries, reportSeq, now, restarts>>

\* A failed report that returns without the unlock; later ones wait for the lock.
ReportError_KeepsLock ==
  /\ reportPhase \in {"get", "patch", "locked"}
  /\ reportPhase' = "locked" /\ oldNode' = Absent /\ newNode' = Absent
  /\ UNCHANGED <<localVars, node, now, restarts>>

(***************************************************************************)
(* Either call fails and the error is logged; the state stays dirty.  The  *)
(* server may have applied a patch whose answer was lost.                  *)
(***************************************************************************)
ReportError ==
  /\ \/ /\ reportPhase = "get"
        /\ UNCHANGED node
     \/ /\ reportPhase = "patch"
        /\ node' \in {node, MergePatched}
  /\ Return
  /\ UNCHANGED <<localVars, now, restarts>>

-----------------------------------------------------------------------------
(* Environment *)

\* The kubelet, an external writer, updates a condition of its own.
KubeletUpdate(f, s) ==
  /\ node.foreign[f] # s
  /\ node' = [node EXCEPT !.foreign[f] = s]
  /\ UNCHANGED <<localVars, reportVars, now, restarts>>

\* Another API client removes a condition of the agent.
RemoveCondition(t) ==
  /\ node.conditions[t] # Absent
  /\ node' = [node EXCEPT !.conditions[t] = Absent]
  /\ UNCHANGED <<localVars, reportVars, now, restarts>>

Tick ==
  /\ now < MaxNow
  /\ now' = now + 1
  /\ UNCHANGED <<localVars, reportVars, node, restarts>>

\* NewNodeExporter: ready conditions, no reasons, and a first report due.
NewNodeExporter ==
  /\ managedConditions' = initializeManagedConditions
  /\ managedConditionsDirty' = TRUE
  /\ fatalEntries' = [t \in Types |-> <<>>]
  /\ reportSeq' = 0

\* The process ends and starts again; a patch in flight may still land.
Restart ==
  /\ restarts < MaxRestarts
  /\ restarts' = restarts + 1
  /\ NewNodeExporter
  /\ Return
  /\ node' \in {node} \cup (IF reportPhase = "patch" THEN {MergePatched} ELSE {})
  /\ UNCHANGED now

-----------------------------------------------------------------------------
(* Specification *)

ExporterInit ==
  /\ now = 0
  /\ restarts = 0
  /\ managedConditions = initializeManagedConditions
  /\ managedConditionsDirty = TRUE
  /\ fatalEntries = [t \in Types |-> <<>>]
  /\ reportSeq = 0
  /\ reportPhase = "idle"
  /\ oldNode = Absent
  /\ newNode = Absent
  /\ node \in [conditions : {[t \in Types |-> Absent]}, foreign : [Foreign -> Status]]

\* The loop of RunWithTickers.
RunWithTickers ==
  \/ updateHeartbeatTimes
  \/ ReportStart
  \/ ReportGet
  \/ ReportPatch
  \/ ReportError

Environment ==
  \/ \E f \in Foreign, s \in Status : KubeletUpdate(f, s)
  \/ \E t \in Types : RemoveCondition(t)
  \/ Tick

Callers ==
  \/ \E t \in Types, r \in Reasons, m \in Texts : Fatal(t, r, m)
  \/ \E t \in Types, r \in Reasons : Resolve(t, r)

ExporterNext == Callers \/ RunWithTickers \/ Environment \/ Restart

ExporterSpec == ExporterInit /\ [][ExporterNext]_exporterVars

(***************************************************************************)
(* Tickers keep firing and the loop's select is not unfair to either, so   *)
(* both kinds of tick are served again and again; and the API server does  *)
(* not fail every call for ever.                                           *)
(***************************************************************************)
ExporterFairness ==
  /\ SF_exporterVars(updateHeartbeatTimes)
  /\ SF_exporterVars(ReportStart)
  /\ SF_exporterVars(ReportGet)
  /\ SF_exporterVars(ReportPatch)

-----------------------------------------------------------------------------
(* Properties *)

ExporterTypeOK ==
  /\ managedConditions \in [Types -> MaybeCondition]
  /\ managedConditionsDirty \in BOOLEAN
  /\ fatalEntries \in [Types -> Seq(FatalEntry)]
  /\ reportSeq \in Nat
  /\ reportPhase \in {"idle", "get", "patch"}
  /\ oldNode \in NodeObject \cup {Absent}
  /\ newNode \in NodeObject \cup {Absent}
  /\ node \in NodeObject
  /\ now \in Nat
  /\ restarts \in Nat

\* Each unresolved reason has one entry and no two entries one report.
EntriesAreDistinct ==
  \A t \in Types : \A i, j \in DOMAIN fatalEntries[t] :
    /\ fatalEntries[t][i].reported <= reportSeq
    /\ i # j => /\ fatalEntries[t][i].reason # fatalEntries[t][j].reason
                /\ fatalEntries[t][i].reported # fatalEntries[t][j].reported

(***************************************************************************)
(* The local condition is what the unresolved reasons say: unhealthy with  *)
(* the reason reported last and all their messages while any is left,      *)
(* ready (or not managed) when none is (Fatal, Resolve and                 *)
(* rebuildFatalCondition agree on it).                                     *)
(***************************************************************************)
ConditionReflectsEntries ==
  \A t \in Types :
    LET entries == fatalEntries[t]
        c == managedConditions[t]
    IN IF entries = <<>>
       THEN IF c = Absent THEN t \notin Configured
            ELSE c.status = "True" /\ c.reason = ReadyReason(t)
       ELSE /\ c # Absent
            /\ c.status = "False"
            /\ c.message = Aggregate(entries)
            /\ \E i \in DOMAIN entries :
                 /\ c.reason = entries[i].reason
                 /\ \A j \in DOMAIN entries : entries[j].reported <= entries[i].reported

(***************************************************************************)
(* What a report is about to write is what the exporter holds, over the    *)
(* conditions as read; since then only removals touched the agent's        *)
(* conditions on the Node.  This is what holding the lock over both API    *)
(* calls of reportManagedConditions buys.                                  *)
(***************************************************************************)
ReportIsCurrent ==
  /\ reportPhase # "idle" => managedConditionsDirty
  /\ reportPhase = "patch" =>
       /\ oldNode \in NodeObject
       /\ newNode = Upsert(oldNode)
       /\ \A t \in Types : node.conditions[t] \in {oldNode.conditions[t], Absent}

(***************************************************************************)
(* A clean local copy is the published one: while nothing is marked dirty  *)
(* the Node carries every managed condition exactly as the exporter holds  *)
(* it, unless another client removed it (the dirty flag of                 *)
(* reportManagedConditions never hides an unpublished change).             *)
(***************************************************************************)
CleanIsPublished ==
  ~managedConditionsDirty =>
    \A t \in Types : managedConditions[t] # Absent =>
      node.conditions[t] \in {managedConditions[t], Absent}

(***************************************************************************)
(* A reader never sees a condition recover while a fatal reason of that    *)
(* type is unresolved, whatever the interleaving of reports and writes.    *)
(***************************************************************************)
RecoveryMeansResolved ==
  [][\A t \in Types :
       /\ node.conditions[t] # Absent /\ node.conditions[t].status = "False"
       /\ node'.conditions[t] # Absent /\ node'.conditions[t].status = "True"
       => fatalEntries[t] = <<>>]_exporterVars

(***************************************************************************)
(* While the agent runs, the transition time of a managed condition moves  *)
(* only together with its status: neither new reasons, partial             *)
(* resolutions nor heartbeats disturb it.                                  *)
(***************************************************************************)
TransitionFollowsStatus ==
  [][\A t \in Types :
       /\ restarts' = restarts
       /\ managedConditions[t] # Absent
       /\ managedConditions'[t].transition # managedConditions[t].transition
       => managedConditions'[t].status # managedConditions[t].status]_exporterVars

(***************************************************************************)
(* The report is an upsert: it leaves the conditions of other writers as   *)
(* they are (comment of reportManagedConditions).                          *)
(***************************************************************************)
ForeignConditionsKept ==
  [][ReportPatch => node'.foreign = node.foreign]_exporterVars

(***************************************************************************)
(* A configured condition removed by another client comes back, again and  *)
(* again: the heartbeat marks the state dirty even when nothing changed.   *)
(***************************************************************************)
RemovedConditionReturns ==
  \A t \in Configured : []<>(node.conditions[t] # Absent)

-----------------------------------------------------------------------------
(* The exporter implements NodeHealth *)

PublishedStatus(c) == IF c = Absent THEN "Absent" ELSE c.status

Health == INSTANCE NodeHealth WITH
  unresolved <- [t \in Types |-> {fatalEntries[t][i].reason : i \in DOMAIN fatalEntries[t]}],
  tracked    <- {t \in Types : managedConditions[t] # Absent},
  published  <- [t \in Types |-> PublishedStatus(node.conditions[t])]

\* Every step of the exporter is a step of its abstract promise.
ImplementsNodeHealth == Health!HealthSpec
=============================================================================
