--------------------------- MODULE MonitorManager ---------------------------
(***************************************************************************)
(* The monitor manager (pkg/manager/manager.go) in front of the exporter:  *)
(* monitors hand conditions to a bounded channel, one loop takes them off  *)
(* (or polls the monitors), debounces them by reason, and calls the        *)
(* exporter, which may keep it waiting for the exporter's lock.            *)
(***************************************************************************)
EXTENDS NodeExporter

CONSTANTS
  Monitors,  \* registered monitors
  TypeOf,    \* conditionTypeMap: the condition type of each monitor
  Catalog,   \* per monitor, the conditions it may notify
  Polls,     \* what one poll of all monitors may return, as notifications
  Capacity,  \* capacity of notifyChan
  MaxSends   \* bound: conditions handed to the manager

Severity == {"Info", "Warning", "Fatal"}

MonitorCondition == [reason : Reasons, message : Texts, severity : Severity \cup {"Unset"},
                     min : Nat, resolved : BOOLEAN]

Notification == [monitor : Monitors, condition : MonitorCondition]

ASSUME ManagerAssumption ==
  /\ TypeOf \in [Monitors -> Types]
  /\ \A m \in Monitors : Catalog[m] \subseteq MonitorCondition
  /\ Polls \subseteq Seq(Notification)
  /\ Capacity \in Nat \ {0}
  /\ MaxSends \in Nat
  /\ MaxSends <= MaxReports
  /\ Absent \notin MonitorCondition

FatalConditions(m) == {c \in Catalog[m] : c.severity = "Fatal" /\ ~c.resolved}

(***************************************************************************)
(* How reasons are used: the fatal conditions of a reason go to one type   *)
(* with one MinOccurrences; a reason that is also a warning is fatal at    *)
(* its first occurrence (DCGMHealthCode, FabricManagerNotRunning); and     *)
(* what is notified as fatal is not polled as well.                        *)
(***************************************************************************)
ASSUME CatalogAssumption ==
  \A m \in Monitors : \A c \in FatalConditions(m) :
    /\ \A n \in Monitors : \A d \in Catalog[n] : d.reason = c.reason =>
         \/ d.severity = "Fatal" /\ TypeOf[n] = TypeOf[m] /\ (d.resolved \/ d.min = c.min)
         \/ d.severity # "Fatal" /\ c.min = 0
    /\ \A s \in Polls : \A i \in DOMAIN s : s[i].condition.reason = c.reason =>
         s[i].condition.severity # "Fatal" /\ c.min = 0

VARIABLES
  notifying,          \* per monitor, the condition its Notify call carries
  notifyChan,         \* notifications queued for the loop
  inbox,              \* notifications the loop is working through
  loopPhase,          \* "select", "export", or "fatal": inside exporter.Fatal
  conditionCountMap,  \* per reason, occurrences below the minimum
  gauge,              \* conditionTypeGauge, per type
  sends,              \* conditions handed over so far
  heard               \* history: per reason, fatal notifications since it was resolved

loopVars == <<inbox, loopPhase, conditionCountMap, gauge>>
managerVars == <<notifying, notifyChan, loopVars, sends, heard>>
agentVars == <<exporterVars, managerVars>>

-----------------------------------------------------------------------------
(* Notify *)

Resolution(c) == c.resolved /\ c.severity = "Fatal"

\* The history after the manager accepts condition c.
Hear(h, c) ==
  IF c.severity = "Fatal"
  THEN [h EXCEPT ![c.reason] = IF c.resolved THEN 0 ELSE @ + 1]
  ELSE h

\* A monitor calls Notify.
Notify(m, c) ==
  /\ notifying[m] = Absent
  /\ sends < MaxSends
  /\ sends' = sends + 1
  /\ notifying' = [notifying EXCEPT ![m] = c]
  /\ UNCHANGED <<notifyChan, loopVars, heard, exporterVars>>

\* There is room in the channel.
Room == Len(notifyChan) < Capacity

\* A send that drops the notification when the channel is full.
NotifySend_Drop(m) ==
  /\ notifying[m] # Absent
  /\ notifyChan' = IF Room
                   THEN Append(notifyChan, [monitor |-> m, condition |-> notifying[m]])
                   ELSE notifyChan
  /\ heard' = Hear(heard, notifying[m])
  /\ notifying' = [notifying EXCEPT ![m] = Absent]
  /\ UNCHANGED <<loopVars, sends, exporterVars>>

\* The send succeeds.
NotifySend(m) ==
  /\ notifying[m] # Absent
  /\ Room
  /\ notifyChan' = Append(notifyChan, [monitor |-> m, condition |-> notifying[m]])
  /\ heard' = Hear(heard, notifying[m])
  /\ notifying' = [notifying EXCEPT ![m] = Absent]
  /\ UNCHANGED <<loopVars, sends, exporterVars>>

\* The caller's context ends first and Notify returns its error.
NotifyCancel(m) ==
  /\ notifying[m] # Absent
  /\ notifying' = [notifying EXCEPT ![m] = Absent]
  /\ UNCHANGED <<notifyChan, loopVars, sends, heard, exporterVars>>

-----------------------------------------------------------------------------
(* runLoop *)

\* The select takes a notification.
Receive ==
  /\ loopPhase = "select"
  /\ notifyChan # <<>>
  /\ inbox' = <<Head(notifyChan)>>
  /\ notifyChan' = Tail(notifyChan)
  /\ loopPhase' = "export"
  /\ UNCHANGED <<conditionCountMap, gauge, notifying, sends, heard, exporterVars>>

\* The poll ticker fires and every monitor returns its conditions, which
\* overtake the notifications still queued.
Poll(s) ==
  /\ loopPhase = "select"
  /\ s # <<>>
  /\ sends + Len(s) <= MaxSends
  /\ sends' = sends + Len(s)
  /\ inbox' = s
  /\ loopPhase' = "export"
  /\ UNCHANGED <<notifyChan, conditionCountMap, gauge, notifying, heard, exporterVars>>

Handled == Head(inbox).condition
HandledType == TypeOf[Head(inbox).monitor]

\* Move on to the next notification, or back to the select.
Done ==
  /\ inbox' = Tail(inbox)
  /\ loopPhase' = IF Tail(inbox) = <<>> THEN "select" ELSE "export"

\* A resolution that leaves the debounce where it was.
ExportResolved_KeepCount ==
  /\ loopPhase = "export"
  /\ Resolution(Handled)
  /\ Resolve(HandledType, Handled.reason)
  /\ gauge' = IF Recovered(HandledType, Handled.reason)
              THEN [gauge EXCEPT ![HandledType] = 0] ELSE gauge
  /\ Done
  /\ UNCHANGED <<conditionCountMap, notifying, notifyChan, sends, heard>>

\* A resolution that always clears the gauge.
ExportResolved_Gauge ==
  /\ loopPhase = "export"
  /\ Resolution(Handled)
  /\ Resolve(HandledType, Handled.reason)
  /\ conditionCountMap' = [conditionCountMap EXCEPT ![Handled.reason] = 0]
  /\ gauge' = [gauge EXCEPT ![HandledType] = 0]
  /\ Done
  /\ UNCHANGED <<notifying, notifyChan, sends, heard>>

\* exportCondition, a resolution: reset the debounce, clear the reason.
ExportResolved ==
  /\ loopPhase = "export"
  /\ Resolution(Handled)
  /\ Resolve(HandledType, Handled.reason)
  /\ conditionCountMap' = [conditionCountMap EXCEPT ![Handled.reason] = 0]
  /\ gauge' = IF Recovered(HandledType, Handled.reason)
              THEN [gauge EXCEPT ![HandledType] = 0] ELSE gauge
  /\ Done
  /\ UNCHANGED <<notifying, notifyChan, sends, heard>>

\* Fewer occurrences than the condition asks for.
BelowMinimum(c) == conditionCountMap[c.reason] < c.min

\* exportCondition, a problem that has not met MinOccurrences.
ExportDebounced ==
  /\ loopPhase = "export"
  /\ ~Resolution(Handled)
  /\ BelowMinimum(Handled)
  /\ conditionCountMap' = [conditionCountMap EXCEPT ![Handled.reason] = @ + 1]
  /\ Done
  /\ UNCHANGED <<gauge, notifying, notifyChan, sends, heard, exporterVars>>

(***************************************************************************)
(* exportCondition and SendCondition, a problem that has: an event or an   *)
(* error for everything but a fatal one, which raises the gauge and then   *)
(* enters the exporter.                                                    *)
(***************************************************************************)
ExportSend ==
  /\ loopPhase = "export"
  /\ ~Resolution(Handled)
  /\ ~BelowMinimum(Handled)
  /\ conditionCountMap' = [conditionCountMap EXCEPT ![Handled.reason] = 0]
  /\ \/ /\ Handled.severity # "Fatal"
        /\ Done
        /\ UNCHANGED gauge
     \/ /\ Handled.severity = "Fatal"
        /\ gauge' = [gauge EXCEPT ![HandledType] = 1]
        /\ loopPhase' = "fatal"
        /\ UNCHANGED inbox
  /\ UNCHANGED <<notifying, notifyChan, sends, heard, exporterVars>>

\* exporter.Fatal gets the lock.
ExportFatal ==
  /\ loopPhase = "fatal"
  /\ Fatal(HandledType, Handled.reason, Handled.message)
  /\ Done
  /\ UNCHANGED <<conditionCountMap, gauge, notifying, notifyChan, sends, heard>>

-----------------------------------------------------------------------------
(* Specification *)

AgentInit ==
  /\ ExporterInit
  /\ notifying = [m \in Monitors |-> Absent]
  /\ notifyChan = <<>>
  /\ inbox = <<>>
  /\ loopPhase = "select"
  /\ conditionCountMap = [r \in Reasons |-> 0]
  /\ gauge = [t \in Types |-> 0]
  /\ heard = [r \in Reasons |-> 0]
  /\ sends = 0

\* The process restarts and everything it held in memory is gone.
AgentRestart ==
  /\ Restart
  /\ notifying' = [m \in Monitors |-> Absent]
  /\ notifyChan' = <<>>
  /\ inbox' = <<>>
  /\ loopPhase' = "select"
  /\ conditionCountMap' = [r \in Reasons |-> 0]
  /\ gauge' = [t \in Types |-> 0]
  /\ heard' = [r \in Reasons |-> 0]
  /\ UNCHANGED sends

ManagerStep ==
  \/ \E m \in Monitors : \/ \E c \in Catalog[m] : Notify(m, c)
                         \/ NotifySend(m)
                         \/ NotifyCancel(m)
  \/ Receive
  \/ \E s \in Polls : Poll(s)
  \/ ExportResolved
  \/ ExportDebounced
  \/ ExportSend
  \/ ExportFatal

AgentNext ==
  \/ ManagerStep
  \/ RunWithTickers /\ UNCHANGED managerVars
  \/ Environment /\ UNCHANGED managerVars
  \/ AgentRestart

AgentSpec == AgentInit /\ [][AgentNext]_agentVars

(***************************************************************************)
(* A channel hands out room and items in the order of the waiting          *)
(* goroutines, the select is not unfair to a ready channel, and a mutex    *)
(* does not starve a waiter: the manager's own steps are strongly fair.    *)
(***************************************************************************)
AgentFairness ==
  /\ ExporterFairness
  /\ \A m \in Monitors : SF_agentVars(NotifySend(m))
  /\ SF_agentVars(Receive)
  /\ WF_agentVars(ExportDebounced)
  /\ WF_agentVars(ExportSend)
  /\ SF_agentVars(ExportResolved)
  /\ SF_agentVars(ExportFatal)

FairAgentSpec == AgentSpec /\ AgentFairness

-----------------------------------------------------------------------------
(* Properties *)

ManagerTypeOK ==
  /\ notifying \in [Monitors -> MonitorCondition \cup {Absent}]
  /\ notifyChan \in Seq(Notification)
  /\ inbox \in Seq(Notification)
  /\ loopPhase \in {"select", "export", "fatal"}
  /\ (loopPhase = "select") <=> (inbox = <<>>)
  /\ conditionCountMap \in [Reasons -> Nat]
  /\ gauge \in [Types -> {0, 1}]
  /\ sends \in Nat
  /\ heard \in [Reasons -> Nat]

(***************************************************************************)
(* The gauge of a type is raised exactly while a fatal reason of the type  *)
(* is unresolved, or is on its way into the exporter (SendCondition raises *)
(* it, exportCondition lowers it when Resolve says the type recovered).    *)
(***************************************************************************)
GaugeFollowsEntries ==
  \A t \in Types :
    gauge[t] = 1 <=> \/ fatalEntries[t] # <<>>
                     \/ loopPhase = "fatal" /\ HandledType = t

Unresolved(t) == {fatalEntries[t][i].reason : i \in DOMAIN fatalEntries[t]}

(***************************************************************************)
(* Once the manager has worked off what it accepted, the exporter holds a  *)
(* fatal reason exactly when it was notified more than MinOccurrences      *)
(* times since its last resolution: debouncing, queueing and waiting for   *)
(* the lock neither lose, reorder nor revive a verdict (exportCondition).  *)
(***************************************************************************)
VerdictsKeptWhenQuiet ==
  loopPhase = "select" /\ notifyChan = <<>> =>
    \A m \in Monitors : \A c \in FatalConditions(m) :
      c.reason \in Unresolved(TypeOf[m]) <=> heard[c.reason] > c.min

\* No Notify call waits for ever, even when the channel is full.
NotifyReturns == \A m \in Monitors : notifying[m] # Absent ~> notifying[m] = Absent

(***************************************************************************)
(* End to end: a fatal condition a monitor reported often enough is seen   *)
(* on the Node as an unhealthy condition, unless it is resolved (or the    *)
(* agent restarts) first.                                                  *)
(***************************************************************************)
FatalReachesNode ==
  \A m \in Monitors : \A c \in FatalConditions(m) :
    heard[c.reason] > c.min ~>
      \/ heard[c.reason] = 0
      \/ PublishedStatus(node.conditions[TypeOf[m]]) = "False"
=============================================================================
