----------------------------- MODULE NodeHealth -----------------------------
(***************************************************************************)
(* What the condition exporter promises to the readers of a Node object,   *)
(* whatever its locking, batching and retries: a published status is a     *)
(* snapshot of the set of unresolved fatal reasons, taken for all tracked  *)
(* condition types at the same instant.  Only another API client, or the   *)
(* loss of the agent's memory, makes the two differ in any other way.      *)
(***************************************************************************)
CONSTANTS
  Types,       \* condition types the agent can write
  Configured,  \* the types it manages from the moment it starts
  Reasons      \* reasons of fatal conditions

VARIABLES
  unresolved,  \* per type, the reasons reported and not yet resolved
  tracked,     \* types the agent currently manages
  published    \* per type, the status a reader of the Node sees

healthVars == <<unresolved, tracked, published>>

Published == {"True", "False", "Absent"}

HealthTypeOK ==
  /\ unresolved \in [Types -> SUBSET Reasons]
  /\ tracked \subseteq Types
  /\ published \in [Types -> Published]

Health(t) == IF unresolved[t] = {} THEN "True" ELSE "False"

HealthInit ==
  /\ unresolved = [t \in Types |-> {}]
  /\ tracked = Configured
  /\ published = [t \in Types |-> "Absent"]

(***************************************************************************)
(* A reason becomes or stays unresolved, or stops being so.  Neither is    *)
(* visible to readers yet.                                                 *)
(***************************************************************************)
Raise(t, r) ==
  /\ unresolved' = [unresolved EXCEPT ![t] = @ \cup {r}]
  /\ tracked' = tracked \cup {t}
  /\ UNCHANGED published

Clear(t, r) ==
  /\ unresolved' = [unresolved EXCEPT ![t] = @ \ {r}]
  /\ UNCHANGED <<tracked, published>>

(***************************************************************************)
(* One write publishes every tracked type.  A condition another client     *)
(* removed while the write was in flight may stay removed, and a removed   *)
(* condition of a type that is not tracked may come back as it was read.   *)
(***************************************************************************)
PublishedBy(t, s) ==
  \/ published[t] = "Absent" /\ s = "Absent"
  \/ t \in tracked /\ s = Health(t)
  \/ t \notin tracked /\ (s = published[t] \/ published[t] = "Absent")

Publish ==
  /\ published' \in [Types -> Published]
  /\ \A t \in Types : PublishedBy(t, published'[t])

PublishNow == Publish /\ UNCHANGED <<unresolved, tracked>>

\* Another API client removes a condition of the agent from the Node.
Remove(t) ==
  /\ published' = [published EXCEPT ![t] = "Absent"]
  /\ UNCHANGED <<unresolved, tracked>>

\* The agent restarts; a write that was in flight may still land.
Forget ==
  /\ unresolved' = [t \in Types |-> {}]
  /\ tracked' = Configured
  /\ UNCHANGED published \/ Publish

HealthNext ==
  \/ \E t \in Types, r \in Reasons : Raise(t, r) \/ Clear(t, r)
  \/ PublishNow
  \/ \E t \in Types : Remove(t)
  \/ Forget

HealthSpec == HealthInit /\ [][HealthNext]_healthVars
=============================================================================
