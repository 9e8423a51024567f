--------------------------- MODULE NodeDiagnostic ---------------------------
(***************************************************************************)
(* The NodeDiagnostic controller (pkg/controllers/nodediagnostic.go): a    *)
(* single worker reconciles one object from an informer cache, captures    *)
(* logs and packets as its spec asks, and patches their state into its     *)
(* status; an event handler outside the work queue cancels a running       *)
(* packet capture when the spec changes or the object goes away.           *)
(*                                                                         *)
(* A status is one list and a merge patch replaces it whole, so a patch    *)
(* writes both capture states as the worker knows them.  Messages, times   *)
(* and capture IDs, which are labels, are left out.                        *)
(***************************************************************************)
EXTENDS Integers, Sequences

CONSTANTS
  Destinations,  \* destinations of a log capture, "node" among them
  Durations,     \* durations of a packet capture
  Excessive,     \* the ones over MaxCaptureDuration
  Nothing,       \* no capture asked for, or no object
  MaxEdits,      \* bound: times users create or change the object
  MaxFailures,   \* bound: API calls that fail
  MaxRestarts    \* bound: restarts of the agent

ASSUME DiagnosticAssumption ==
  /\ Excessive \subseteq Durations
  /\ Nothing \notin Destinations \cup Durations
  /\ MaxEdits \in Nat /\ MaxFailures \in Nat /\ MaxRestarts \in Nat

VARIABLES
  cr,                \* the NodeDiagnostic as the API server holds it
  watch,             \* its later versions, on their way to the informer
  cache,             \* the informer's copy
  queued,            \* the object is in the work queue
  cancelEvents,      \* events the cancellation handler has not seen yet
  nd, pc, logErr,    \* Reconcile: its object, where it is, the error of the log capture
  outcome,           \* the result it is about to write
  captureRunning,    \* the slot of the log collection is taken
  collection,        \* the collection this Reconcile started
  abandoned,         \* collections given up that have not returned
  packetCancelFunc,  \* a cancel function is stored
  cancelled,         \* captureCtx is cancelled
  supportFile,       \* there is a log archive in /var/log/support
  timers,            \* pending deletions of that file
  edits, failures, restarts,
  asked,             \* history: the packet capture each generation asks for
  captured,          \* history: the requests a packet capture succeeded for
  misdirected,       \* history: objects whose status was written for another one
  answered           \* history: generations once published as completed

apiVars == <<cr, watch, asked, misdirected, answered, failures>>
informerVars == <<cache, queued, cancelEvents>>
collectVars == <<captureRunning, collection, abandoned>>
packetVars == <<packetCancelFunc, cancelled>>
fileVars == <<supportFile, timers>>
workerVars == <<nd, pc, logErr, outcome, captured>>
countVars == <<edits, restarts>>
diagVars == <<apiVars, informerVars, collectVars, packetVars, fileVars, workerVars, countVars>>

-----------------------------------------------------------------------------
(* Types *)

Reasons == {"Failure", "Success", "SuccessWithErrors"}

LogState == {"Unset", "Running"} \cup Reasons

\* A packet capture state, with the observed generation once completed.
PacketState == [state : {"Unset", "Running"} \cup Reasons, generation : Nat]

NodeDiagnosticSpec == [log : Destinations \cup {Nothing}, packet : Durations \cup {Nothing}]

Object == [uid : Nat, generation : Nat, spec : NodeDiagnosticSpec, log : LogState,
           packet : PacketState]

\* The absent object is not an object.
ASSUME NothingAssumption == Nothing \notin Object

PacketUnset == [state |-> "Unset", generation |-> 0]
PacketRunning == [state |-> "Running", generation |-> 0]
PacketCompleted(reason, generation) == [state |-> reason, generation |-> generation]

Phases == {"idle", "logRunning", "collect", "collecting", "deliver", "logCompleted",
           "packet", "packetReject", "packetRunning", "store", "capturing", "packetCompleted"}

-----------------------------------------------------------------------------
(* The API server and its users *)

Request(o) == <<o.uid, o.generation, o.spec.packet>>

Publish(o) ==
  /\ cr' = o
  /\ watch' = Append(watch, o)

Create(spec) ==
  /\ cr = Nothing
  /\ edits < MaxEdits
  /\ edits' = edits + 1
  /\ Publish([uid |-> edits + 1, generation |-> 1, spec |-> spec,
              log |-> "Unset", packet |-> PacketUnset])
  /\ asked' = asked \cup {Request(cr')}
  /\ UNCHANGED <<misdirected, answered, failures, informerVars, collectVars, packetVars, fileVars,
                 workerVars, restarts>>

Update(spec) ==
  /\ cr # Nothing
  /\ cr.spec # spec
  /\ edits < MaxEdits
  /\ edits' = edits + 1
  /\ Publish([cr EXCEPT !.spec = spec, !.generation = @ + 1])
  /\ asked' = asked \cup {Request(cr')}
  /\ UNCHANGED <<misdirected, answered, failures, informerVars, collectVars, packetVars, fileVars,
                 workerVars, restarts>>

Delete ==
  /\ cr # Nothing
  /\ Publish(Nothing)
  /\ UNCHANGED <<asked, misdirected, answered, failures, informerVars, collectVars, packetVars,
                 fileVars, workerVars, countVars>>

\* The server's object after a patch that carries the status of object o.  The
\* merge patch names the object and carries neither uid nor resourceVersion, so
\* it lands on whatever object has the name by now.
Patched(o) == [cr EXCEPT !.log = o.log, !.packet = o.packet]

\* The answer is decoded into the worker's object: a capture that is no
\* longer asked for is missing from it and keeps its old value.
Decoded(o) ==
  LET keep(new, old) == IF new = Nothing THEN old ELSE new
  IN [Patched(o) EXCEPT !.spec = [log    |-> keep(cr.spec.log, o.spec.log),
                                  packet |-> keep(cr.spec.packet, o.spec.packet)]]

\* Generations the status of o declares completed.
Answers(o) ==
  IF o.packet.state \in Reasons THEN {<<cr.uid, o.packet.generation>>} ELSE {}

ServerApplies(o) ==
  /\ cr # Nothing
  /\ Publish(Patched(o))
  /\ misdirected' = IF o.uid = cr.uid THEN misdirected ELSE misdirected \cup {cr.uid}
  /\ answered' = answered \cup Answers(o)

\* Status().Patch succeeds.
StatusPatch(o) ==
  /\ ServerApplies(o)
  /\ nd' = Decoded(o)
  /\ UNCHANGED <<asked, failures>>

\* It fails, because the object is gone, or on the way there or back.
StatusPatchFails(o) ==
  /\ nd' = o
  /\ \/ /\ cr = Nothing
        /\ UNCHANGED <<cr, watch, misdirected, answered, failures>>
     \/ /\ cr # Nothing
        /\ failures < MaxFailures
        /\ failures' = failures + 1
        /\ ServerApplies(o) \/ UNCHANGED <<cr, watch, misdirected, answered>>
  /\ UNCHANGED asked

-----------------------------------------------------------------------------
(* The informer: cache, work queue and cancellation handler *)

GenerationChanged(old, new) ==
  old # Nothing /\ new # Nothing /\ old.generation # new.generation

\* The next version arrives: the controller's predicates decide whether to
\* queue it, the other handler gets it too.
Observe ==
  /\ watch # <<>>
  /\ LET new == Head(watch)
     IN /\ watch' = Tail(watch)
        /\ cache' = new
        /\ queued' = \/ queued
                     \/ cache = Nothing /\ new # Nothing
                     \/ GenerationChanged(cache, new)
        /\ cancelEvents' = IF new = Nothing \/ GenerationChanged(cache, new)
                           THEN cancelEvents + 1 ELSE cancelEvents
  /\ UNCHANGED <<cr, asked, misdirected, answered, failures, collectVars, packetVars, fileVars,
                 workerVars, countVars>>

\* handleSpecChange and handleDelete: cancel the active capture, if any.
HandleEvent ==
  /\ cancelEvents > 0
  /\ cancelEvents' = cancelEvents - 1
  /\ cancelled' = (cancelled \/ packetCancelFunc)
  /\ UNCHANGED <<apiVars, cache, queued, collectVars, packetCancelFunc, fileVars,
                 workerVars, countVars>>

-----------------------------------------------------------------------------
(* Reconcile *)

Goto(phase) == pc' = phase

\* The worker takes the object from the queue and reads it from the cache.
Reconcile ==
  /\ pc = "idle"
  /\ queued
  /\ queued' = FALSE
  /\ nd' = cache
  /\ logErr' = FALSE
  /\ Goto(IF cache = Nothing \/ cache.spec = [log |-> Nothing, packet |-> Nothing] THEN "idle"
          ELSE IF cache.spec.log # Nothing THEN "logRunning"
          ELSE "packet")
  /\ UNCHANGED <<apiVars, cache, cancelEvents, collectVars, packetVars, fileVars,
                 outcome, captured, countVars>>

\* An error that is only logged.
Finish_NoRequeue(error) ==
  /\ Goto("idle")
  /\ UNCHANGED queued

\* Reconcile returns; an error puts the object back into the queue.
Finish(error) ==
  /\ Goto("idle")
  /\ queued' = (queued \/ error)

(* handleLogCapture *)

LogRunning ==
  /\ pc = "logRunning"
  /\ LET running == [nd EXCEPT !.log = "Running"]
     IN \/ StatusPatch(running) /\ Goto("collect") /\ UNCHANGED logErr
        \/ StatusPatchFails(running) /\ Goto("packet") /\ logErr' = TRUE
  /\ UNCHANGED <<outcome, captured, informerVars, collectVars, packetVars, fileVars, countVars>>

LogFails ==
  /\ outcome' = "Failure"
  /\ Goto("logCompleted")

\* collectLogsBounded claims the slot, or refuses to start another collection.
CollectStart ==
  /\ pc = "collect"
  /\ \/ /\ captureRunning
        /\ LogFails
        /\ UNCHANGED collectVars
     \/ /\ ~captureRunning
        /\ captureRunning' = TRUE
        /\ collection' = "running"
        /\ Goto("collecting")
        /\ UNCHANGED <<outcome, abandoned>>
  /\ UNCHANGED <<nd, logErr, captured, apiVars, informerVars, packetVars, fileVars, countVars>>

\* The collection returns: it releases the slot, then publishes its result.
CollectReturn ==
  /\ \/ /\ collection = "running"
        /\ collection' = "released"
        /\ captureRunning' = FALSE
     \/ /\ collection = "released"
        /\ collection' = "published"
        /\ UNCHANGED captureRunning
  /\ UNCHANGED abandoned
  /\ UNCHANGED <<apiVars, informerVars, packetVars, fileVars, workerVars, countVars>>

\* The worker receives the result.
CollectDone ==
  /\ pc = "collecting"
  /\ collection = "published"
  /\ collection' = "none"
  /\ \/ LogFails
     \/ outcome' \in {"Success", "SuccessWithErrors"} /\ Goto("deliver")
  /\ UNCHANGED <<captureRunning, abandoned>>
  /\ UNCHANGED <<nd, logErr, captured, apiVars, informerVars, packetVars, fileVars, countVars>>

\* A timeout that frees the slot of the collection it gives up.
CollectTimeout_Release ==
  /\ pc = "collecting"
  /\ LogFails
  /\ collection' = "none"
  /\ captureRunning' = FALSE
  /\ abandoned' = IF collection = "running" THEN abandoned + 1 ELSE abandoned
  /\ UNCHANGED <<nd, logErr, captured, apiVars, informerVars, packetVars, fileVars, countVars>>

\* LogCaptureTimeout passes: the collection is abandoned and keeps the slot.
CollectTimeout ==
  /\ pc = "collecting"
  /\ LogFails
  /\ collection' = "none"
  /\ abandoned' = IF collection = "running" THEN abandoned + 1 ELSE abandoned
  /\ UNCHANGED <<captureRunning, nd, logErr, captured, apiVars, informerVars, packetVars, fileVars,
                 countVars>>

\* An abandoned collection returns after all.
AbandonedReturn ==
  /\ abandoned > 0
  /\ abandoned' = abandoned - 1
  /\ captureRunning' = FALSE
  /\ UNCHANGED <<collection, apiVars, informerVars, packetVars, fileVars, workerVars,
                 countVars>>

\* The archive is uploaded, or saved on the node with a timer to delete it;
\* a copy that fails half way leaves the file and starts no timer.
DeliverLogs ==
  /\ pc = "deliver"
  /\ \/ LogFails /\ UNCHANGED fileVars
     \/ /\ nd.spec.log = "node"
        /\ supportFile' = TRUE
        /\ \/ LogFails /\ UNCHANGED timers
           \/ /\ timers' = timers + 1
              /\ Goto("logCompleted")
              /\ UNCHANGED outcome
     \/ /\ nd.spec.log # "node"
        /\ Goto("logCompleted")
        /\ UNCHANGED <<outcome, fileVars>>
  /\ UNCHANGED <<nd, logErr, captured, apiVars, informerVars, collectVars, packetVars, countVars>>

\* A timer fires and removes whatever file is there, its own or a later one.
DeleteFile ==
  /\ timers > 0
  /\ timers' = timers - 1
  /\ supportFile' = FALSE
  /\ UNCHANGED <<apiVars, informerVars, collectVars, packetVars, workerVars, countVars>>

LogCompleted ==
  /\ pc = "logCompleted"
  /\ LET completed == [nd EXCEPT !.log = outcome]
     IN \/ StatusPatch(completed) /\ UNCHANGED logErr
        \/ StatusPatchFails(completed) /\ logErr' = TRUE
  /\ Goto("packet")
  /\ UNCHANGED <<outcome, captured, informerVars, collectVars, packetVars, fileVars, countVars>>

(* handlePacketCapture *)

CompletedFor(o) == o.packet.state \in Reasons /\ o.packet.generation = o.generation

\* Skip what is not asked for or done, then validate the duration.
HandlePacketCapture ==
  /\ pc = "packet"
  /\ \/ /\ nd.spec.packet = Nothing \/ CompletedFor(nd)
        /\ Finish(logErr)
        /\ UNCHANGED packetVars
     \/ /\ nd.spec.packet # Nothing /\ ~CompletedFor(nd)
        /\ packetCancelFunc' = FALSE
        /\ cancelled' = (cancelled \/ packetCancelFunc)
        /\ Goto(IF nd.spec.packet \in Excessive THEN "packetReject" ELSE "packetRunning")
        /\ UNCHANGED queued
  /\ UNCHANGED <<nd, logErr, outcome, captured, apiVars, cache, cancelEvents, collectVars, fileVars,
                 countVars>>

\* A final patch of the packet capture, after which Reconcile returns.
FinalPatch(o) ==
  /\ \/ StatusPatch(o) /\ Finish(logErr)
     \/ StatusPatchFails(o) /\ Finish(TRUE)
  /\ UNCHANGED <<logErr, outcome, captured, cache, cancelEvents, collectVars, packetVars, fileVars,
                 countVars>>

PacketReject ==
  /\ pc = "packetReject"
  /\ FinalPatch([nd EXCEPT !.packet = PacketCompleted("Failure", nd.generation)])

PacketRunningPatch ==
  /\ pc = "packetRunning"
  /\ LET running == [nd EXCEPT !.packet = PacketRunning]
     IN \/ StatusPatch(running) /\ Goto("store") /\ UNCHANGED queued
        \/ StatusPatchFails(running) /\ Finish(TRUE)
  /\ UNCHANGED <<logErr, outcome, captured, cache, cancelEvents, collectVars, packetVars, fileVars,
                 countVars>>

\* The capture starts with a fresh context whose cancel function is stored.
StoreCancelFunc ==
  /\ pc = "store"
  /\ packetCancelFunc' = TRUE
  /\ cancelled' = FALSE
  /\ Goto("capturing")
  /\ UNCHANGED <<nd, logErr, outcome, captured, apiVars, informerVars, collectVars, fileVars,
                 countVars>>

\* captureFunc returns; a cancelled capture leaves no status behind.
CaptureReturns ==
  /\ pc = "capturing"
  /\ packetCancelFunc' = FALSE
  /\ \/ /\ cancelled
        /\ Finish(logErr)
        /\ UNCHANGED <<outcome, captured>>
     \/ /\ ~cancelled
        /\ outcome' \in {"Success", "Failure"}
        /\ captured' = IF outcome' = "Success" THEN captured \cup {Request(nd)} ELSE captured
        /\ Goto("packetCompleted")
        /\ UNCHANGED queued
  /\ UNCHANGED <<cancelled, nd, logErr, apiVars, cache, cancelEvents, collectVars, fileVars,
                 countVars>>

\* The generation is the one the API server holds by now.
ObservedGeneration_Now == IF cr = Nothing THEN nd.generation ELSE cr.generation

\* The generation the capture executed against.
ObservedGeneration == nd.generation

PacketCompletedPatch ==
  /\ pc = "packetCompleted"
  /\ FinalPatch([nd EXCEPT !.packet = PacketCompleted(outcome, ObservedGeneration)])

-----------------------------------------------------------------------------
(* Specification *)

DiagInit ==
  /\ cr = Nothing /\ watch = <<>> /\ cache = Nothing
  /\ queued = FALSE /\ cancelEvents = 0
  /\ nd = Nothing /\ pc = "idle" /\ logErr = FALSE /\ outcome = "Failure"
  /\ captureRunning = FALSE /\ collection = "none" /\ abandoned = 0
  /\ packetCancelFunc = FALSE /\ cancelled = FALSE
  /\ supportFile = FALSE /\ timers = 0
  /\ edits = 0 /\ failures = 0 /\ restarts = 0
  /\ asked = {} /\ captured = {} /\ misdirected = {} /\ answered = {}

\* The agent restarts: memory, goroutines and timers are gone, the file
\* stays, and the first list of the informer queues the object.
Restart ==
  /\ restarts < MaxRestarts
  /\ restarts' = restarts + 1
  /\ cache' = cr /\ watch' = <<>>
  /\ queued' = (cr # Nothing) /\ cancelEvents' = 0
  /\ nd' = Nothing /\ pc' = "idle" /\ logErr' = FALSE /\ outcome' = "Failure"
  /\ captureRunning' = FALSE /\ collection' = "none" /\ abandoned' = 0
  /\ packetCancelFunc' = FALSE /\ cancelled' = FALSE
  /\ timers' = 0
  /\ UNCHANGED <<cr, asked, captured, misdirected, answered, failures, edits, supportFile>>

Users == (\E s \in NodeDiagnosticSpec : Create(s) \/ Update(s)) \/ Delete

handleLogCapture ==
  LogRunning \/ CollectStart \/ CollectDone \/ CollectTimeout \/ DeliverLogs \/ LogCompleted

handlePacketCapture ==
  \/ HandlePacketCapture \/ PacketReject \/ PacketRunningPatch \/ StoreCancelFunc
  \/ CaptureReturns \/ PacketCompletedPatch

Goroutines == CollectReturn \/ AbandonedReturn \/ DeleteFile

DiagNext ==
  \/ Users
  \/ Observe
  \/ HandleEvent
  \/ Reconcile
  \/ handleLogCapture
  \/ handlePacketCapture
  \/ Goroutines
  \/ Restart

DiagSpec == DiagInit /\ [][DiagNext]_diagVars

(***************************************************************************)
(* The same with an informer that keeps up: its copy is current when the   *)
(* worker reads it, and the cancellation handler runs as soon as an event  *)
(* arrives, ahead of the worker.                                           *)
(***************************************************************************)
PromptNext ==
  /\ DiagNext
  /\ cancelEvents > 0 => HandleEvent
  /\ watch # <<>> => ~Reconcile

PromptSpec == DiagInit /\ [][PromptNext]_diagVars

-----------------------------------------------------------------------------
(* Properties *)

MaybeObject == Object \cup {Nothing}

DiagTypeOK ==
  /\ cr \in MaybeObject /\ watch \in Seq(MaybeObject) /\ cache \in MaybeObject
  /\ queued \in BOOLEAN /\ cancelEvents \in Nat
  /\ nd \in MaybeObject /\ pc \in Phases /\ logErr \in BOOLEAN /\ outcome \in Reasons
  /\ pc # "idle" => nd # Nothing
  /\ captureRunning \in BOOLEAN /\ abandoned \in Nat
  /\ collection \in {"none", "running", "released", "published"}
  /\ packetCancelFunc \in BOOLEAN /\ cancelled \in BOOLEAN
  /\ supportFile \in BOOLEAN /\ timers \in Nat

Outstanding == abandoned + (IF collection = "running" THEN 1 ELSE 0)

(***************************************************************************)
(* However many captures time out, at most one log collection is ever      *)
(* outstanding, and the slot is taken exactly while one is: a wedged       *)
(* collector costs one goroutine (collectLogsBounded), and a caller is     *)
(* refused only because of a collection that has really not returned.      *)
(***************************************************************************)
OneCollection ==
  /\ Outstanding <= 1
  /\ captureRunning <=> Outstanding = 1

\* A packet capture succeeded for generation g of object u, with the packet spec
\* of that generation; one that asks for no packet capture leaves the worker's
\* spec as it was.
CapturedFor(u, g) ==
  \E d \in Durations :
    /\ <<u, g, d>> \in captured
    /\ <<u, g, d>> \in asked \/ <<u, g, Nothing>> \in asked

(***************************************************************************)
(* "tracks which spec generation the capture corresponds to" (packet-      *)
(* capture.adoc): the object the API server holds is shown as successfully *)
(* captured for a generation only if a capture of this very object         *)
(* succeeded with the packet spec of that generation, even when users      *)
(* change the spec, delete and recreate the object meanwhile and patches   *)
(* fail (ObservedGeneration of handlePacketCapture).  Excepted is an       *)
(* object recreated under the worker's hands, on which a status patch      *)
(* meant for its predecessor landed.                                       *)
(***************************************************************************)
SuccessIsForItsSpec ==
  cr # Nothing /\ cr.packet.state = "Success" /\ cr.uid \notin misdirected =>
    CapturedFor(cr.uid, cr.packet.generation)

(***************************************************************************)
(* The same without the exception.  It does not hold: the result of a      *)
(* capture is written to an object created while it ran, whose spec was    *)
(* never captured, and the next Reconcile takes it for completed.          *)
(***************************************************************************)
SuccessIsForTheObject ==
  cr # Nothing /\ cr.packet.state = "Success" => CapturedFor(cr.uid, cr.packet.generation)

\* Nothing is left to do for the controller.
Quiet == pc = "idle" /\ ~queued /\ watch = <<>> /\ cancelEvents = 0

(***************************************************************************)
(* When the controller comes to rest, what the object asks for has been    *)
(* answered: a requested log capture is not left Running and a requested   *)
(* packet capture is completed for the current generation, whatever was    *)
(* cancelled, failed, timed out or was interrupted by a restart (comments  *)
(* of handlePacketCapture and LogCaptureTimeout).                          *)
(***************************************************************************)
RequestsAnswered ==
  Quiet /\ cr # Nothing =>
    /\ cr.spec.log # Nothing => cr.log \in Reasons
    /\ cr.spec.packet # Nothing => CompletedFor(cr)

(***************************************************************************)
(* At rest nothing the agent stopped working on is shown as Running.       *)
(***************************************************************************)
NothingLeftRunning ==
  Quiet /\ cr # Nothing => cr.packet.state # "Running"

(***************************************************************************)
(* No packet capture runs for longer than MaxCaptureDuration.              *)
(***************************************************************************)
CaptureWithinLimit == pc = "capturing" => nd.spec.packet \notin Excessive

(***************************************************************************)
(* A completed generation is not captured again (comment of                *)
(* handlePacketCapture).                                                   *)
(***************************************************************************)
NoReexecution ==
  pc = "capturing" => <<nd.uid, nd.generation>> \notin answered
=============================================================================
