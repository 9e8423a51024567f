------------------------ MODULE NodeDiagnosticProofs ------------------------
(***************************************************************************)
(* Proofs about the NodeDiagnostic controller, for every number of         *)
(* objects, generations, failures and restarts: the slot of the log        *)
(* collection, the generation a result is published for, and that nothing  *)
(* a user asks for is left unanswered.                                     *)
(***************************************************************************)
EXTENDS NodeDiagnostic, SequenceTheorems, TLAPS

\* OneCollection with the types its arithmetic needs is inductive.
CollectInv ==
  /\ captureRunning \in BOOLEAN
  /\ abandoned \in Nat
  /\ collection \in {"none", "running", "released", "published"}
  /\ OneCollection

(***************************************************************************)
(* Steps that leave the slot and the collections alone.                    *)
(***************************************************************************)
LEMMA CollectUnchanged == CollectInv /\ UNCHANGED collectVars => CollectInv'
BY DEF CollectInv, OneCollection, Outstanding, collectVars

(***************************************************************************)
(* collectLogsBounded: claiming, refusing, receiving and timing out.       *)
(***************************************************************************)
LEMMA WorkerCollects ==
  ASSUME CollectInv, CollectStart \/ CollectDone \/ CollectTimeout
  PROVE  CollectInv'
<1>1. CASE CollectStart
  <2>1. CASE captureRunning
    BY <1>1, <2>1, CollectUnchanged DEF CollectStart, CollectInv
  <2>2. CASE ~captureRunning
    <3>1. abandoned = 0
      BY <2>2 DEF CollectInv, OneCollection, Outstanding
    <3>2. collection' = "running" /\ abandoned' = 0
      BY <1>1, <2>2, <3>1 DEF CollectStart
    <3>3. captureRunning' \in BOOLEAN /\ captureRunning'
      BY <1>1, <2>2 DEF CollectStart
    <3>4. Outstanding' = 1
      BY <3>2 DEF Outstanding
    <3>5. QED
      BY <3>2, <3>3, <3>4 DEF CollectInv, OneCollection
  <2>3. QED
    BY <2>1, <2>2
<1>2. CASE CollectDone
  BY <1>2 DEF CollectDone, CollectInv, OneCollection, Outstanding
<1>3. CASE CollectTimeout
  BY <1>3 DEF CollectTimeout, CollectInv, OneCollection, Outstanding
<1>4. QED
  BY <1>1, <1>2, <1>3

(***************************************************************************)
(* The collection goroutine, awaited or abandoned.                         *)
(***************************************************************************)
LEMMA CollectionReturns ==
  ASSUME CollectInv, CollectReturn \/ AbandonedReturn
  PROVE  CollectInv'
<1>1. CASE CollectReturn
  <2>1. CASE collection = "running"
    <3>1. abandoned = 0
      BY <2>1 DEF CollectInv, OneCollection, Outstanding
    <3>2. collection' = "released" /\ abandoned' = 0
      BY <1>1, <2>1, <3>1 DEF CollectReturn
    <3>3. captureRunning' \in BOOLEAN /\ ~captureRunning'
      BY <1>1, <2>1 DEF CollectReturn
    <3>4. Outstanding' = 0
      BY <3>2 DEF Outstanding
    <3>5. QED
      BY <3>2, <3>3, <3>4 DEF CollectInv, OneCollection
  <2>2. CASE collection # "running"
    <3>1. collection' = "published" /\ abandoned' = abandoned
      BY <1>1, <2>2 DEF CollectReturn
    <3>2. captureRunning' = captureRunning
      BY <1>1, <2>2 DEF CollectReturn
    <3>3. Outstanding' = Outstanding
      BY <2>2, <3>1 DEF Outstanding
    <3>4. QED
      BY <3>1, <3>2, <3>3 DEF CollectInv, OneCollection
  <2>3. QED
    BY <2>1, <2>2
<1>2. CASE AbandonedReturn
  <2>1. abandoned = 1 /\ collection # "running"
    BY <1>2 DEF AbandonedReturn, CollectInv, OneCollection, Outstanding
  <2>2. abandoned' = 0 /\ collection' = collection
    BY <1>2, <2>1 DEF AbandonedReturn
  <2>3. ~captureRunning'
    BY <1>2 DEF AbandonedReturn
  <2>4. captureRunning' \in BOOLEAN
    BY <1>2 DEF AbandonedReturn
  <2>5. Outstanding' = 0
    BY <2>1, <2>2 DEF Outstanding
  <2>6. collection' \in {"none", "running", "released", "published"}
    BY <2>2 DEF CollectInv
  <2>7. QED
    BY <2>2, <2>3, <2>4, <2>5, <2>6 DEF CollectInv, OneCollection
<1>3. QED
  BY <1>1, <1>2

\* Every step of the controller keeps CollectInv.
LEMMA CollectNext == CollectInv /\ [DiagNext]_diagVars => CollectInv'
<1> SUFFICES ASSUME CollectInv, [DiagNext]_diagVars PROVE CollectInv'
  OBVIOUS
<1>1. CASE Users
  <2>1. UNCHANGED collectVars
    BY <1>1 DEF Users, Create, Update, Delete
  <2>2. QED
    BY <2>1, CollectUnchanged
<1>2. CASE Observe \/ HandleEvent \/ Reconcile
  <2>1. UNCHANGED collectVars
    BY <1>2 DEF Observe, HandleEvent, Reconcile
  <2>2. QED
    BY <2>1, CollectUnchanged
<1>3. CASE handleLogCapture
  <2>1. CASE LogRunning \/ DeliverLogs \/ LogCompleted
    <3>1. UNCHANGED collectVars
      BY <2>1 DEF LogRunning, DeliverLogs, LogCompleted
    <3>2. QED
      BY <3>1, CollectUnchanged
  <2>2. QED
    BY <1>3, <2>1, WorkerCollects DEF handleLogCapture
<1>4. CASE handlePacketCapture
  <2>1. UNCHANGED collectVars
    BY <1>4 DEF handlePacketCapture, HandlePacketCapture, PacketReject, PacketRunningPatch,
       StoreCancelFunc, CaptureReturns, PacketCompletedPatch, FinalPatch
  <2>2. QED
    BY <2>1, CollectUnchanged
<1>5. CASE Goroutines
  <2>1. CASE DeleteFile
    <3>1. UNCHANGED collectVars
      BY <2>1 DEF DeleteFile
    <3>2. QED
      BY <3>1, CollectUnchanged
  <2>2. QED
    BY <1>5, <2>1, CollectionReturns DEF Goroutines
<1>6. CASE Restart
  <2>1. collection' = "none" /\ abandoned' = 0
    BY <1>6 DEF Restart
  <2>2. captureRunning' \in BOOLEAN /\ ~captureRunning'
    BY <1>6 DEF Restart
  <2>3. Outstanding' = 0
    BY <2>1 DEF Outstanding
  <2>4. QED
    BY <2>1, <2>2, <2>3 DEF CollectInv, OneCollection
<1>7. CASE UNCHANGED diagVars
  <2>1. UNCHANGED collectVars
    BY <1>7 DEF diagVars
  <2>2. QED
    BY <2>1, CollectUnchanged
<1>8. QED
  BY <1>1, <1>2, <1>3, <1>4, <1>5, <1>6, <1>7 DEF DiagNext

(***************************************************************************)
(* At most one log collection is ever outstanding, and the slot is taken   *)
(* exactly while one is (captureRunning in collectLogsBounded), however    *)
(* many captures are requested, time out or come back late.                *)
(***************************************************************************)
THEOREM AtMostOneCollection == DiagSpec => []OneCollection
<1>1. DiagInit => CollectInv
  <2>1. SUFFICES ASSUME DiagInit PROVE CollectInv
    OBVIOUS
  <2>2. collection = "none" /\ abandoned = 0
    BY <2>1 DEF DiagInit
  <2>3. captureRunning \in BOOLEAN /\ ~captureRunning
    BY <2>1 DEF DiagInit
  <2>4. Outstanding = 0
    BY <2>2 DEF Outstanding
  <2>5. QED
    BY <2>2, <2>3, <2>4 DEF CollectInv, OneCollection
<1>2. CollectInv => OneCollection
  BY DEF CollectInv
<1>3. QED
  BY <1>1, <1>2, CollectNext, PTL DEF DiagSpec

-----------------------------------------------------------------------------
(* Objects and patches *)

\* The objects the controller handles; an object is in hand while it works.
ObjectsTyped ==
  /\ cr \in MaybeObject /\ cache \in MaybeObject /\ nd \in MaybeObject
  /\ watch \in Seq(MaybeObject)
  /\ outcome \in Reasons
  /\ edits \in Nat
  /\ pc # "idle" => nd \in Object

(***************************************************************************)
(* The worker's object with a new status.                                  *)
(***************************************************************************)
LEMMA WithStatus ==
  ASSUME NEW o \in Object
  PROVE  /\ \A l \in LogState :
              LET p == [o EXCEPT !.log = l]
              IN /\ p \in Object /\ p.uid = o.uid /\ p.generation = o.generation
                 /\ p.spec = o.spec /\ p.log = l /\ p.packet = o.packet
         /\ \A s \in PacketState :
              LET p == [o EXCEPT !.packet = s]
              IN /\ p \in Object /\ p.uid = o.uid /\ p.generation = o.generation
                 /\ p.spec = o.spec /\ p.log = o.log /\ p.packet = s
BY DEF Object

(***************************************************************************)
(* A status patch changes nothing but the status of the server's object,   *)
(* and its answer brings the worker the server's generation and spec.      *)
(***************************************************************************)
LEMMA PatchFacts ==
  ASSUME cr \in Object, NEW o \in Object
  PROVE  /\ Patched(o) \in Object
         /\ Patched(o).uid = cr.uid /\ Patched(o).generation = cr.generation
         /\ Patched(o).spec = cr.spec
         /\ Patched(o).log = o.log /\ Patched(o).packet = o.packet
         /\ Decoded(o) \in Object
         /\ Decoded(o).uid = cr.uid /\ Decoded(o).generation = cr.generation
         /\ Decoded(o).log = o.log /\ Decoded(o).packet = o.packet
         /\ Decoded(o).spec.packet \in {cr.spec.packet, o.spec.packet}
         /\ Decoded(o).spec.packet # cr.spec.packet => cr.spec.packet = Nothing
         /\ o.spec.packet # Nothing => Decoded(o).spec.packet # Nothing
         /\ o.spec = cr.spec => Decoded(o).spec = cr.spec
<1>1. /\ Patched(o) \in Object
      /\ Patched(o).uid = cr.uid /\ Patched(o).generation = cr.generation
      /\ Patched(o).spec = cr.spec
      /\ Patched(o).log = o.log /\ Patched(o).packet = o.packet
  BY DEF Object, Patched
<1> DEFINE s == [log    |-> IF cr.spec.log = Nothing THEN o.spec.log ELSE cr.spec.log,
                 packet |-> IF cr.spec.packet = Nothing THEN o.spec.packet ELSE cr.spec.packet]
<1>2. Decoded(o) = [Patched(o) EXCEPT !.spec = s]
  BY DEF Decoded
<1>3. cr.spec \in NodeDiagnosticSpec /\ o.spec \in NodeDiagnosticSpec
  BY DEF Object
<1>4. s \in NodeDiagnosticSpec
  BY <1>3 DEF NodeDiagnosticSpec
<1>5. /\ s.packet \in {cr.spec.packet, o.spec.packet}
      /\ s.packet # cr.spec.packet => cr.spec.packet = Nothing
      /\ o.spec.packet # Nothing => s.packet # Nothing
  OBVIOUS
<1>6. o.spec = cr.spec => s = cr.spec
  BY <1>3 DEF NodeDiagnosticSpec
<1> HIDE DEF s
<1>7. /\ Decoded(o) \in Object /\ Decoded(o).spec = s
      /\ Decoded(o).uid = cr.uid /\ Decoded(o).generation = cr.generation
      /\ Decoded(o).log = o.log /\ Decoded(o).packet = o.packet
  BY <1>1, <1>2, <1>4 DEF Object
<1>8. QED
  BY <1>1, <1>5, <1>6, <1>7

(***************************************************************************)
(* What a patch of the status leaves behind, whether it succeeds or fails  *)
(* on the way there or back.                                               *)
(***************************************************************************)
LEMMA WriteFacts ==
  ASSUME ObjectsTyped, NEW o \in Object, StatusPatch(o) \/ StatusPatchFails(o)
  PROVE  /\ asked' = asked
         /\ cr' \in MaybeObject /\ nd' \in Object /\ watch' \in Seq(MaybeObject)
         /\ \/ UNCHANGED <<cr, watch>> /\ nd' = o
            \/ /\ cr # Nothing /\ cr \in Object
               /\ cr' = Patched(o) /\ watch' = Append(watch, cr')
               /\ nd' \in {o, Decoded(o)}
         /\ StatusPatch(o) => /\ cr # Nothing /\ cr \in Object
                              /\ cr' = Patched(o) /\ nd' = Decoded(o)
<1>1. cr # Nothing => cr \in Object
  BY DEF ObjectsTyped, MaybeObject
<1>2. asked' = asked
  BY DEF StatusPatch, StatusPatchFails
<1>3. \/ UNCHANGED <<cr, watch>> /\ nd' = o
      \/ /\ cr # Nothing
         /\ cr' = Patched(o) /\ watch' = Append(watch, cr')
         /\ nd' \in {o, Decoded(o)}
  BY DEF StatusPatch, StatusPatchFails, ServerApplies, Publish
<1>4. StatusPatch(o) => cr # Nothing /\ cr' = Patched(o) /\ nd' = Decoded(o)
  BY DEF StatusPatch, ServerApplies, Publish
<1>5. cr' \in MaybeObject /\ nd' \in Object /\ watch' \in Seq(MaybeObject)
  <2>1. CASE UNCHANGED <<cr, watch>> /\ nd' = o
    BY <2>1 DEF ObjectsTyped
  <2>2. CASE cr # Nothing /\ cr' = Patched(o) /\ watch' = Append(watch, cr')
             /\ nd' \in {o, Decoded(o)}
    <3>1. cr' \in Object /\ nd' \in Object
      BY <1>1, <2>2, PatchFacts
    <3>2. cr' \in MaybeObject
      BY <3>1 DEF MaybeObject
    <3>3. QED
      BY <2>2, <3>1, <3>2, AppendProperties DEF ObjectsTyped
  <2>3. QED
    BY <1>3, <2>1, <2>2
<1>6. QED
  BY <1>1, <1>2, <1>3, <1>4, <1>5

\* The worker's steps that patch the status.
Writes ==
  LogRunning \/ LogCompleted \/ PacketReject \/ PacketRunningPatch \/ PacketCompletedPatch

(***************************************************************************)
(* Every patch of the worker carries its own object with a new status.     *)
(***************************************************************************)
LEMMA WorkerWrites ==
  ASSUME ObjectsTyped, Writes
  PROVE  \E o \in Object :
           /\ o.uid = nd.uid /\ o.generation = nd.generation /\ o.spec = nd.spec
           /\ StatusPatch(o) \/ StatusPatchFails(o)
           /\ pc # "idle"
           /\ UNCHANGED <<cache, cancelEvents, outcome, edits, cancelled>>
<1>1. pc # "idle"
  BY DEF Writes, LogRunning, LogCompleted, PacketReject, PacketRunningPatch,
     PacketCompletedPatch
<1>2. nd \in Object /\ nd.generation \in Nat /\ outcome \in Reasons
  BY <1>1 DEF ObjectsTyped, Object
<1>3. UNCHANGED <<cache, cancelEvents, outcome, edits, cancelled>>
  BY DEF Writes, LogRunning, LogCompleted, PacketReject, PacketRunningPatch,
     PacketCompletedPatch, FinalPatch, informerVars, countVars, packetVars
<1>4. CASE LogRunning \/ LogCompleted
  <2>1. "Running" \in LogState /\ outcome \in LogState
    BY <1>2 DEF LogState
  <2>2. \E l \in LogState : LET o == [nd EXCEPT !.log = l]
                           IN StatusPatch(o) \/ StatusPatchFails(o)
    BY <1>4, <2>1 DEF LogRunning, LogCompleted
  <2>3. QED
    BY <1>1, <1>2, <1>3, <2>2, WithStatus
<1>5. CASE PacketReject \/ PacketRunningPatch \/ PacketCompletedPatch
  <2>1. /\ PacketRunning \in PacketState
        /\ PacketCompleted("Failure", nd.generation) \in PacketState
        /\ PacketCompleted(outcome, ObservedGeneration) \in PacketState
    BY <1>2 DEF PacketState, PacketRunning, PacketCompleted, ObservedGeneration, Reasons
  <2>2. \E s \in PacketState : LET o == [nd EXCEPT !.packet = s]
                              IN StatusPatch(o) \/ StatusPatchFails(o)
    BY <1>5, <2>1 DEF PacketReject, PacketRunningPatch, PacketCompletedPatch, FinalPatch
  <2>3. QED
    BY <1>1, <1>2, <1>3, <2>2, WithStatus
<1>6. QED
  BY <1>4, <1>5 DEF Writes

\* The worker's steps that leave the objects alone.
Works ==
  \/ CollectStart \/ CollectDone \/ CollectTimeout \/ DeliverLogs
  \/ HandlePacketCapture \/ StoreCancelFunc \/ CaptureReturns

(***************************************************************************)
(* What those steps may change.                                            *)
(***************************************************************************)
LEMMA WorkFacts ==
  ASSUME ObjectsTyped, Works
  PROVE  /\ UNCHANGED <<cr, watch, cache, nd, asked, edits, logErr, cancelEvents>>
         /\ outcome' \in Reasons /\ pc # "idle"
BY DEF ObjectsTyped, Works, CollectStart, CollectDone, CollectTimeout, DeliverLogs, LogFails,
   HandlePacketCapture, StoreCancelFunc, CaptureReturns, apiVars, informerVars, countVars,
   Reasons

(***************************************************************************)
(* The objects in hand are typed, and each is a request a user made: the   *)
(* generation and the packet capture the worker acts on belong together,   *)
(* or the generation asks for none.                                        *)
(***************************************************************************)
Requested(o, requests) == o # Nothing => Request(o) \in requests

RequestInv ==
  /\ ObjectsTyped
  /\ Requested(cr, asked) /\ Requested(cache, asked)
  /\ \A i \in 1..Len(watch) : Requested(watch[i], asked)
  /\ pc # "idle" => \/ <<nd.uid, nd.generation, nd.spec.packet>> \in asked
                    \/ <<nd.uid, nd.generation, Nothing>> \in asked

(***************************************************************************)
(* Users create, change and delete the object.                             *)
(***************************************************************************)
LEMMA UserRequests ==
  ASSUME RequestInv, Users
  PROVE  RequestInv'
<1>1. /\ UNCHANGED <<cache, nd, pc, outcome>> /\ asked \subseteq asked'
      /\ watch' = Append(watch, cr')
      /\ Requested(cr', asked')
  BY DEF Users, Create, Update, Delete, Publish, Requested, informerVars, workerVars
<1>2. cr' \in MaybeObject /\ edits' \in Nat
  <2>1. ASSUME NEW s \in NodeDiagnosticSpec, Create(s) PROVE cr' \in Object /\ edits' \in Nat
    <3>1. edits \in Nat /\ edits' = edits + 1
      BY <2>1 DEF RequestInv, ObjectsTyped, Create
    <3>2. PacketUnset \in PacketState /\ "Unset" \in LogState
      BY DEF PacketUnset, PacketState, LogState
    <3>3. QED
      BY <2>1, <3>1, <3>2 DEF Create, Publish, Object
  <2>2. ASSUME NEW s \in NodeDiagnosticSpec, Update(s) PROVE cr' \in Object /\ edits' \in Nat
    <3>1. cr \in Object
      BY <2>2 DEF Update, RequestInv, ObjectsTyped, MaybeObject
    <3>2. /\ cr' = [cr EXCEPT !.spec = s, !.generation = cr.generation + 1]
          /\ edits' = edits + 1 /\ edits \in Nat
      BY <2>2 DEF Update, Publish, RequestInv, ObjectsTyped
    <3>3. cr' \in Object
      <4> DEFINE g == cr.generation + 1
      <4>1. g \in Nat
        BY <3>1 DEF Object
      <4>2. cr' = [cr EXCEPT !.spec = s, !.generation = g]
        BY <3>2
      <4> HIDE DEF g
      <4>3. QED
        BY <3>1, <4>1, <4>2 DEF Object
    <3>4. QED
      BY <3>2, <3>3
  <2>3. QED
    BY <2>1, <2>2 DEF Users, Delete, Publish, MaybeObject, countVars, RequestInv, ObjectsTyped
<1>3. ObjectsTyped'
  BY <1>1, <1>2, AppendProperties DEF RequestInv, ObjectsTyped
<1>4. \A i \in 1..Len(watch') : Requested(watch'[i], asked')
  <2>1. /\ Len(watch') = Len(watch) + 1 /\ Len(watch) \in Nat
        /\ \A i \in 1..Len(watch) : watch'[i] = watch[i]
        /\ watch'[Len(watch) + 1] = cr'
    BY <1>1, <1>2, AppendProperties, LenProperties DEF RequestInv, ObjectsTyped
  <2>2. \A i \in 1..Len(watch) : Requested(watch[i], asked')
    BY <1>1 DEF RequestInv, Requested
  <2>3. QED
    BY <1>1, <2>1, <2>2
<1>5. QED
  BY <1>1, <1>3, <1>4 DEF RequestInv, Requested

(***************************************************************************)
(* The worker patches the status.                                          *)
(***************************************************************************)
LEMMA WriteRequests ==
  ASSUME RequestInv, Writes
  PROVE  RequestInv'
<1>1. ObjectsTyped
  BY DEF RequestInv
<1>2. PICK o \in Object :
        /\ o.uid = nd.uid /\ o.generation = nd.generation /\ o.spec = nd.spec
        /\ StatusPatch(o) \/ StatusPatchFails(o)
        /\ pc # "idle"
        /\ UNCHANGED <<cache, cancelEvents, outcome, edits, cancelled>>
  BY <1>1, WorkerWrites
<1>3. /\ asked' = asked
      /\ cr' \in MaybeObject /\ nd' \in Object /\ watch' \in Seq(MaybeObject)
      /\ \/ UNCHANGED <<cr, watch>> /\ nd' = o
         \/ /\ cr # Nothing /\ cr \in Object
            /\ cr' = Patched(o) /\ watch' = Append(watch, cr')
            /\ nd' \in {o, Decoded(o)}
  BY <1>1, <1>2, WriteFacts
<1>4. ObjectsTyped'
  BY <1>1, <1>2, <1>3 DEF ObjectsTyped, MaybeObject
<1>5. \/ <<o.uid, o.generation, o.spec.packet>> \in asked
      \/ <<o.uid, o.generation, Nothing>> \in asked
  BY <1>2 DEF RequestInv
<1>6. CASE UNCHANGED <<cr, watch>> /\ nd' = o
  BY <1>2, <1>3, <1>4, <1>5, <1>6 DEF RequestInv, Requested, Request
<1>7. CASE /\ cr # Nothing /\ cr \in Object
           /\ cr' = Patched(o) /\ watch' = Append(watch, cr')
           /\ nd' \in {o, Decoded(o)}
  <2>1. Request(cr) \in asked
    BY <1>7 DEF RequestInv, Requested
  <2>2. Request(cr') = Request(cr)
    BY <1>7, PatchFacts DEF Request
  <2>3. \/ <<nd'.uid, nd'.generation, nd'.spec.packet>> \in asked
        \/ <<nd'.uid, nd'.generation, Nothing>> \in asked
    <3>1. CASE nd' = o
      BY <1>5, <3>1
    <3>2. CASE nd' = Decoded(o)
      BY <1>7, <2>1, <3>2, PatchFacts DEF Request
    <3>3. QED
      BY <1>7, <3>1, <3>2
  <2>4. /\ Len(watch') = Len(watch) + 1 /\ Len(watch) \in Nat
        /\ \A i \in 1..Len(watch) : watch'[i] = watch[i]
        /\ watch'[Len(watch) + 1] = cr'
    BY <1>1, <1>3, <1>7, AppendProperties, LenProperties DEF ObjectsTyped
  <2>5. \A i \in 1..Len(watch') : Requested(watch'[i], asked')
    BY <1>3, <2>1, <2>2, <2>4 DEF RequestInv, Requested
  <2>6. QED
    BY <1>2, <1>3, <1>4, <2>1, <2>2, <2>3, <2>5 DEF RequestInv, Requested, Request
<1>8. QED
  BY <1>3, <1>6, <1>7

(***************************************************************************)
(* Every other step hands on objects that were there before.               *)
(***************************************************************************)
LEMMA OtherRequests ==
  ASSUME RequestInv,
         \/ Observe \/ HandleEvent \/ Reconcile \/ Works \/ Goroutines \/ Restart
         \/ UNCHANGED diagVars
  PROVE  RequestInv'
<1>0. ObjectsTyped
  BY DEF RequestInv
<1>1. CASE Observe
  <2>1. /\ watch # <<>> /\ watch \in Seq(MaybeObject)
        /\ watch' = Tail(watch) /\ cache' = Head(watch)
        /\ UNCHANGED <<cr, nd, asked, outcome, edits, pc>>
    BY <1>0, <1>1 DEF Observe, ObjectsTyped, workerVars, countVars
  <2>2. /\ Head(watch) \in MaybeObject /\ Tail(watch) \in Seq(MaybeObject)
        /\ Len(Tail(watch)) = Len(watch) - 1 /\ Len(watch) \in Nat
        /\ \A i \in 1..Len(Tail(watch)) : Tail(watch)[i] = watch[i + 1]
    BY <2>1, HeadTailProperties, LenProperties
  <2>3. Head(watch) = watch[1] /\ 1 \in 1..Len(watch)
    BY <2>1, EmptySeq
  <2>4. ObjectsTyped'
    BY <1>0, <2>1, <2>2 DEF ObjectsTyped
  <2>5. Requested(cache', asked')
    BY <2>1, <2>3 DEF RequestInv, Requested, Request
  <2>6. \A i \in 1..Len(watch') : Requested(watch'[i], asked')
    BY <2>1, <2>2 DEF RequestInv, Requested, Request
  <2>7. QED
    BY <2>1, <2>4, <2>5, <2>6 DEF RequestInv, Requested, Request
<1>2. CASE Reconcile
  <2>1. /\ UNCHANGED <<cr, watch, cache, asked, outcome, edits>> /\ nd' = cache
        /\ pc' # "idle" => cache # Nothing
    BY <1>2 DEF Reconcile, Goto, apiVars, countVars
  <2>2. ObjectsTyped'
    BY <1>0, <2>1 DEF ObjectsTyped, MaybeObject
  <2>3. pc' # "idle" => <<nd'.uid, nd'.generation, nd'.spec.packet>> \in asked
    BY <2>1 DEF RequestInv, Requested, Request
  <2>4. QED
    BY <2>1, <2>2, <2>3 DEF RequestInv, Requested, Request
<1>3. CASE Works
  BY <1>0, <1>3, WorkFacts DEF RequestInv, ObjectsTyped, Requested, Request
<1>4. CASE HandleEvent \/ Goroutines \/ UNCHANGED diagVars
  <2>1. UNCHANGED <<cr, watch, cache, nd, asked, edits, outcome, pc>>
    BY <1>4 DEF HandleEvent, Goroutines, CollectReturn, AbandonedReturn, DeleteFile, diagVars,
       apiVars, informerVars, workerVars, countVars
  <2>2. QED
    BY <2>1 DEF RequestInv, ObjectsTyped, Requested, Request
<1>5. CASE Restart
  <2>1. /\ cache' = cr /\ watch' = <<>> /\ pc' = "idle" /\ outcome' = "Failure"
        /\ nd' = Nothing /\ UNCHANGED <<cr, asked, edits>>
    BY <1>5 DEF Restart
  <2>2. watch' \in Seq(MaybeObject) /\ Len(watch') = 0
    BY <2>1, EmptySeq
  <2>3. ObjectsTyped'
    BY <1>0, <2>1, <2>2 DEF ObjectsTyped, MaybeObject, Reasons
  <2>4. QED
    BY <2>1, <2>2, <2>3 DEF RequestInv, Requested, Request
<1>6. QED
  BY <1>1, <1>2, <1>3, <1>4, <1>5

\* Every step of the controller keeps RequestInv.
LEMMA RequestNext == RequestInv /\ [DiagNext]_diagVars => RequestInv'
BY UserRequests, WriteRequests, OtherRequests DEF DiagNext, handleLogCapture,
   handlePacketCapture, Writes, Works

\* The controller starts with RequestInv.
LEMMA RequestInit == DiagInit => RequestInv
<1> SUFFICES ASSUME DiagInit PROVE RequestInv
  OBVIOUS
<1>1. watch \in Seq(MaybeObject) /\ Len(watch) = 0
  BY EmptySeq DEF DiagInit
<1>2. ObjectsTyped
  BY <1>1 DEF DiagInit, ObjectsTyped, MaybeObject, Reasons
<1>3. QED
  BY <1>1, <1>2 DEF DiagInit, RequestInv, Requested

-----------------------------------------------------------------------------
(* Results *)

(***************************************************************************)
(* What an object says of a successful capture is true of the object, for  *)
(* the requests a, the captures c and the misdirected objects m so far.    *)
(***************************************************************************)
Backed(u, g, a, c) ==
  \E d \in Durations : <<u, g, d>> \in c /\ (<<u, g, d>> \in a \/ <<u, g, Nothing>> \in a)
Honest(o, a, c, m) ==
  o # Nothing /\ o.packet.state = "Success" /\ o.uid \notin m =>
    Backed(o.uid, o.packet.generation, a, c)

\* It stays true as the histories grow.
LEMMA HonestGrows ==
  ASSUME NEW a, NEW c, NEW m, NEW a2, NEW c2, NEW m2,
         a \subseteq a2, c \subseteq c2, m \subseteq m2,
         NEW o, Honest(o, a, c, m)
  PROVE  Honest(o, a2, c2, m2)
<1>1. ASSUME NEW u, NEW g, Backed(u, g, a, c) PROVE Backed(u, g, a2, c2)
  BY <1>1 DEF Backed
<1>2. QED
  BY <1>1 DEF Honest

\* The worker is past the checks of a packet capture.
CapturePhases == {"packetReject", "packetRunning", "store", "capturing", "packetCompleted"}

(***************************************************************************)
(* Every version of the object is honest, the worker's included, and a     *)
(* success it is about to write is that of a capture of its object.        *)
(***************************************************************************)
ResultInv ==
  /\ RequestInv
  /\ Honest(cr, asked, captured, misdirected)
  /\ Honest(cache, asked, captured, misdirected)
  /\ Honest(nd, asked, captured, misdirected)
  /\ \A i \in 1..Len(watch) : Honest(watch[i], asked, captured, misdirected)
  /\ pc \in CapturePhases => nd.spec.packet # Nothing
  /\ pc = "packetCompleted" /\ outcome = "Success" => Request(nd) \in captured

(***************************************************************************)
(* A new version at the end of the watch, while the histories grow.        *)
(***************************************************************************)
LEMMA HonestWatch ==
  ASSUME ResultInv, asked \subseteq asked', captured \subseteq captured',
         misdirected \subseteq misdirected',
         cr' \in MaybeObject, Honest(cr, asked, captured, misdirected)',
         \/ UNCHANGED watch
         \/ watch' = Append(watch, cr')
  PROVE  \A i \in 1..Len(watch') : Honest(watch'[i], asked', captured', misdirected')
<1>1. \A i \in 1..Len(watch) : Honest(watch[i], asked', captured', misdirected')
  BY HonestGrows DEF ResultInv
<1>2. CASE watch' = Append(watch, cr')
  <2>1. /\ Len(watch') = Len(watch) + 1 /\ Len(watch) \in Nat
        /\ \A i \in 1..Len(watch) : watch'[i] = watch[i]
        /\ watch'[Len(watch) + 1] = cr'
    BY <1>2, AppendProperties, LenProperties DEF ResultInv, RequestInv, ObjectsTyped
  <2>2. QED
    BY <1>1, <2>1
<1>3. QED
  BY <1>1, <1>2

(***************************************************************************)
(* Users create, change and delete the object.                             *)
(***************************************************************************)
LEMMA UserResults ==
  ASSUME ResultInv, RequestInv', Users
  PROVE  ResultInv'
<1>1. /\ UNCHANGED <<cache, nd, pc, outcome, captured, misdirected>> /\ asked \subseteq asked'
      /\ watch' = Append(watch, cr') /\ cr' \in MaybeObject
  BY DEF Users, Create, Update, Delete, Publish, informerVars, workerVars, RequestInv, ObjectsTyped
<1>2. Honest(cr, asked, captured, misdirected)'
  <2>1. ASSUME NEW s \in NodeDiagnosticSpec, Create(s) PROVE cr'.packet.state # "Success"
    BY <2>1 DEF Create, Publish, PacketUnset
  <2>2. ASSUME NEW s \in NodeDiagnosticSpec, Update(s)
        PROVE  cr # Nothing /\ cr'.packet = cr.packet /\ cr'.uid = cr.uid
    <3>1. cr \in Object /\ cr # Nothing
      BY <2>2 DEF Update, ResultInv, RequestInv, ObjectsTyped, MaybeObject
    <3> DEFINE g == cr.generation + 1
    <3>2. cr' = [cr EXCEPT !.spec = s, !.generation = g]
      BY <2>2 DEF Update, Publish
    <3> HIDE DEF g
    <3>3. QED
      BY <3>1, <3>2 DEF Object
  <2>3. Delete => cr' = Nothing
    BY DEF Delete, Publish
  <2>4. Honest(cr, asked', captured', misdirected')
    BY <1>1, HonestGrows DEF ResultInv
  <2>5. QED
    BY <2>1, <2>2, <2>3, <2>4 DEF Users, Honest
<1>3. Honest(cache, asked, captured, misdirected)' /\ Honest(nd, asked, captured, misdirected)'
  <2>1. Honest(cache, asked', captured', misdirected') /\ Honest(nd, asked', captured', misdirected')
    BY <1>1, HonestGrows DEF ResultInv
  <2>2. QED
    BY <1>1, <2>1 DEF Honest
<1>4. (\A i \in 1..Len(watch) : Honest(watch[i], asked, captured, misdirected))'
  BY <1>1, <1>2, HonestWatch
<1>5. QED
  BY <1>1, <1>2, <1>3, <1>4 DEF ResultInv, Request

(***************************************************************************)
(* What the worker writes is honest.                                       *)
(***************************************************************************)
LEMMA HonestWrites ==
  ASSUME ResultInv, Writes
  PROVE  \E o \in Object :
           /\ Honest(o, asked, captured, misdirected)
           /\ StatusPatch(o) \/ StatusPatchFails(o)
           /\ UNCHANGED <<cache, captured>>
           /\ pc' \in CapturePhases => /\ pc' = "store" /\ StatusPatch(o)
                                       /\ o.spec.packet # Nothing
<1>1. nd \in Object /\ pc # "idle" /\ nd.generation \in Nat /\ outcome \in Reasons
  BY DEF ResultInv, RequestInv, ObjectsTyped, Object, Writes, LogRunning, LogCompleted,
     PacketReject, PacketRunningPatch, PacketCompletedPatch
<1>2. Honest(nd, asked, captured, misdirected) /\ nd # Nothing
  BY <1>1, NothingAssumption DEF ResultInv
<1>3. UNCHANGED <<cache, captured>>
  BY DEF Writes, LogRunning, LogCompleted, PacketReject, PacketRunningPatch,
     PacketCompletedPatch, FinalPatch, informerVars
<1>4. CASE LogRunning \/ LogCompleted
  <2>1. "Running" \in LogState /\ outcome \in LogState
    BY <1>1 DEF LogState
  <2>2. PICK l \in LogState : LET o == [nd EXCEPT !.log = l]
                             IN StatusPatch(o) \/ StatusPatchFails(o)
    BY <1>4, <2>1 DEF LogRunning, LogCompleted
  <2> DEFINE o == [nd EXCEPT !.log = l]
  <2>3. o \in Object /\ o.uid = nd.uid /\ o.packet = nd.packet
    BY <1>1, WithStatus
  <2>4. pc' \notin CapturePhases
    BY <1>4 DEF LogRunning, LogCompleted, Goto, CapturePhases
  <2> HIDE DEF o
  <2>5. Honest(o, asked, captured, misdirected)
    BY <1>2, <2>3 DEF Honest
  <2>6. QED
    BY <1>3, <2>2, <2>3, <2>4, <2>5 DEF o
<1>5. CASE PacketRunningPatch
  <2> DEFINE o == [nd EXCEPT !.packet = PacketRunning]
  <2>1. PacketRunning \in PacketState /\ PacketRunning.state # "Success"
    BY DEF PacketRunning, PacketState
  <2>2. o \in Object /\ o.packet = PacketRunning /\ o.spec = nd.spec
    BY <1>1, <2>1, WithStatus
  <2>3. /\ StatusPatch(o) \/ StatusPatchFails(o)
        /\ pc' \in CapturePhases => pc' = "store" /\ StatusPatch(o)
    BY <1>5 DEF PacketRunningPatch, Goto, Finish, CapturePhases
  <2>4. nd.spec.packet # Nothing
    BY <1>5 DEF PacketRunningPatch, ResultInv, CapturePhases
  <2> HIDE DEF o
  <2>5. QED
    BY <1>3, <2>1, <2>2, <2>3, <2>4 DEF Honest
<1>6. CASE PacketReject \/ PacketCompletedPatch
  <2>1. PICK reason \in Reasons :
          /\ FinalPatch([nd EXCEPT !.packet = PacketCompleted(reason, nd.generation)])
          /\ reason = "Success" => Request(nd) \in captured /\ pc = "packetCompleted"
    BY <1>1, <1>6 DEF PacketReject, PacketCompletedPatch, ObservedGeneration, Reasons, ResultInv
  <2> DEFINE q == PacketCompleted(reason, nd.generation)
             o == [nd EXCEPT !.packet = q]
  <2>2. q \in PacketState /\ q.state = reason /\ q.generation = nd.generation
    BY <1>1, <2>1 DEF PacketCompleted, PacketState
  <2>3. /\ StatusPatch(o) \/ StatusPatchFails(o)
        /\ pc' \notin CapturePhases
    BY <2>1 DEF FinalPatch, Finish, Goto, CapturePhases
  <2> HIDE DEF q
  <2>4. o \in Object /\ o.packet = q /\ o.uid = nd.uid
    BY <1>1, <2>2, WithStatus
  <2> HIDE DEF o
  <2>5. ASSUME reason = "Success" PROVE Backed(nd.uid, nd.generation, asked, captured)
    <3>1. <<nd.uid, nd.generation, nd.spec.packet>> \in captured
      BY <2>1, <2>5 DEF Request
    <3>2. nd.spec.packet \in Durations
      <4>1. nd.spec.packet # Nothing
        BY <2>1, <2>5 DEF ResultInv, CapturePhases
      <4>2. nd.spec \in NodeDiagnosticSpec
        BY <1>1 DEF Object
      <4>3. QED
        BY <4>1, <4>2 DEF NodeDiagnosticSpec
    <3>3. \/ <<nd.uid, nd.generation, nd.spec.packet>> \in asked
          \/ <<nd.uid, nd.generation, Nothing>> \in asked
      BY <1>1 DEF ResultInv, RequestInv
    <3>4. QED
      BY <3>1, <3>2, <3>3 DEF Backed
  <2>6. Honest(o, asked, captured, misdirected)
    BY <2>2, <2>4, <2>5 DEF Honest
  <2>7. QED
    BY <1>3, <2>3, <2>4, <2>6
<1>7. QED
  BY <1>4, <1>5, <1>6 DEF Writes

(***************************************************************************)
(* The worker patches the status, of its own object or of another one.     *)
(***************************************************************************)
LEMMA WriteResults ==
  ASSUME ResultInv, RequestInv', Writes
  PROVE  ResultInv'
<1>1. PICK o \in Object :
        /\ Honest(o, asked, captured, misdirected)
        /\ StatusPatch(o) \/ StatusPatchFails(o)
        /\ UNCHANGED <<cache, captured>>
        /\ pc' \in CapturePhases => /\ pc' = "store" /\ StatusPatch(o)
                                    /\ o.spec.packet # Nothing
  BY HonestWrites
<1>2. ObjectsTyped
  BY DEF ResultInv, RequestInv
<1>3. /\ asked' = asked
      /\ cr' \in MaybeObject /\ nd' \in Object
      /\ StatusPatch(o) => cr \in Object /\ nd' = Decoded(o)
  BY <1>1, <1>2, WriteFacts
<1>4. \/ UNCHANGED <<cr, watch, misdirected>> /\ nd' = o
      \/ /\ cr # Nothing /\ cr \in Object
         /\ cr' = Patched(o) /\ watch' = Append(watch, cr')
         /\ nd' \in {o, Decoded(o)}
         /\ misdirected' = IF o.uid = cr.uid THEN misdirected ELSE misdirected \cup {cr.uid}
  BY <1>1, <1>2 DEF StatusPatch, StatusPatchFails, ServerApplies, Publish, ObjectsTyped, MaybeObject
<1>5. misdirected \subseteq misdirected'
  BY <1>4
<1>6. Honest(o, asked', captured', misdirected')
  BY <1>1, <1>3, <1>5, HonestGrows
<1>7. Honest(cr, asked, captured, misdirected)' /\ Honest(nd, asked, captured, misdirected)'
  <2>1. CASE UNCHANGED <<cr, watch, misdirected>> /\ nd' = o
    BY <1>1, <1>3, <1>6, <2>1 DEF ResultInv
  <2>2. CASE /\ cr # Nothing /\ cr \in Object
             /\ cr' = Patched(o) /\ nd' \in {o, Decoded(o)}
             /\ misdirected' = IF o.uid = cr.uid THEN misdirected ELSE misdirected \cup {cr.uid}
    <3>1. /\ cr'.uid = cr.uid /\ cr'.packet = o.packet
          /\ nd' = o \/ (nd'.uid = cr.uid /\ nd'.packet = o.packet)
      BY <2>2, PatchFacts
    <3>2. o.uid = cr.uid \/ cr.uid \in misdirected'
      BY <2>2
    <3>3. o # Nothing
      BY NothingAssumption
    <3>4. QED
      BY <1>6, <3>1, <3>2, <3>3 DEF Honest
  <2>3. QED
    BY <1>4, <2>1, <2>2
<1>8. Honest(cache, asked, captured, misdirected)'
  <2>1. Honest(cache, asked', captured', misdirected')
    BY <1>1, <1>3, <1>5, HonestGrows DEF ResultInv
  <2>2. QED
    BY <1>1, <2>1
<1>9. (\A i \in 1..Len(watch) : Honest(watch[i], asked, captured, misdirected))'
  BY <1>1, <1>3, <1>4, <1>5, <1>7, HonestWatch
<1>10. pc' \in CapturePhases => nd'.spec.packet # Nothing
  BY <1>1, <1>3, PatchFacts
<1>11. pc' # "packetCompleted"
  BY <1>1 DEF CapturePhases
<1>12. QED
  BY <1>7, <1>8, <1>9, <1>10, <1>11 DEF ResultInv

(***************************************************************************)
(* Every other step hands on objects that were there before, and a capture *)
(* that succeeds is remembered.                                            *)
(***************************************************************************)
LEMMA OtherResults ==
  ASSUME ResultInv, RequestInv',
         \/ Observe \/ HandleEvent \/ Reconcile \/ Works \/ Goroutines \/ Restart
         \/ UNCHANGED diagVars
  PROVE  ResultInv'
<1>0. ObjectsTyped
  BY DEF ResultInv, RequestInv
<1>1. CASE Observe
  <2>1. /\ watch # <<>> /\ watch \in Seq(MaybeObject)
        /\ watch' = Tail(watch) /\ cache' = Head(watch)
        /\ UNCHANGED <<cr, nd, asked, captured, misdirected, outcome, pc>>
    BY <1>0, <1>1 DEF Observe, ObjectsTyped, workerVars
  <2>2. /\ Len(Tail(watch)) = Len(watch) - 1 /\ Len(watch) \in Nat
        /\ \A i \in 1..Len(Tail(watch)) : Tail(watch)[i] = watch[i + 1]
    BY <2>1, HeadTailProperties, LenProperties
  <2>3. Head(watch) = watch[1] /\ 1 \in 1..Len(watch)
    BY <2>1, EmptySeq
  <2>4. Honest(cache, asked, captured, misdirected)'
    BY <2>1, <2>3 DEF ResultInv
  <2>5. (\A i \in 1..Len(watch) : Honest(watch[i], asked, captured, misdirected))'
    BY <2>1, <2>2 DEF ResultInv
  <2>6. QED
    BY <2>1, <2>4, <2>5 DEF ResultInv, Request
<1>2. CASE Reconcile
  <2>1. /\ UNCHANGED <<cr, watch, cache, asked, captured, misdirected>> /\ nd' = cache
        /\ pc' \notin CapturePhases
    BY <1>2 DEF Reconcile, Goto, apiVars, CapturePhases
  <2>2. pc' # "packetCompleted"
    BY <2>1 DEF CapturePhases
  <2>3. QED
    BY <2>1, <2>2 DEF ResultInv
<1>3. CASE Works
  <2>1. UNCHANGED <<cr, watch, cache, nd, asked, misdirected>>
    BY <1>0, <1>3, WorkFacts DEF Works, CollectStart, CollectDone, CollectTimeout, DeliverLogs,
       HandlePacketCapture, StoreCancelFunc, CaptureReturns, apiVars
  <2>2. /\ captured \subseteq captured'
        /\ pc' \in CapturePhases => pc \in CapturePhases \/ nd.spec.packet # Nothing
        /\ pc' = "packetCompleted" /\ outcome' = "Success" => Request(nd) \in captured'
    BY <1>3 DEF Works, CollectStart, CollectDone, CollectTimeout, DeliverLogs, LogFails,
       HandlePacketCapture, StoreCancelFunc, CaptureReturns, Finish, Goto, CapturePhases
  <2>3. /\ Honest(cr, asked', captured', misdirected') /\ Honest(cache, asked', captured', misdirected')
        /\ Honest(nd, asked', captured', misdirected')
        /\ \A i \in 1..Len(watch) : Honest(watch[i], asked', captured', misdirected')
    BY <2>1, <2>2, HonestGrows DEF ResultInv
  <2>4. QED
    BY <2>1, <2>2, <2>3 DEF ResultInv, Request
<1>4. CASE HandleEvent \/ Goroutines \/ UNCHANGED diagVars
  <2>1. UNCHANGED <<cr, watch, cache, nd, asked, captured, misdirected, outcome, pc>>
    BY <1>4 DEF HandleEvent, Goroutines, CollectReturn, AbandonedReturn, DeleteFile, diagVars,
       apiVars, informerVars, workerVars
  <2>2. QED
    BY <2>1 DEF ResultInv, Request
<1>5. CASE Restart
  <2>1. /\ cache' = cr /\ watch' = <<>> /\ pc' = "idle"
        /\ nd' = Nothing /\ UNCHANGED <<cr, asked, captured, misdirected>>
    BY <1>5 DEF Restart
  <2>2. Len(watch') = 0
    BY <2>1, EmptySeq
  <2>3. QED
    BY <2>1, <2>2 DEF ResultInv, Honest, CapturePhases
<1>6. QED
  BY <1>1, <1>2, <1>3, <1>4, <1>5

(***************************************************************************)
(* The object the API server holds is shown as successfully captured for a *)
(* generation only if a capture of this object succeeded with the packet   *)
(* spec of that generation, however the informer lags, the spec changes,   *)
(* the object is deleted and recreated, and patches fail -- but for an     *)
(* object on which a patch meant for its predecessor landed, as a merge    *)
(* patch carries no uid (ObservedGeneration of handlePacketCapture).       *)
(***************************************************************************)
THEOREM ResultsAreForTheirSpec == DiagSpec => []SuccessIsForItsSpec
<1>1. DiagInit => ResultInv
  <2> SUFFICES ASSUME DiagInit PROVE ResultInv
    OBVIOUS
  <2>1. RequestInv
    BY RequestInit
  <2>2. cr = Nothing /\ cache = Nothing /\ nd = Nothing /\ watch = <<>> /\ pc = "idle"
    BY DEF DiagInit
  <2>3. QED
    BY <2>1, <2>2, EmptySeq DEF ResultInv, Honest, CapturePhases
<1>2. ResultInv /\ [DiagNext]_diagVars => ResultInv'
  <2> SUFFICES ASSUME ResultInv, [DiagNext]_diagVars PROVE ResultInv'
    OBVIOUS
  <2>1. RequestInv'
    BY RequestNext DEF ResultInv
  <2>2. QED
    BY <2>1, UserResults, WriteResults, OtherResults DEF DiagNext, handleLogCapture,
       handlePacketCapture, Writes, Works
<1>3. ResultInv => SuccessIsForItsSpec
  BY DEF ResultInv, SuccessIsForItsSpec, Honest, Backed, CapturedFor
<1>4. QED
  BY <1>1, <1>2, <1>3, PTL DEF DiagSpec

-----------------------------------------------------------------------------
(* The versions on their way to the informer *)

\* The i-th version after the informer's copy c, which is version 0.
Version(c, w, i) == IF i = 0 THEN c ELSE w[i]

\* A change that queues the object when the informer sees it.
News(old, new) == (old = Nothing /\ new # Nothing) \/ GenerationChanged(old, new)

NewsAt(c, w, i) == News(Version(c, w, i - 1), Version(c, w, i))

Unseen(c, w) == \E i \in 1..Len(w) : NewsAt(c, w, i)

(***************************************************************************)
(* The last version is the server's object o, and a deletion is followed   *)
(* by news unless the object is still gone.                                *)
(***************************************************************************)
History(c, w, o) ==
  /\ Version(c, w, Len(w)) = o
  /\ \A i \in 0..Len(w) : Version(c, w, i) = Nothing =>
       o = Nothing \/ \E j \in (i + 1)..Len(w) : NewsAt(c, w, j)

\* The worker will look at the object again.
Pending == queued \/ Unseen(cache, watch)

PacketPhases ==
  {"packet", "packetReject", "packetRunning", "store", "capturing", "packetCompleted"}

\* What the object asks for has an answer.
Answered(o) ==
  /\ o.spec.log # Nothing => o.log \in Reasons
  /\ o.spec.packet # Nothing => CompletedFor(o)

(***************************************************************************)
(* Unless it will look at the object again, the worker acts on the object  *)
(* as the server holds it, and the log capture is answered by the time it  *)
(* turns to the packet capture; a capture is cancelled only if the worker  *)
(* comes back to the object or the object is gone.                         *)
(***************************************************************************)
WorkerCurrent ==
  cr # Nothing /\ ~Pending =>
    /\ pc = "idle" => Answered(cr)
    /\ pc # "idle" => /\ nd.generation = cr.generation
                      /\ nd.spec = cr.spec /\ nd.packet = cr.packet
    /\ pc \in PacketPhases /\ ~logErr /\ cr.spec.log # Nothing =>
         cr.log \in Reasons /\ nd.log \in Reasons

CancelledForGood ==
  cancelEvents > 0 \/ (pc = "capturing" /\ cancelled) => Pending \/ cr = Nothing

AnswerInv ==
  /\ RequestInv
  /\ History(cache, watch, cr)
  /\ WorkerCurrent
  /\ CancelledForGood

(***************************************************************************)
(* A new version o of the object p at the end of the watch.                *)
(***************************************************************************)
LEMMA PublishHistory ==
  ASSUME NEW c, NEW w \in Seq(MaybeObject), NEW p, NEW o \in MaybeObject, History(c, w, p)
  PROVE  /\ History(c, Append(w, o), o)
         /\ Unseen(c, w) \/ News(p, o) => Unseen(c, Append(w, o))
<1> DEFINE v == Append(w, o)
           n == Len(w)
<1>1. n \in Nat /\ Len(v) = n + 1 /\ v[n + 1] = o /\ \A i \in 1..n : v[i] = w[i]
  BY AppendProperties, LenProperties
<1> HIDE DEF v, n
<1>2. /\ \A i \in 0..n : Version(c, v, i) = Version(c, w, i)
      /\ Version(c, v, n + 1) = o
  BY <1>1 DEF Version
<1>3. \A i \in 1..n : NewsAt(c, v, i) <=> NewsAt(c, w, i)
  BY <1>1, <1>2 DEF NewsAt
<1>4. Version(c, w, n) = p
  BY DEF History, n
<1>5. NewsAt(c, v, n + 1) <=> News(p, o)
  BY <1>1, <1>2, <1>4 DEF NewsAt
<1>6. Unseen(c, w) \/ News(p, o) => Unseen(c, v)
  BY <1>1, <1>3, <1>5 DEF Unseen, n
<1>7. ASSUME NEW i \in 0..(n + 1), Version(c, v, i) = Nothing, o # Nothing
      PROVE  \E j \in (i + 1)..(n + 1) : NewsAt(c, v, j)
  <2>1. i \in 0..n
    BY <1>1, <1>2, <1>7
  <2>2. Version(c, w, i) = Nothing
    BY <1>2, <1>7, <2>1
  <2>3. CASE p = Nothing
    BY <1>1, <1>5, <1>7, <2>1, <2>3 DEF News
  <2>4. CASE p # Nothing
    <3>1. PICK j \in (i + 1)..n : NewsAt(c, w, j)
      BY <2>1, <2>2, <2>4 DEF History, n
    <3>2. NewsAt(c, v, j) /\ j \in (i + 1)..(n + 1)
      BY <1>1, <1>3, <2>1, <3>1
    <3>3. QED
      BY <3>2
  <2>5. QED
    BY <2>3, <2>4
<1>8. History(c, v, o)
  BY <1>1, <1>2, <1>7 DEF History
<1>9. QED
  BY <1>6, <1>8 DEF v

(***************************************************************************)
(* The informer takes the first version off the watch.                     *)
(***************************************************************************)
LEMMA ObserveHistory ==
  ASSUME NEW c, NEW w \in Seq(MaybeObject), w # <<>>, NEW o, History(c, w, o)
  PROVE  /\ History(Head(w), Tail(w), o)
         /\ Unseen(c, w) => News(c, Head(w)) \/ Unseen(Head(w), Tail(w))
         /\ Head(w) = Nothing => o = Nothing \/ Unseen(Head(w), Tail(w))
<1> DEFINE h == Head(w)
           v == Tail(w)
           n == Len(v)
<1>1. n \in Nat /\ Len(w) = n + 1 /\ h = w[1] /\ \A i \in 1..n : v[i] = w[i + 1]
  BY HeadTailProperties, LenProperties
<1> HIDE DEF h, v, n
<1>2. \A i \in 0..n : Version(h, v, i) = Version(c, w, i + 1)
  BY <1>1 DEF Version
<1>3. \A i \in 1..n : NewsAt(h, v, i) <=> NewsAt(c, w, i + 1)
  BY <1>1, <1>2 DEF NewsAt
<1>4. NewsAt(c, w, 1) <=> News(c, h)
  BY <1>1 DEF NewsAt, Version
<1>5. Unseen(c, w) => News(c, h) \/ Unseen(h, v)
  <2> SUFFICES ASSUME Unseen(c, w), ~News(c, h) PROVE Unseen(h, v)
    OBVIOUS
  <2>1. PICK i \in 1..(n + 1) : NewsAt(c, w, i)
    BY <1>1 DEF Unseen
  <2>2. i # 1
    BY <1>4, <2>1
  <2>3. i - 1 \in 1..n /\ (i - 1) + 1 = i
    BY <1>1, <2>1, <2>2
  <2>4. NewsAt(h, v, i - 1)
    BY <1>3, <2>1, <2>3
  <2>5. QED
    BY <2>3, <2>4 DEF Unseen, n
<1>6. ASSUME NEW i \in 0..n, Version(h, v, i) = Nothing, o # Nothing
      PROVE  \E j \in (i + 1)..n : NewsAt(h, v, j)
  <2>1. i + 1 \in 0..Len(w) /\ Version(c, w, i + 1) = Nothing
    BY <1>1, <1>2, <1>6
  <2>2. PICK j \in (i + 2)..(n + 1) : NewsAt(c, w, j)
    BY <1>1, <1>6, <2>1 DEF History
  <2>3. j - 1 \in (i + 1)..n /\ (j - 1) + 1 = j /\ j - 1 \in 1..n
    BY <1>1, <2>2
  <2>4. NewsAt(h, v, j - 1)
    BY <1>3, <2>2, <2>3
  <2>5. QED
    BY <2>3, <2>4
<1>7. Version(h, v, n) = o
  BY <1>1, <1>2 DEF History
<1>8. History(h, v, o)
  BY <1>6, <1>7 DEF History, n
<1>9. h = Nothing => o = Nothing \/ Unseen(h, v)
  <2> SUFFICES ASSUME h = Nothing, o # Nothing PROVE Unseen(h, v)
    OBVIOUS
  <2>1. Version(h, v, 0) = Nothing
    BY DEF Version
  <2>2. \E j \in 1..n : NewsAt(h, v, j)
    BY <1>1, <1>6, <2>1
  <2>3. QED
    BY <2>2 DEF Unseen, n
<1>10. QED
  BY <1>5, <1>8, <1>9 DEF h, v

(***************************************************************************)
(* With nothing on the way the informer's copy is the server's object.     *)
(***************************************************************************)
LEMMA NothingOnTheWay ==
  ASSUME NEW c, NEW o
  PROVE  /\ History(c, <<>>, o) => c = o
         /\ History(c, <<>>, c)
         /\ ~Unseen(c, <<>>)
<1>1. Len(<<>>) = 0
  BY EmptySeq
<1>2. QED
  BY <1>1 DEF History, Version, Unseen

-----------------------------------------------------------------------------
(* Nothing is left unanswered *)

(***************************************************************************)
(* A user's change is news to the worker.                                  *)
(***************************************************************************)
LEMMA UserNews ==
  ASSUME AnswerInv, RequestInv', Users
  PROVE  AnswerInv'
<1>1. /\ UNCHANGED <<cache, queued, cancelEvents>>
      /\ watch' = Append(watch, cr')
  BY DEF Users, Create, Update, Delete, Publish, informerVars
<1>2. watch \in Seq(MaybeObject) /\ cr' \in MaybeObject
  BY DEF AnswerInv, RequestInv, ObjectsTyped
<1>3. cr' # Nothing => News(cr, cr')
  <2>1. ASSUME NEW s \in NodeDiagnosticSpec, Create(s), cr' # Nothing PROVE News(cr, cr')
    BY <2>1 DEF Create, News
  <2>2. ASSUME NEW s \in NodeDiagnosticSpec, Update(s), cr' # Nothing PROVE News(cr, cr')
    <3>1. cr # Nothing /\ cr \in Object
      BY <2>2 DEF Update, AnswerInv, RequestInv, ObjectsTyped, MaybeObject
    <3>2. cr' = [cr EXCEPT !.spec = s, !.generation = cr.generation + 1]
      BY <2>2 DEF Update, Publish
    <3>3. cr.generation \in Nat /\ cr'.generation = cr.generation + 1
      BY <3>1, <3>2 DEF Object
    <3>4. QED
      BY <2>2, <3>1, <3>3 DEF News, GenerationChanged
  <2>3. QED
    BY <2>1, <2>2 DEF Users, Delete, Publish
<1>4. History(cache', watch', cr') /\ (cr' # Nothing => Unseen(cache', watch'))
  BY <1>1, <1>2, <1>3, PublishHistory DEF AnswerInv
<1>5. cr' = Nothing \/ Pending'
  BY <1>4 DEF Pending
<1>6. QED
  BY <1>4, <1>5 DEF AnswerInv, WorkerCurrent, CancelledForGood

(***************************************************************************)
(* A patch of the status keeps the news on its way, and the worker that    *)
(* acts on the server's object still does afterwards.                      *)
(***************************************************************************)
LEMMA WriteCurrent ==
  ASSUME AnswerInv, pc # "idle", UNCHANGED cache,
         NEW o \in Object, o.generation = nd.generation, o.spec = nd.spec,
         StatusPatch(o) \/ StatusPatchFails(o)
  PROVE  /\ History(cache', watch', cr')
         /\ Unseen(cache, watch) => Unseen(cache', watch')
         /\ cr = Nothing => cr' = Nothing
         /\ cr' # Nothing /\ ~Pending =>
              /\ nd'.generation = cr'.generation /\ nd'.spec = cr'.spec
              /\ nd'.packet = o.packet /\ nd'.log = o.log
              /\ cr'.spec = cr.spec /\ cr'.generation = cr.generation
              /\ cr' = cr \/ (cr'.packet = o.packet /\ cr'.log = o.log)
              /\ StatusPatch(o) => cr'.packet = o.packet /\ cr'.log = o.log
<1>1. ObjectsTyped
  BY DEF AnswerInv, RequestInv
<1>2. /\ cr' \in MaybeObject
      /\ \/ UNCHANGED <<cr, watch>> /\ nd' = o
         \/ /\ cr # Nothing /\ cr \in Object
            /\ cr' = Patched(o) /\ watch' = Append(watch, cr')
            /\ nd' \in {o, Decoded(o)}
      /\ StatusPatch(o) => cr # Nothing /\ cr \in Object /\ cr' = Patched(o)
  BY <1>1, WriteFacts
<1>3. History(cache', watch', cr') /\ (Unseen(cache, watch) => Unseen(cache', watch'))
  <2>1. watch \in Seq(MaybeObject) /\ History(cache, watch, cr)
    BY <1>1 DEF ObjectsTyped, AnswerInv
  <2>2. CASE UNCHANGED <<cr, watch>>
    BY <2>1, <2>2
  <2>3. CASE watch' = Append(watch, cr')
    BY <1>2, <2>1, <2>3, PublishHistory
  <2>4. QED
    BY <1>2, <2>2, <2>3
<1>4. ASSUME cr' # Nothing, cr # Nothing, ~Pending
      PROVE  /\ nd'.generation = cr'.generation /\ nd'.spec = cr'.spec
             /\ nd'.packet = o.packet /\ nd'.log = o.log
             /\ cr'.spec = cr.spec /\ cr'.generation = cr.generation
             /\ cr' = cr \/ (cr'.packet = o.packet /\ cr'.log = o.log)
             /\ StatusPatch(o) => cr'.packet = o.packet /\ cr'.log = o.log
  <2>1. o.generation = cr.generation /\ o.spec = cr.spec
    BY <1>4 DEF AnswerInv, WorkerCurrent
  <2>2. CASE cr \in Object /\ cr' = Patched(o) /\ nd' \in {o, Decoded(o)}
    BY <2>1, <2>2, PatchFacts
  <2>3. CASE UNCHANGED <<cr, watch>> /\ nd' = o /\ ~StatusPatch(o)
    BY <2>1, <2>3
  <2>4. CASE UNCHANGED <<cr, watch>> /\ nd' = o /\ StatusPatch(o)
    BY <1>2, <2>1, <2>4, PatchFacts
  <2>5. QED
    BY <1>2, <2>2, <2>3, <2>4
<1>5. QED
  BY <1>2, <1>3, <1>4

(***************************************************************************)
(* handleLogCapture's patches: Running, then the result.                   *)
(***************************************************************************)
LEMMA LogAnswer ==
  ASSUME AnswerInv, RequestInv', LogRunning \/ LogCompleted
  PROVE  AnswerInv'
<1>1. nd \in Object /\ outcome \in Reasons /\ pc \notin PacketPhases \cup {"idle"}
  BY DEF AnswerInv, RequestInv, ObjectsTyped, LogRunning, LogCompleted, PacketPhases
<1>2. PICK l \in LogState :
        /\ StatusPatch([nd EXCEPT !.log = l]) \/ StatusPatchFails([nd EXCEPT !.log = l])
        /\ \/ pc' = "collect"
           \/ pc' = "packet" /\ logErr'
           \/ pc' = "packet" /\ l \in Reasons /\ StatusPatch([nd EXCEPT !.log = l])
  <2>1. "Running" \in LogState /\ outcome \in LogState
    BY <1>1 DEF LogState
  <2>2. QED
    BY <1>1, <2>1 DEF LogRunning, LogCompleted, Goto
<1>3. UNCHANGED <<cache, queued, cancelEvents, cancelled>>
  BY DEF LogRunning, LogCompleted, informerVars, packetVars
<1> DEFINE o == [nd EXCEPT !.log = l]
<1>4. /\ o \in Object /\ o.generation = nd.generation /\ o.spec = nd.spec
      /\ o.packet = nd.packet /\ o.log = l
  BY <1>1, WithStatus
<1> HIDE DEF o
<1>5. /\ StatusPatch(o) \/ StatusPatchFails(o)
      /\ pc' \in {"collect", "packet"}
      /\ pc' = "packet" /\ ~logErr' => l \in Reasons /\ StatusPatch(o)
  BY <1>2 DEF o
<1>6. /\ History(cache', watch', cr')
      /\ Unseen(cache, watch) => Unseen(cache', watch')
      /\ cr = Nothing => cr' = Nothing
      /\ cr' # Nothing /\ ~Pending =>
           /\ nd'.generation = cr'.generation /\ nd'.spec = cr'.spec
           /\ nd'.packet = o.packet /\ nd'.log = o.log
           /\ cr' = cr \/ cr'.packet = o.packet
           /\ StatusPatch(o) => cr'.log = o.log
  BY <1>1, <1>3, <1>4, <1>5, WriteCurrent
<1>7. Pending => Pending'
  BY <1>3, <1>6 DEF Pending
<1>8. WorkerCurrent'
  <2> SUFFICES ASSUME cr' # Nothing, ~Pending'
               PROVE  /\ pc' # "idle"
                      /\ nd'.generation = cr'.generation
                      /\ nd'.spec = cr'.spec /\ nd'.packet = cr'.packet
                      /\ pc' \in PacketPhases /\ ~logErr' =>
                           cr'.log \in Reasons /\ nd'.log \in Reasons
    BY DEF WorkerCurrent
  <2>1. cr # Nothing /\ ~Pending
    BY <1>6, <1>7
  <2>2. nd.packet = cr.packet
    BY <1>1, <2>1 DEF AnswerInv, WorkerCurrent
  <2>3. QED
    BY <1>4, <1>5, <1>6, <2>1, <2>2 DEF PacketPhases
<1>9. CancelledForGood'
  BY <1>3, <1>5, <1>6, <1>7 DEF AnswerInv, CancelledForGood
<1>10. QED
  BY <1>6, <1>8, <1>9 DEF AnswerInv

(***************************************************************************)
(* Reconcile returns: an error puts the object back into the queue.        *)
(***************************************************************************)
LEMMA FinishFacts ==
  ASSUME NEW e, Finish(e)
  PROVE  pc' = "idle" /\ (queued \/ e => queued')
BY Zenon DEF Finish, Goto

(***************************************************************************)
(* handlePacketCapture's patches: Running, then the result, which is the   *)
(* worker's last step on the object unless it failed.                      *)
(***************************************************************************)
LEMMA PacketAnswer ==
  ASSUME AnswerInv, RequestInv', PacketReject \/ PacketRunningPatch \/ PacketCompletedPatch
  PROVE  AnswerInv'
<1>1. nd \in Object /\ outcome \in Reasons /\ pc \in PacketPhases /\ pc # "idle"
  BY DEF AnswerInv, RequestInv, ObjectsTyped, PacketReject, PacketRunningPatch,
     PacketCompletedPatch, PacketPhases
<1>2. nd.generation \in Nat
  BY <1>1 DEF Object
<1>3. PICK q \in PacketState :
        LET o == [nd EXCEPT !.packet = q]
        IN \/ StatusPatch(o) /\ pc' = "store" /\ UNCHANGED queued
           \/ /\ StatusPatch(o) /\ Finish(logErr)
              /\ q.state \in Reasons /\ q.generation = nd.generation
           \/ StatusPatchFails(o) /\ Finish(TRUE)
  <2>1. PacketRunning \in PacketState
    BY DEF PacketRunning, PacketState
  <2>2. \A r \in Reasons :
          LET q == PacketCompleted(r, nd.generation)
          IN q \in PacketState /\ q.state \in Reasons /\ q.generation = nd.generation
    BY <1>2 DEF PacketCompleted, PacketState
  <2>3. CASE PacketRunningPatch
    BY <2>1, <2>3 DEF PacketRunningPatch, Goto
  <2>4. CASE PacketReject \/ PacketCompletedPatch
    <3>1. \E r \in Reasons : FinalPatch([nd EXCEPT !.packet = PacketCompleted(r, nd.generation)])
      BY <1>1, <2>4 DEF PacketReject, PacketCompletedPatch, ObservedGeneration, Reasons
    <3>2. QED
      BY <2>2, <3>1 DEF FinalPatch
  <2>5. QED
    BY <2>3, <2>4
<1>4. UNCHANGED <<cache, cancelEvents, cancelled, logErr>>
  BY DEF PacketReject, PacketRunningPatch, PacketCompletedPatch, FinalPatch, packetVars
<1> DEFINE o == [nd EXCEPT !.packet = q]
<1>5. /\ o \in Object /\ o.generation = nd.generation /\ o.spec = nd.spec
      /\ o.packet = q /\ o.log = nd.log
  BY <1>1, WithStatus
<1>6. /\ StatusPatch(o) \/ StatusPatchFails(o)
      /\ \/ StatusPatch(o) /\ pc' = "store" /\ UNCHANGED queued
         \/ /\ StatusPatch(o) /\ Finish(logErr)
            /\ q.state \in Reasons /\ q.generation = nd.generation
         \/ Finish(TRUE)
  BY <1>3
<1> HIDE DEF o
<1>7. /\ History(cache', watch', cr')
      /\ Unseen(cache, watch) => Unseen(cache', watch')
      /\ cr = Nothing => cr' = Nothing
      /\ cr' # Nothing /\ ~Pending =>
           /\ nd'.generation = cr'.generation /\ nd'.spec = cr'.spec
           /\ nd'.packet = o.packet /\ nd'.log = o.log
           /\ cr'.spec = cr.spec /\ cr'.generation = cr.generation
           /\ StatusPatch(o) => cr'.packet = o.packet /\ cr'.log = o.log
  BY <1>1, <1>4, <1>5, <1>6, WriteCurrent
<1>8. /\ queued => queued'
      /\ pc' \in {"store", "idle"}
      /\ ~queued' => \/ StatusPatch(o) /\ pc' = "store"
                     \/ /\ StatusPatch(o) /\ pc' = "idle" /\ ~logErr
                        /\ q.state \in Reasons /\ q.generation = nd.generation
  <2>1. CASE StatusPatch(o) /\ pc' = "store" /\ UNCHANGED queued
    BY <2>1
  <2>2. CASE /\ StatusPatch(o) /\ Finish(logErr)
             /\ q.state \in Reasons /\ q.generation = nd.generation
    BY <2>2, FinishFacts, Zenon
  <2>3. CASE Finish(TRUE)
    BY <2>3, FinishFacts, Zenon
  <2>4. QED
    BY <1>6, <2>1, <2>2, <2>3
<1>9. Pending => Pending'
  BY <1>4, <1>7, <1>8 DEF Pending
<1>10. WorkerCurrent'
  <2> SUFFICES ASSUME cr' # Nothing, ~Pending'
               PROVE  /\ pc' = "idle" => Answered(cr')
                      /\ pc' # "idle" => /\ nd'.generation = cr'.generation
                                         /\ nd'.spec = cr'.spec /\ nd'.packet = cr'.packet
                      /\ ~logErr' /\ cr'.spec.log # Nothing =>
                           cr'.log \in Reasons /\ nd'.log \in Reasons
    BY DEF WorkerCurrent
  <2>1. cr # Nothing /\ ~Pending /\ ~queued'
    BY <1>7, <1>9 DEF Pending
  <2>2. /\ nd.generation = cr.generation /\ nd.spec = cr.spec
        /\ ~logErr /\ cr.spec.log # Nothing => nd.log \in Reasons
    BY <1>1, <2>1 DEF AnswerInv, WorkerCurrent
  <2>3. /\ nd'.generation = cr'.generation /\ nd'.spec = cr'.spec
        /\ nd'.packet = q /\ cr'.packet = q /\ nd'.log = nd.log /\ cr'.log = nd.log
        /\ cr'.spec = cr.spec /\ cr'.generation = cr.generation
    BY <1>5, <1>7, <1>8, <2>1
  <2>4. ~logErr' /\ cr'.spec.log # Nothing => cr'.log \in Reasons /\ nd'.log \in Reasons
    BY <1>4, <2>2, <2>3
  <2>5. pc' = "idle" => Answered(cr')
    <3>1. pc' = "idle" => ~logErr /\ q.state \in Reasons /\ q.generation = nd.generation
      BY <1>8, <2>1
    <3>2. QED
      BY <2>2, <2>3, <3>1 DEF Answered, CompletedFor
  <2>6. QED
    BY <2>3, <2>4, <2>5
<1>11. CancelledForGood'
  BY <1>4, <1>7, <1>8, <1>9 DEF AnswerInv, CancelledForGood
<1>12. QED
  BY <1>7, <1>10, <1>11 DEF AnswerInv

(***************************************************************************)
(* The worker's other steps: they give the object up only when it is done, *)
(* queued again, or its capture was cancelled for good.                    *)
(***************************************************************************)
LEMMA WorkAnswer ==
  ASSUME AnswerInv, RequestInv', Works
  PROVE  AnswerInv'
<1>1. ObjectsTyped
  BY DEF AnswerInv, RequestInv
<1>2. UNCHANGED <<cr, watch, cache, nd, logErr, cancelEvents>> /\ pc # "idle"
  BY <1>1, WorkFacts
<1>3. History(cache', watch', cr')
  BY <1>2 DEF AnswerInv
<1>4. CASE CollectStart \/ CollectDone \/ CollectTimeout \/ DeliverLogs
  <2>1. /\ pc \in {"collect", "collecting", "deliver"} /\ UNCHANGED queued
        /\ pc' \in {"collecting", "deliver", "logCompleted"}
    BY <1>4 DEF CollectStart, CollectDone, CollectTimeout, DeliverLogs, LogFails, Goto,
       informerVars
  <2>2. Pending' <=> Pending
    BY <1>2, <2>1 DEF Pending
  <2>3. WorkerCurrent' /\ CancelledForGood'
    BY <1>2, <2>1, <2>2 DEF AnswerInv, WorkerCurrent, CancelledForGood, PacketPhases
  <2>4. QED
    BY <1>3, <2>3 DEF AnswerInv
<1>5. CASE HandlePacketCapture
  <2>1. /\ pc = "packet"
        /\ queued => queued'
        /\ pc' \in {"idle", "packetReject", "packetRunning"}
        /\ pc' = "idle" /\ ~queued' => ~logErr /\ (nd.spec.packet = Nothing \/ CompletedFor(nd))
    <3>1. CASE Finish(logErr) /\ (nd.spec.packet = Nothing \/ CompletedFor(nd))
      BY <1>5, <3>1, FinishFacts, Zenon DEF HandlePacketCapture
    <3>2. CASE /\ pc' \in {"packetReject", "packetRunning"} /\ UNCHANGED queued
      BY <1>5, <3>2 DEF HandlePacketCapture
    <3>3. QED
      BY <1>5, <3>1, <3>2 DEF HandlePacketCapture, Goto
  <2>2. Pending => Pending'
    BY <1>2, <2>1 DEF Pending
  <2>3. WorkerCurrent'
    <3> SUFFICES ASSUME cr # Nothing, ~Pending'
                 PROVE  /\ pc' = "idle" => Answered(cr)
                        /\ nd.generation = cr.generation
                        /\ nd.spec = cr.spec /\ nd.packet = cr.packet
                        /\ ~logErr /\ cr.spec.log # Nothing =>
                             cr.log \in Reasons /\ nd.log \in Reasons
      BY <1>2 DEF WorkerCurrent
    <3>1. ~Pending /\ ~queued'
      BY <2>2 DEF Pending
    <3>2. /\ nd.generation = cr.generation
          /\ nd.spec = cr.spec /\ nd.packet = cr.packet
          /\ ~logErr /\ cr.spec.log # Nothing => cr.log \in Reasons /\ nd.log \in Reasons
      BY <2>1, <3>1 DEF AnswerInv, WorkerCurrent, PacketPhases
    <3>3. pc' = "idle" => Answered(cr)
      BY <2>1, <3>1, <3>2 DEF Answered, CompletedFor
    <3>4. QED
      BY <3>2, <3>3
  <2>4. CancelledForGood'
    BY <1>2, <2>1, <2>2 DEF AnswerInv, CancelledForGood
  <2>5. QED
    BY <1>3, <2>3, <2>4 DEF AnswerInv
<1>6. CASE StoreCancelFunc
  <2>1. pc = "store" /\ pc' = "capturing" /\ UNCHANGED queued
    BY <1>6 DEF StoreCancelFunc, Goto, informerVars
  <2>2. ~cancelled'
    BY <1>6 DEF StoreCancelFunc
  <2>3. Pending' <=> Pending
    BY <1>2, <2>1 DEF Pending
  <2>4. WorkerCurrent'
    BY <1>2, <2>1, <2>3 DEF AnswerInv, WorkerCurrent, PacketPhases
  <2>5. CancelledForGood'
    BY <1>2, <2>1, <2>2, <2>3 DEF AnswerInv, CancelledForGood
  <2>6. QED
    BY <1>3, <2>4, <2>5 DEF AnswerInv
<1>7. CASE CaptureReturns
  <2>1. /\ pc = "capturing"
        /\ queued => queued'
        /\ \/ cancelled /\ pc' = "idle"
           \/ pc' = "packetCompleted"
    <3>1. CASE cancelled /\ Finish(logErr)
      BY <1>7, <3>1, FinishFacts, Zenon DEF CaptureReturns
    <3>2. CASE pc' = "packetCompleted" /\ UNCHANGED queued
      BY <1>7, <3>2 DEF CaptureReturns
    <3>3. QED
      BY <1>7, <3>1, <3>2 DEF CaptureReturns, Goto
  <2>2. Pending => Pending'
    BY <1>2, <2>1 DEF Pending
  <2>3. pc' = "idle" => Pending \/ cr = Nothing
    BY <2>1 DEF AnswerInv, CancelledForGood
  <2>4. WorkerCurrent'
    BY <1>2, <2>1, <2>2, <2>3 DEF AnswerInv, WorkerCurrent, PacketPhases
  <2>5. CancelledForGood'
    BY <1>2, <2>1, <2>2 DEF AnswerInv, CancelledForGood
  <2>6. QED
    BY <1>3, <2>4, <2>5 DEF AnswerInv
<1>8. QED
  BY <1>4, <1>5, <1>6, <1>7 DEF Works

(***************************************************************************)
(* The informer: what it observes queues the object, and an event that     *)
(* cancels a capture comes with a change or a deletion.                    *)
(***************************************************************************)
LEMMA ObserveAnswer ==
  ASSUME AnswerInv, RequestInv', Observe, ~(cancelEvents > 0)
  PROVE  AnswerInv'
<1>1. /\ watch \in Seq(MaybeObject) /\ watch # <<>> /\ History(cache, watch, cr)
      /\ watch' = Tail(watch) /\ cache' = Head(watch)
      /\ UNCHANGED <<cr, nd, pc, logErr, cancelled>>
  BY DEF AnswerInv, RequestInv, ObjectsTyped, Observe, workerVars, packetVars
<1>2. /\ queued \/ News(cache, cache') => queued'
      /\ GenerationChanged(cache, cache') => queued'
      /\ cancelEvents' > 0 => cache' = Nothing \/ GenerationChanged(cache, cache')
  BY DEF Observe, News
<1>3. /\ History(cache', watch', cr')
      /\ Unseen(cache, watch) => News(cache, cache') \/ Unseen(cache', watch')
      /\ cache' = Nothing => cr = Nothing \/ Unseen(cache', watch')
  BY <1>1, ObserveHistory
<1>4. /\ Pending => Pending'
      /\ cancelEvents' > 0 => Pending' \/ cr' = Nothing
  BY <1>1, <1>2, <1>3 DEF Pending
<1>5. WorkerCurrent' /\ CancelledForGood'
  BY <1>1, <1>4 DEF AnswerInv, WorkerCurrent, CancelledForGood
<1>6. QED
  BY <1>3, <1>5 DEF AnswerInv

(***************************************************************************)
(* The worker takes the object off the queue while the informer is up to   *)
(* date, so it holds the server's object.                                  *)
(***************************************************************************)
LEMMA ReconcileAnswer ==
  ASSUME AnswerInv, RequestInv', Reconcile, ~(cancelEvents > 0), watch = <<>>
  PROVE  AnswerInv'
<1>1. /\ UNCHANGED <<cr, watch, cache, cancelEvents>> /\ nd' = cache
      /\ pc' \in {"idle", "logRunning", "packet"}
      /\ pc' = "idle" => cache = Nothing \/ cache.spec = [log |-> Nothing, packet |-> Nothing]
      /\ pc' = "packet" => cache.spec.log = Nothing
  BY DEF Reconcile, Goto, apiVars
<1>2. cache = cr /\ History(cache', watch', cr')
  BY <1>1, NothingOnTheWay DEF AnswerInv
<1>3. WorkerCurrent'
  BY <1>1, <1>2 DEF WorkerCurrent, Answered, PacketPhases
<1>4. CancelledForGood'
  BY <1>1 DEF CancelledForGood
<1>5. QED
  BY <1>2, <1>3, <1>4 DEF AnswerInv

(***************************************************************************)
(* The cancellation handler, the goroutines, a restart and stuttering.     *)
(***************************************************************************)
LEMMA OtherAnswer ==
  ASSUME AnswerInv, RequestInv',
         HandleEvent \/ Goroutines \/ Restart \/ UNCHANGED diagVars
  PROVE  AnswerInv'
<1>1. CASE HandleEvent
  <2>1. cancelEvents > 0 /\ UNCHANGED <<cr, watch, cache, queued, nd, pc, logErr>>
    BY <1>1 DEF HandleEvent, apiVars, workerVars
  <2>2. Pending' \/ cr' = Nothing
    BY <2>1 DEF AnswerInv, CancelledForGood, Pending
  <2>3. QED
    BY <2>1, <2>2 DEF AnswerInv, WorkerCurrent, CancelledForGood
<1>2. CASE Goroutines \/ UNCHANGED diagVars
  <2>1. UNCHANGED <<cr, watch, cache, queued, cancelEvents, cancelled, nd, pc, logErr>>
    BY <1>2 DEF Goroutines, CollectReturn, AbandonedReturn, DeleteFile, diagVars, apiVars,
       informerVars, workerVars, packetVars
  <2>2. QED
    BY <2>1 DEF AnswerInv, WorkerCurrent, CancelledForGood, Pending
<1>3. CASE Restart
  <2>1. /\ cache' = cr /\ watch' = <<>> /\ pc' = "idle" /\ cancelEvents' = 0
        /\ UNCHANGED cr
    BY <1>3 DEF Restart
  <2>2. cr # Nothing => queued'
    BY <1>3 DEF Restart
  <2>3. History(cache', watch', cr')
    BY <2>1, NothingOnTheWay
  <2>4. Pending' \/ cr' = Nothing
    BY <2>1, <2>2 DEF Pending
  <2>5. QED
    BY <2>3, <2>4 DEF AnswerInv, WorkerCurrent, CancelledForGood
<1>4. QED
  BY <1>1, <1>2, <1>3

\* Every step of PromptSpec keeps AnswerInv.
LEMMA AnswerNext == AnswerInv /\ [PromptNext]_diagVars => AnswerInv'
<1> SUFFICES ASSUME AnswerInv, [PromptNext]_diagVars PROVE AnswerInv'
  OBVIOUS
<1>1. RequestInv'
  BY RequestNext DEF AnswerInv, PromptNext
<1>2. CASE HandleEvent \/ UNCHANGED diagVars
  BY <1>1, <1>2, OtherAnswer
<1>3. CASE PromptNext /\ ~HandleEvent
  <2>1. DiagNext /\ ~(cancelEvents > 0) /\ (Reconcile => watch = <<>>)
    BY <1>3 DEF PromptNext
  <2>2. QED
    BY <1>1, <1>3, <2>1, UserNews, ObserveAnswer, ReconcileAnswer, LogAnswer, PacketAnswer,
       WorkAnswer, OtherAnswer DEF DiagNext, handleLogCapture, handlePacketCapture, Works
<1>4. QED
  BY <1>2, <1>3

(***************************************************************************)
(* With an informer that keeps up, the controller never comes to rest with *)
(* a request unanswered: whatever is cancelled, fails or times out, and    *)
(* whenever users change their mind or the agent restarts, the log capture *)
(* has a result and the packet capture is completed for the current        *)
(* generation (Reconcile, handleLogCapture, handlePacketCapture).          *)
(***************************************************************************)
THEOREM NothingUnanswered == PromptSpec => []RequestsAnswered
<1>1. DiagInit => AnswerInv
  <2> SUFFICES ASSUME DiagInit PROVE AnswerInv
    OBVIOUS
  <2>1. RequestInv
    BY RequestInit
  <2>2. /\ cr = Nothing /\ cache = Nothing /\ watch = <<>> /\ cancelEvents = 0
        /\ pc = "idle"
    BY DEF DiagInit
  <2>3. QED
    BY <2>1, <2>2, NothingOnTheWay DEF AnswerInv, WorkerCurrent, CancelledForGood
<1>2. AnswerInv => RequestsAnswered
  <2> SUFFICES ASSUME AnswerInv, Quiet, cr # Nothing PROVE Answered(cr)
    BY DEF RequestsAnswered, Answered
  <2>1. ~Pending
    BY NothingOnTheWay DEF Quiet, Pending
  <2>2. QED
    BY <2>1 DEF AnswerInv, WorkerCurrent, Quiet
<1>3. QED
  BY <1>1, <1>2, AnswerNext, PTL DEF PromptSpec
=============================================================================
