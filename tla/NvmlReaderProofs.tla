-------------------------- MODULE NvmlReaderProofs --------------------------
(***************************************************************************)
(* For any registered checks and any durations: a check has at most one    *)
(* call in the driver, and its stamp says whether it has one.              *)
(***************************************************************************)
EXTENDS NvmlReader, TLAPS

Call == [pc : {"none", "driver", "close"}, value : Results]

InflightTypeOK ==
    /\ call \in [AllChecks -> [Slots -> Call]]
    /\ result \in [AllChecks -> [Slots -> Results \cup {Empty}]]
    /\ pending \in [AllChecks -> Slots \cup {NoSlot}]
    /\ waiting \in [AllChecks -> Slots \cup {NoSlot}]
    /\ inDriverSince \in [AllChecks -> Age(StallDuration)]

\* A run waits for the call that is pending.
WaitsForPending == \A c \in AllChecks : waiting[c] # NoSlot => waiting[c] = pending[c]

\* A channel has a value only after its call left the driver.
ValuesHaveReturned == \A c \in AllChecks : \A s \in Slots : result[c][s] # Empty => call[c][s].pc # "driver"

\* The stamp of a check that has a call in the driver is set, and only then;
\* the call is the pending one.
StampOf(c) ==
    /\ inDriverSince[c] # Unset <=> InDriver(c) # {}
    /\ InDriver(c) \subseteq {pending[c]}

InflightInv == InflightTypeOK /\ WaitsForPending /\ ValuesHaveReturned /\ StampIsTruthful

\* No check has a call and no stamp is set when the reader is made (newReader).
LEMMA InitInflight == ReaderInit => InflightInv
  <1> SUFFICES ASSUME ReaderInit PROVE InflightInv
    OBVIOUS
  <1>1. InflightTypeOK
    BY ReaderAssumption DEF ReaderInit, InflightTypeOK, Call, NoCall, Results, Slots, NoSlot, Age, Unset
  <1>2. WaitsForPending /\ ValuesHaveReturned
    BY DEF ReaderInit, WaitsForPending, ValuesHaveReturned
  <1>3. StampIsTruthful
    BY DEF ReaderInit, StampIsTruthful, InDriver, NoCall
  <1> QED BY <1>1, <1>2, <1>3 DEF InflightInv

\* Steps that leave the calls alone keep what is said of them.
LEMMA StutterKeeps == InflightInv /\ UNCHANGED inflightVars => InflightInv'
  BY DEF InflightInv, InflightTypeOK, WaitsForPending, ValuesHaveReturned, StampIsTruthful, InDriver, inflightVars

\* run starts a call only when none is outstanding: no call of the check is
\* then in the driver, and the new one is the pending one and stamped.
LEMMA StartKeeps ==
    ASSUME InflightInv, NEW c \in AllChecks, NEW v \in Results, ~Outstanding(c), Start(c, v)
    PROVE  InflightInv'
  <1> DEFINE s == CHOOSE s \in Free(c) : TRUE
  <1>1. s \in Slots /\ call[c][s].pc = "none"
    BY DEF Start, Free
  <1>2. InDriver(c) = {}
    BY DEF InflightInv, InflightTypeOK, StampIsTruthful, InDriver, Outstanding, Slots, NoSlot
  <1>3. /\ call' = [call EXCEPT ![c][s] = [pc |-> "driver", value |-> v]]
        /\ result' = [result EXCEPT ![c][s] = Empty]
        /\ pending' = [pending EXCEPT ![c] = s]
        /\ waiting' = [waiting EXCEPT ![c] = s]
        /\ inDriverSince' = [inDriverSince EXCEPT ![c] = 0]
    BY DEF Start
  <1> HIDE DEF s
  <1>4. InflightTypeOK'
    BY <1>1, <1>3, ReaderAssumption DEF InflightInv, InflightTypeOK, Call, Age
  <1>5. WaitsForPending'
    BY <1>1, <1>3 DEF InflightInv, InflightTypeOK, WaitsForPending
  <1>6. ValuesHaveReturned'
    BY <1>1, <1>3 DEF InflightInv, InflightTypeOK, ValuesHaveReturned, Call
  <1>7. StampIsTruthful'
    <2> SUFFICES ASSUME NEW d \in AllChecks PROVE StampOf(d)'
      BY DEF StampIsTruthful, StampOf
    <2>1. CASE d = c
      <3>1. InDriver(c)' = {s}
        BY <1>1, <1>2, <1>3 DEF InflightInv, InflightTypeOK, InDriver, Call
      <3> QED BY <2>1, <3>1, <1>3 DEF StampOf, InflightInv, InflightTypeOK, Unset
    <2>2. CASE d # c
      BY <2>2, <1>3 DEF StampOf, InflightInv, InflightTypeOK, StampIsTruthful, InDriver
    <2> QED BY <2>1, <2>2
  <1> QED BY <1>4, <1>5, <1>6, <1>7 DEF InflightInv

\* A call that returns clears the stamp; it was the only one in the driver.
LEMMA CallReturnsKeeps ==
    ASSUME InflightInv, NEW c \in AllChecks, NEW s \in Slots, CallReturns(c, s)
    PROVE  InflightInv'
  <1>1. /\ call' = [call EXCEPT ![c][s] = [pc |-> "close", value |-> @.value]]
        /\ inDriverSince' = [inDriverSince EXCEPT ![c] = Unset]
        /\ result' = [result EXCEPT ![c][s] = call[c][s].value]
        /\ UNCHANGED <<pending, waiting>>
    BY DEF CallReturns
  <1>2. InDriver(c) = {s}
    BY DEF CallReturns, InflightInv, StampIsTruthful, InDriver
  <1>3. InflightTypeOK'
    BY <1>1 DEF InflightInv, InflightTypeOK, Call, Age
  <1>4. WaitsForPending'
    BY <1>1 DEF InflightInv, WaitsForPending
  <1>5. ValuesHaveReturned'
    BY <1>1 DEF InflightInv, InflightTypeOK, ValuesHaveReturned, Call
  <1>6. StampIsTruthful'
    <2> SUFFICES ASSUME NEW d \in AllChecks PROVE StampOf(d)'
      BY DEF StampIsTruthful, StampOf
    <2>1. CASE d = c
      <3>1. InDriver(c)' = {}
        BY <1>1, <1>2 DEF InflightInv, InflightTypeOK, InDriver, Call
      <3> QED BY <2>1, <3>1, <1>1 DEF StampOf, InflightInv, InflightTypeOK
    <2>2. CASE d # c
      BY <2>2, <1>1 DEF StampOf, InflightInv, InflightTypeOK, StampIsTruthful, InDriver
    <2> QED BY <2>1, <2>2
  <1> QED BY <1>3, <1>4, <1>5, <1>6 DEF InflightInv

\* A goroutine that leaves was out of the driver already.
LEMMA CallCloseKeeps ==
    ASSUME InflightInv, NEW c \in AllChecks, NEW s \in Slots, CallClose(c, s)
    PROVE  InflightInv'
  <1>1. /\ call[c][s].pc = "close"
        /\ call' = [call EXCEPT ![c][s] = NoCall]
        /\ result' = [result EXCEPT ![c][s] = IF waiting[c] = s THEN @ ELSE Empty]
        /\ UNCHANGED <<pending, waiting, inDriverSince>>
    BY DEF CallClose
  <1>2. InflightTypeOK'
    BY <1>1 DEF InflightInv, InflightTypeOK, Call, NoCall, Results
  <1>3. WaitsForPending'
    BY <1>1 DEF InflightInv, WaitsForPending
  <1>4. ValuesHaveReturned'
    BY <1>1 DEF InflightInv, InflightTypeOK, ValuesHaveReturned, NoCall
  <1>5. ASSUME NEW d \in AllChecks PROVE InDriver(d)' = InDriver(d)
    BY <1>1 DEF InflightInv, InflightTypeOK, InDriver, NoCall
  <1>6. StampIsTruthful'
    BY <1>1, <1>5 DEF InflightInv, StampIsTruthful
  <1> QED BY <1>2, <1>3, <1>4, <1>6 DEF InflightInv

\* A run that has received its value forgets a call that is out of the driver.
LEMMA FinishKeeps ==
    ASSUME InflightInv, NEW c \in AllChecks, Finish(c)
    PROVE  InflightInv'
  <1>1. /\ waiting[c] # NoSlot /\ result[c][waiting[c]] # Empty
        /\ pending' = [pending EXCEPT ![c] = NoSlot]
        /\ waiting' = [waiting EXCEPT ![c] = NoSlot]
        /\ result' = [result EXCEPT ![c][waiting[c]] = Empty]
        /\ UNCHANGED <<call, inDriverSince>>
    BY DEF Finish, Received
  <1>2. InDriver(c) = {}
    BY <1>1 DEF InflightInv, InflightTypeOK, WaitsForPending, ValuesHaveReturned, StampIsTruthful, InDriver, Slots, NoSlot
  <1>3. InflightTypeOK'
    BY <1>1 DEF InflightInv, InflightTypeOK
  <1>4. WaitsForPending'
    BY <1>1 DEF InflightInv, InflightTypeOK, WaitsForPending
  <1>5. ValuesHaveReturned'
    BY <1>1 DEF InflightInv, InflightTypeOK, ValuesHaveReturned, Slots, NoSlot
  <1>6. StampIsTruthful'
    BY <1>1, <1>2 DEF InflightInv, InflightTypeOK, StampIsTruthful, InDriver
  <1> QED BY <1>3, <1>4, <1>5, <1>6 DEF InflightInv

\* A run that gives up leaves its call pending and its stamp set.
LEMMA TimeOutKeeps ==
    ASSUME InflightInv, NEW c \in AllChecks, TimeOut(c)
    PROVE  InflightInv'
  <1>1. waiting' = [waiting EXCEPT ![c] = NoSlot] /\ UNCHANGED <<call, result, pending, inDriverSince>>
    BY DEF TimeOut
  <1>2. InflightTypeOK' /\ WaitsForPending'
    BY <1>1 DEF InflightInv, InflightTypeOK, WaitsForPending
  <1>3. ValuesHaveReturned' /\ StampIsTruthful'
    BY <1>1 DEF InflightInv, ValuesHaveReturned, StampIsTruthful, InDriver
  <1> QED BY <1>2, <1>3 DEF InflightInv

\* Time makes stamps older, and neither sets nor clears one.
LEMMA TickKeeps == InflightInv /\ Tick => InflightInv'
  <1> SUFFICES ASSUME InflightInv, Tick PROVE InflightInv'
    OBVIOUS
  <1>1. /\ inDriverSince' = [c \in AllChecks |-> Older(inDriverSince[c], StallDuration)]
        /\ UNCHANGED <<call, result, pending, waiting>>
    BY DEF Tick
  <1>2. ASSUME NEW a \in Age(StallDuration)
        PROVE  /\ Older(a, StallDuration) \in Age(StallDuration)
               /\ Older(a, StallDuration) = Unset <=> a = Unset
    BY <1>2, ReaderAssumption DEF Age, Older, Unset
  <1>3. InflightTypeOK'
    BY <1>1, <1>2 DEF InflightInv, InflightTypeOK
  <1>4. WaitsForPending' /\ ValuesHaveReturned'
    BY <1>1 DEF InflightInv, WaitsForPending, ValuesHaveReturned
  <1>5. StampIsTruthful'
    <2> SUFFICES ASSUME NEW c \in AllChecks PROVE StampOf(c)'
      BY DEF StampIsTruthful, StampOf
    <2>1. inDriverSince'[c] = Unset <=> inDriverSince[c] = Unset
      BY <1>1, <1>2 DEF InflightInv, InflightTypeOK
    <2>2. InDriver(c)' = InDriver(c) /\ pending' = pending
      BY <1>1 DEF InDriver
    <2> QED BY <2>1, <2>2 DEF StampOf, InflightInv, StampIsTruthful
  <1> QED BY <1>3, <1>4, <1>5 DEF InflightInv

\* Every step of the reader keeps it.
LEMMA NextKeeps == InflightInv /\ [ReaderNext]_vars => InflightInv'
  <1> SUFFICES ASSUME InflightInv, [ReaderNext]_vars PROVE InflightInv'
    OBVIOUS
  <1> USE DEF AllChecks
  <1>1. ASSUME NEW c \in AllChecks, NEW s \in Slots, CallReturns(c, s) \/ CallClose(c, s)
        PROVE  InflightInv'
    BY <1>1, CallReturnsKeeps, CallCloseKeeps
  <1>2. ASSUME NEW c \in Registered, CheckRun(c)
        PROVE  InflightInv'
    <2>1. c \in AllChecks /\ "answer" \in Results
      BY DEF Results
    <2>2. ~Outstanding(c) /\ Start(c, "answer")
      BY <1>2 DEF CheckRun
    <2> QED BY <2>1, <2>2, StartKeeps
  <1>3. ASSUME NEW c \in Registered, CheckReturns(c)
        PROVE  InflightInv'
    BY <1>3, FinishKeeps, TimeOutKeeps DEF CheckReturns
  <1>4. CASE ReconcileInit
    <2>1. PICK v \in InitOutcomes : Start("init", v)
      BY <1>4 DEF ReconcileInit
    <2>2. v \in Results /\ "init" \in AllChecks
      BY DEF InitOutcomes, Results
    <2>3. ~Outstanding("init")
      BY <1>4 DEF ReconcileInit
    <2> QED BY <2>1, <2>2, <2>3, StartKeeps
  <1>5. CASE ReconcileInitStuck
    BY <1>5, TimeOutKeeps, StutterKeeps DEF ReconcileInitStuck
  <1>6. CASE ReconcileInitDone
    BY <1>6, FinishKeeps DEF ReconcileInitDone
  <1>7. CASE ReconcileLoad
    BY <1>7, StutterKeeps DEF ReconcileLoad
  <1>8. CASE ReconcileStalled
    <2>1. CASE Outstanding("probe")
      BY <1>8, <2>1, StutterKeeps DEF ReconcileStalled
    <2>2. CASE ~Outstanding("probe")
      <3>1. Start("probe", "answer")
        BY <1>8, <2>2 DEF ReconcileStalled, probeDriver
      <3>2. "probe" \in AllChecks /\ "answer" \in Results
        BY DEF Results
      <3> QED BY <3>1, <3>2, <2>2, StartKeeps
    <2> QED BY <2>1, <2>2
  <1>9. CASE ProbeDone
    BY <1>9, FinishKeeps DEF ProbeDone
  <1>10. CASE ProbeStuck
    BY <1>10, TimeOutKeeps, StutterKeeps DEF ProbeStuck
  <1>11. CASE Tick
    BY <1>11, TickKeeps
  <1>12. CASE UNCHANGED vars
    BY <1>12, StutterKeeps DEF vars
  <1> QED BY <1>1, <1>2, <1>3, <1>4, <1>5, <1>6, <1>7, <1>8, <1>9, <1>10, <1>11, <1>12 DEF ReaderNext, Reconcile

\* The stamp that stall detection reads is set exactly while the check's
\* pending call is in the driver (inflight.go, run and stalledFor).
THEOREM StampsAreTruthful == ReaderSpec => []StampIsTruthful
  <1>1. InflightInv => StampIsTruthful
    BY DEF InflightInv
  <1> QED BY <1>1, InitInflight, NextKeeps, PTL DEF ReaderSpec

\* A hung driver holds at most one thread per check, however often checks are
\* run and time out (inflight.go, run).
THEOREM AtMostOneCallPerCheck == ReaderSpec => []OneCallPerCheck
  <1>1. InflightInv => OneCallPerCheck
    BY DEF InflightInv, StampIsTruthful, OneCallPerCheck
  <1> QED BY <1>1, InitInflight, NextKeeps, PTL DEF ReaderSpec

-----------------------------------------------------------------------------
(* The escalation window *)

\* stalledFor is between two loads only in the middle of a Reconcile that is
\* due, after Init.
LoadInv ==
    /\ loaded \in 0..Len(Checks)
    /\ loaded > 0 => due /\ ready /\ phase = "idle"
    /\ (phase = "init" => ~ready) /\ (phase = "probe" => ready)

\* The stamp of the i-th check if it answered since the window opened: its next
\* call, if there is one, is of this tick; or of the last one, and then
\* stalledFor, which will find it young, has not come to it yet.
Young(i) ==
    Checks[i] \in answered =>
        \/ inDriverSince[Checks[i]] <= 0
        \/ inDriverSince[Checks[i]] = 1 /\ due /\ phase = "idle" /\ loaded < i

\* The history of the window: nobody the escalation should have heard of.
WindowInv ==
    /\ probeStuckSince \in Age(EscalationWindow)
    /\ ~ready => probeStuckSince = Unset
    /\ probeStuckSince = Unset => answered = {}
    /\ answered \subseteq Registered
    /\ overlooked = {}
    /\ \A i \in 1..Len(Checks) : Young(i)

EscalationInv == InflightInv /\ LoadInv /\ WindowInv

\* No window is open when the reader is made.
LEMMA InitEscalation == ReaderInit => EscalationInv
  <1> SUFFICES ASSUME ReaderInit PROVE EscalationInv
    OBVIOUS
  <1>1. Len(Checks) \in Nat
    BY ReaderAssumption
  <1>2. LoadInv
    BY <1>1 DEF ReaderInit, LoadInv
  <1>3. WindowInv
    BY DEF ReaderInit, WindowInv, Young, Age
  <1> QED BY <1>2, <1>3, InitInflight DEF EscalationInv

\* A step that leaves Reconcile where it is, and every stamp as it is or at
\* most zero, keeps the window; a check may have answered.
LEMMA CallsKeepWindow ==
    ASSUME LoadInv, WindowInv, UNCHANGED <<due, ready, phase, loaded, overlooked, probeStuckSince>>,
           \A c \in Registered : inDriverSince'[c] = inDriverSince[c] \/ inDriverSince'[c] <= 0,
           answered' \subseteq Registered,
           probeStuckSince = Unset => answered' = {},
           \A c \in answered' : c \in answered \/ inDriverSince'[c] <= 0
    PROVE  LoadInv' /\ WindowInv'
  <1>1. LoadInv'
    BY DEF LoadInv
  <1>2. \A i \in 1..Len(Checks) : Young(i)'
    BY DEF WindowInv, Young, Registered
  <1> QED BY <1>1, <1>2 DEF WindowInv

\* Nobody is remembered while no window is open.
LEMMA ClosedWindow ==
    ASSUME answered' = {}, overlooked' = {}, probeStuckSince' = Unset
    PROVE  WindowInv'
  BY DEF WindowInv, Young, Age

\* Where stalledFor is not at work, the checks that answered have no stamp from
\* before this tick; so Reconcile may return.
LEMMA ReturnKeepsWindow ==
    ASSUME LoadInv, WindowInv, ready', phase = "probe" \/ loaded = Len(Checks),
           UNCHANGED <<answered, overlooked>>,
           \A c \in Registered : inDriverSince'[c] = inDriverSince[c],
           probeStuckSince' \in Age(EscalationWindow),
           probeStuckSince' = Unset => answered = {}
    PROVE  WindowInv'
  <1>1. \A i \in 1..Len(Checks) : Young(i)'
    <2> SUFFICES ASSUME NEW i \in 1..Len(Checks), Checks[i] \in answered
                 PROVE  inDriverSince'[Checks[i]] <= 0
      BY DEF Young
    <2>1. Young(i) /\ Checks[i] \in Registered
      BY DEF WindowInv, Registered
    <2>2. ~(due /\ phase = "idle" /\ loaded < i)
      BY DEF LoadInv
    <2> QED BY <2>1, <2>2 DEF Young
  <1> QED BY <1>1 DEF WindowInv

\* stalledFor finds a check that answered since the window opened too young to
\* have stalled, and the window is started over.
LEMMA LoadKeepsWindow ==
    ASSUME EscalationInv, ReconcileLoad
    PROVE  LoadInv' /\ WindowInv'
  <1> DEFINE c == Checks[loaded + 1]
  <1>1. phase = "idle" /\ due /\ ready /\ loaded < Len(Checks) /\ loaded + 1 \in 1..Len(Checks)
    BY DEF ReconcileLoad, EscalationInv, LoadInv
  <1>2. UNCHANGED <<ready, inDriverSince>>
    BY DEF ReconcileLoad, inflightVars, initVars
  <1>3. CASE StalledCheck(c)
    <2>1. loaded' = loaded + 1 /\ UNCHANGED <<phase, due, probeStuckSince>>
      BY <1>3 DEF ReconcileLoad, watchVars
    <2>2. Young(loaded + 1)
      BY <1>1 DEF EscalationInv, WindowInv
    <2>3. c \notin answered
      <3>1. inDriverSince[c] \in Nat /\ inDriverSince[c] > 1
        <4>1. c \in AllChecks
          BY <1>1 DEF AllChecks, Registered
        <4> QED BY <1>3, <4>1, ReaderAssumption DEF StalledCheck, EscalationInv, InflightInv, InflightTypeOK, Age, Unset
      <3> QED BY <3>1, <2>2 DEF Young
    <2>4. InWindow(answered, overlooked \cup ({c} \cap answered))
      BY <1>3 DEF ReconcileLoad
    <2>5. overlooked' = {} /\ answered' = answered
      BY <2>1, <2>3, <2>4 DEF InWindow, EscalationInv, WindowInv
    <2>6. LoadInv'
      BY <1>1, <1>2, <2>1 DEF EscalationInv, LoadInv
    <2>7. ASSUME NEW i \in 1..Len(Checks) PROVE Young(i)'
      <3>1. Young(i) /\ loaded \in Nat
        BY DEF EscalationInv, WindowInv, LoadInv
      <3>2. CASE i = loaded + 1
        BY <3>2, <2>3, <2>5 DEF Young
      <3>3. CASE i # loaded + 1
        BY <3>1, <3>3, <2>1, <2>5, <1>2 DEF Young
      <3> QED BY <3>2, <3>3
    <2> QED BY <2>1, <2>5, <2>6, <2>7, <1>2 DEF WindowInv, EscalationInv
  <1>4. CASE ~StalledCheck(c)
    <2>1. loaded' = 0 /\ Return /\ NoWindow
      BY <1>4 DEF ReconcileLoad
    <2>2. InWindow(answered, overlooked)
      BY <1>4, SMT DEF ReconcileLoad, InWindow
    <2>3. WindowInv'
      BY <2>1, <2>2, ClosedWindow DEF NoWindow, InWindow
    <2>4. LoadInv'
      BY <2>1, <1>1, <1>2 DEF Return, LoadInv, EscalationInv
    <2> QED BY <2>3, <2>4
  <1> QED BY <1>3, <1>4

\* A tick makes the stamps of the checks that answered one tick old, and
\* stalledFor starts with the first of them.
LEMMA TickKeepsWindow ==
    ASSUME EscalationInv, Tick
    PROVE  LoadInv' /\ WindowInv'
  <1>1. phase = "idle" /\ ~due /\ due' /\ loaded = 0
        /\ UNCHANGED <<phase, loaded, ready, answered, overlooked>>
    BY DEF Tick, EscalationInv, LoadInv
  <1>2. LoadInv'
    BY <1>1 DEF EscalationInv, LoadInv
  <1>3. probeStuckSince' = Unset <=> probeStuckSince = Unset
    BY ReaderAssumption DEF Tick, Older, Unset, Age, EscalationInv, WindowInv
  <1>4. ASSUME NEW i \in 1..Len(Checks) PROVE Young(i)'
    <2>1. Young(i) /\ Checks[i] \in AllChecks
      BY DEF EscalationInv, WindowInv, AllChecks, Registered
    <2>2. inDriverSince'[Checks[i]] = Older(inDriverSince[Checks[i]], StallDuration)
      BY <2>1 DEF Tick
    <2>3. inDriverSince[Checks[i]] \in Age(StallDuration)
      BY <2>1 DEF EscalationInv, InflightInv, InflightTypeOK
    <2> QED BY <2>1, <2>2, <2>3, <1>1, ReaderAssumption DEF Young, Older, Age, Unset
  <1>5. probeStuckSince' \in Age(EscalationWindow)
    BY ReaderAssumption DEF Tick, Older, Unset, Age, EscalationInv, WindowInv
  <1> QED BY <1>1, <1>2, <1>3, <1>4, <1>5 DEF EscalationInv, WindowInv

\* Steps of Reconcile before Init: no window is open, and none opens.
LEMMA InitKeepsWindow ==
    ASSUME EscalationInv, ReconcileInit \/ ReconcileInitStuck \/ ReconcileInitDone
    PROVE  LoadInv' /\ WindowInv'
  <1>1. ~ready /\ loaded = 0 /\ UNCHANGED <<loaded, answered, overlooked, probeStuckSince>>
    BY DEF ReconcileInit, ReconcileInitStuck, ReconcileInitDone, EscalationInv, LoadInv, watchVars
  <1>2. WindowInv'
    BY <1>1, ClosedWindow DEF EscalationInv, WindowInv
  <1>3. (phase' = "init" /\ ready' = ready) \/ phase' = "idle"
    BY DEF ReconcileInit, ReconcileInitStuck, ReconcileInitDone, Return, initVars
  <1>4. LoadInv'
    BY <1>1, <1>3 DEF EscalationInv, LoadInv
  <1> QED BY <1>2, <1>4

\* All checks were found stalled, so none of them answered before this tick.
LEMMA StalledKeepsWindow ==
    ASSUME EscalationInv, ReconcileStalled
    PROVE  LoadInv' /\ WindowInv'
  <1>1. /\ phase = "idle" /\ ready /\ loaded = Len(Checks) /\ loaded' = 0 /\ phase' = "probe"
        /\ UNCHANGED <<due, ready, answered, overlooked, probeStuckSince>>
    BY DEF ReconcileStalled, initVars
  <1>2. \A c \in Registered : inDriverSince'[c] = inDriverSince[c]
    <2>1. inDriverSince' = inDriverSince \/ inDriverSince' = [inDriverSince EXCEPT !["probe"] = 0]
      BY DEF ReconcileStalled, Start, inflightVars
    <2>2. "probe" \notin Registered
      BY ReaderAssumption
    <2>3. inDriverSince \in [AllChecks -> Age(StallDuration)]
      BY DEF EscalationInv, InflightInv, InflightTypeOK
    <2> QED BY <2>1, <2>2, <2>3 DEF AllChecks
  <1>3. WindowInv'
    <2>1. probeStuckSince' \in Age(EscalationWindow) /\ (probeStuckSince' = Unset => answered = {})
      BY <1>1 DEF EscalationInv, WindowInv
    <2> QED BY <1>1, <1>2, <2>1, ReturnKeepsWindow DEF EscalationInv
  <1>4. LoadInv'
    BY <1>1 DEF EscalationInv, LoadInv
  <1> QED BY <1>3, <1>4

\* The probe answers, and the window is started over, or is stuck.
LEMMA ProbeKeepsWindow ==
    ASSUME EscalationInv, ProbeDone \/ ProbeStuck
    PROVE  LoadInv' /\ WindowInv'
  <1>1. phase = "probe" /\ ready /\ loaded = 0 /\ phase' = "idle" /\ UNCHANGED <<loaded, ready>>
    BY DEF ProbeDone, ProbeStuck, Return, initVars, EscalationInv, LoadInv
  <1>2. LoadInv'
    BY <1>1 DEF EscalationInv, LoadInv
  <1>3. CASE ProbeDone
    <2>1. NoWindow /\ InWindow(answered \cup {"probe"}, overlooked)
      BY <1>3 DEF ProbeDone
    <2>2. answered' = {} /\ overlooked' = {} /\ probeStuckSince' = Unset
      BY <2>1 DEF NoWindow, InWindow
    <2> QED BY <1>2, <2>2, ClosedWindow
  <1>4. CASE ProbeStuck
    <2>1. UNCHANGED <<answered, overlooked, inDriverSince>>
      BY <1>4 DEF ProbeStuck, TimeOut, inflightVars
    <2>2. probeStuckSince' \in Age(EscalationWindow) /\ probeStuckSince' # Unset
      <3>1. probeStuckSince' = IF probeStuckSince = Unset THEN 0 ELSE probeStuckSince
        BY <1>4 DEF ProbeStuck
      <3> QED BY <3>1, ReaderAssumption DEF Age, Unset, EscalationInv, WindowInv
    <2>3. WindowInv'
      BY <1>1, <2>1, <2>2, ReturnKeepsWindow DEF EscalationInv
    <2> QED BY <1>2, <2>3
  <1> QED BY <1>3, <1>4

\* Every step keeps the window.
LEMMA NextKeepsWindow == EscalationInv /\ [ReaderNext]_vars => EscalationInv'
  <1> SUFFICES ASSUME EscalationInv, [ReaderNext]_vars PROVE LoadInv' /\ WindowInv'
    BY NextKeeps DEF EscalationInv
  <1>1. LoadInv /\ WindowInv /\ inDriverSince \in [AllChecks -> Age(StallDuration)]
    BY DEF EscalationInv, InflightInv, InflightTypeOK
  <1>2. ASSUME NEW c \in AllChecks, NEW s \in Slots, CallReturns(c, s)
        PROVE  LoadInv' /\ WindowInv'
    <2>1. /\ UNCHANGED <<due, ready, phase, loaded, overlooked, probeStuckSince>>
          /\ inDriverSince' = [inDriverSince EXCEPT ![c] = Unset]
          /\ answered' = IF probeStuckSince = Unset THEN {} ELSE answered \cup ({c} \cap Registered)
      BY <1>2 DEF CallReturns, initVars, watchVars, reconcileVars
    <2>2. \A d \in AllChecks : inDriverSince'[d] = IF d = c THEN Unset ELSE inDriverSince[d]
      BY <1>1, <2>1
    <2>3. \A d \in Registered : inDriverSince'[d] = inDriverSince[d] \/ inDriverSince'[d] <= 0
      BY <2>2 DEF AllChecks, Unset
    <2>4. /\ answered' \subseteq Registered
          /\ probeStuckSince = Unset => answered' = {}
          /\ \A d \in answered' : d \in answered \/ inDriverSince'[d] <= 0
      BY <1>1, <2>1, <2>2 DEF WindowInv, Unset
    <2> QED BY <1>1, <2>1, <2>3, <2>4, CallsKeepWindow
  <1>3. ASSUME NEW c \in AllChecks, NEW s \in Slots, CallClose(c, s)
        PROVE  LoadInv' /\ WindowInv'
    <2>1. UNCHANGED <<due, ready, phase, loaded, overlooked, probeStuckSince, answered, inDriverSince>>
      BY <1>3 DEF CallClose, initVars, watchVars, reconcileVars
    <2> QED BY <1>1, <2>1, CallsKeepWindow DEF WindowInv
  <1>4. ASSUME NEW c \in Registered, CheckRun(c)
        PROVE  LoadInv' /\ WindowInv'
    <2>1. /\ UNCHANGED <<due, ready, phase, loaded, overlooked, probeStuckSince, answered>>
          /\ inDriverSince' = [inDriverSince EXCEPT ![c] = 0]
      BY <1>4 DEF CheckRun, Start, initVars, watchVars, reconcileVars
    <2>2. \A d \in Registered : inDriverSince'[d] = inDriverSince[d] \/ inDriverSince'[d] <= 0
      BY <1>1, <2>1 DEF AllChecks
    <2> QED BY <1>1, <2>1, <2>2, CallsKeepWindow DEF WindowInv
  <1>5. ASSUME NEW c \in Registered, CheckReturns(c)
        PROVE  LoadInv' /\ WindowInv'
    <2>1. UNCHANGED <<due, ready, phase, loaded, overlooked, probeStuckSince, answered, inDriverSince>>
      BY <1>5 DEF CheckReturns, Finish, TimeOut, initVars, watchVars, reconcileVars
    <2> QED BY <1>1, <2>1, CallsKeepWindow DEF WindowInv
  <1>6. CASE Reconcile
    BY <1>6, InitKeepsWindow, LoadKeepsWindow, StalledKeepsWindow, ProbeKeepsWindow DEF Reconcile
  <1>7. CASE Tick
    BY <1>7, TickKeepsWindow
  <1>8. CASE UNCHANGED vars
    <2>1. UNCHANGED <<due, ready, phase, loaded, overlooked, probeStuckSince, answered, inDriverSince>>
      BY <1>8 DEF vars, inflightVars, initVars, watchVars, reconcileVars
    <2> QED BY <1>1, <2>1, CallsKeepWindow DEF WindowInv
  <1> QED BY <1>2, <1>3, <1>4, <1>5, <1>6, <1>7, <1>8 DEF ReaderNext

\* A node is given up for an unresponsive driver only when, since the window
\* opened, every probe ended Stuck and no registered check had recorded an
\* answer that stalledFor passed over (escalation.go, escalate).
THEOREM EscalationIsJustified == ReaderSpec => UnresponsiveMeansSilent
  <1>1. EscalationInv => "probe" \notin answered /\ overlooked = {}
    BY ReaderAssumption DEF EscalationInv, WindowInv
  <1>2. EscalationInv /\ [ReaderNext]_vars
        => [("NvidiaDriverUnresponsive" \in reported' /\ "NvidiaDriverUnresponsive" \notin reported)
             => "probe" \notin answered /\ overlooked = {}]_vars
    BY <1>1
  <1> QED BY <1>2, InitEscalation, NextKeepsWindow, PTL DEF ReaderSpec, UnresponsiveMeansSilent
=============================================================================
