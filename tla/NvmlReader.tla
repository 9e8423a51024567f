----------------------------- MODULE NvmlReader -----------------------------
(***************************************************************************)
(* The NVML reader (monitors/nvidia/nvml: inflight.go, reader.go,          *)
(* escalation.go, library.go).  Each check makes one driver call at a time *)
(* on a goroutine of its own and waits for it under a deadline; a call     *)
(* that hangs stays in the driver.  Reconcile loads and initializes the    *)
(* library, then watches the checks: when all of them have been in the     *)
(* driver for StallDuration it warns, and probes the driver; when the      *)
(* probe, too, stays stuck for EscalationWindow it reports a fatal         *)
(* condition, unless the host is under memory pressure.                    *)
(*                                                                         *)
(* Time is in ticks of the 30 s at which the monitor calls Reconcile; the  *)
(* 10 s deadline of a call is shorter than a tick.  A time stamp is kept   *)
(* as its age, capped at the largest bound it is compared with.            *)
(***************************************************************************)
EXTENDS Integers, Sequences

CONSTANTS
    Checks,            \* the registered checks, a sequence (Reader.checks)
    StallDuration,     \* stallDuration, in ticks
    EscalationWindow,  \* escalationWindow, in ticks
    GracePeriod,       \* Config.GracePeriod, in ticks
    Renotify           \* classify.WarningReNotifyInterval, in ticks

Registered == {Checks[i] : i \in 1..Len(Checks)}

ASSUME ReaderAssumption ==
    /\ Checks \in Seq(STRING)
    /\ StallDuration \in Nat /\ StallDuration > 1
    /\ EscalationWindow \in Nat \ {0}
    /\ GracePeriod \in Nat /\ Renotify \in Nat \ {0}
    /\ {"init", "probe"} \cap Registered = {}

\* Every Check of a reader: initCheck, probe and the registered ones.
AllChecks == Registered \cup {"init", "probe"}

\* The goroutines of a check: the call that is out, and the last one on its way out.
Slots == {1, 2}
NoSlot == 0

\* A stamp that is not set (a zero time, or a zero inDriverSince).
Unset == -1
Age(cap) == {Unset} \cup 0..cap
Older(a, cap) == IF a = Unset \/ a = cap THEN a ELSE a + 1

Empty == "empty"   \* a result channel without a value
Results == {"notfound", "error", "success", "answer"}

VARIABLES
    call,            \* per check and slot: the goroutine's pc and its fn's value
    result,          \* per check and slot: the value in the result channel
    pending,         \* Check.pending: the slot whose done channel it is
    waiting,         \* the slot a run of the check waits for
    inDriverSince,   \* Check.inDriverSince
    phase,           \* where Reconcile is
    due,             \* Reconcile's ticker has fired
    loaded,          \* how many checks stalledFor has loaded and found stalled
    libLoaded, ready,
    grace,           \* ticks left of the grace period
    libraryWarnings, stuckWarnings, \* renotify trackers: age of the last notification
    gauge,           \* nvml_driver_not_responding
    probeStuckSince,
    held,            \* the last escalation was held at Warning
    reported,        \* the conditions Reconcile returned in this tick
    answered,        \* history: who answered since the escalation window opened
    overlooked       \* history: of these, the checks stalledFor took for stalled since

inflightVars == <<call, result, pending, waiting, inDriverSince>>
initVars == <<libLoaded, ready, grace, libraryWarnings>>
watchVars == <<stuckWarnings, gauge, probeStuckSince, held, reported>>
reconcileVars == <<phase, due, loaded, overlooked>>
vars == <<inflightVars, initVars, watchVars, reconcileVars, answered>>

-----------------------------------------------------------------------------
(* inflight.go *)

NoCall == [pc |-> "none", value |-> "answer"]

\* Mutant: run forgets the call that is out.
Outstanding_Forgotten(c) == FALSE

\* An earlier call of c has not closed its done channel.
Outstanding(c) == pending[c] # NoSlot /\ call[c][pending[c]].pc # "none"

\* The goroutines c does not use.
Free(c) == {s \in Slots : call[c][s].pc = "none"}

\* run starts a call: done and result channels, the stamp, the goroutine.
Start(c, v) ==
    LET s == CHOOSE s \in Free(c) : TRUE IN
        /\ Free(c) # {}
        /\ call' = [call EXCEPT ![c][s] = [pc |-> "driver", value |-> v]]
        /\ result' = [result EXCEPT ![c][s] = Empty]
        /\ pending' = [pending EXCEPT ![c] = s]
        /\ waiting' = [waiting EXCEPT ![c] = s]
        /\ inDriverSince' = [inDriverSince EXCEPT ![c] = 0]

\* The goroutine of a call: fn returns, if the driver lets it, inDriverSince is
\* cleared and the value put into its channel, which has room for it, ...
CallReturns(c, s) ==
    /\ call[c][s].pc = "driver"
    /\ call' = [call EXCEPT ![c][s] = [pc |-> "close", value |-> @.value]]
    /\ inDriverSince' = [inDriverSince EXCEPT ![c] = Unset]
    /\ result' = [result EXCEPT ![c][s] = call[c][s].value]
    /\ answered' = IF probeStuckSince = Unset THEN {} ELSE answered \cup ({c} \cap Registered)
    /\ UNCHANGED <<pending, waiting, initVars, watchVars, reconcileVars>>

\* Mutant: the stamp is cleared again when the goroutine leaves.
CallClose_ClearsStamp(c, s) ==
    /\ call[c][s].pc = "close"
    /\ call' = [call EXCEPT ![c][s] = NoCall]
    /\ result' = [result EXCEPT ![c][s] = IF waiting[c] = s THEN @ ELSE Empty]
    /\ inDriverSince' = [inDriverSince EXCEPT ![c] = Unset]
    /\ UNCHANGED <<pending, waiting, initVars, watchVars, reconcileVars, answered>>

\* ... and done is closed; the value of a run that timed out goes with its channel.
CallClose(c, s) ==
    /\ call[c][s].pc = "close"
    /\ call' = [call EXCEPT ![c][s] = NoCall]
    /\ result' = [result EXCEPT ![c][s] = IF waiting[c] = s THEN @ ELSE Empty]
    /\ UNCHANGED <<pending, waiting, inDriverSince, initVars, watchVars, reconcileVars, answered>>

\* run receives the value before the deadline: Done.
Received(c) == waiting[c] # NoSlot /\ result[c][waiting[c]] # Empty
Finish(c) ==
    /\ Received(c)
    /\ pending' = [pending EXCEPT ![c] = NoSlot]
    /\ waiting' = [waiting EXCEPT ![c] = NoSlot]
    /\ result' = [result EXCEPT ![c][waiting[c]] = Empty]
    /\ UNCHANGED <<call, inDriverSince>>

\* Mutant: a run that times out clears the stamp.
TimeOut_ClearsStamp(c) ==
    /\ waiting[c] # NoSlot
    /\ waiting' = [waiting EXCEPT ![c] = NoSlot]
    /\ inDriverSince' = [inDriverSince EXCEPT ![c] = Unset]
    /\ UNCHANGED <<call, result, pending>>

\* The timer of a run fires: Stuck, and the goroutine stays behind.
TimeOut(c) ==
    /\ waiting[c] # NoSlot
    /\ waiting' = [waiting EXCEPT ![c] = NoSlot]
    /\ UNCHANGED <<call, result, pending, inDriverSince>>

\* The loop of a registered check runs it; a check skips its run until the
\* library is ready, and one whose call is outstanding is Stuck at once.
CheckRun(c) ==
    /\ ready /\ waiting[c] = NoSlot /\ ~Outstanding(c)
    /\ Start(c, "answer")
    /\ UNCHANGED <<initVars, watchVars, reconcileVars, answered>>
CheckReturns(c) ==
    /\ Finish(c) \/ TimeOut(c)
    /\ UNCHANGED <<initVars, watchVars, reconcileVars, answered>>

\* stalledFor's test of one check.
StalledCheck(c) == inDriverSince[c] # Unset /\ inDriverSince[c] >= StallDuration

-----------------------------------------------------------------------------
(* reader.go: before Init has succeeded *)

\* renotify.Tracker.ShouldNotify with its single key.
ShouldNotify(tracker) == tracker = Unset \/ tracker >= Renotify

\* notResponding: the gauge, the tracker and the warning.
notResponding(stuck) ==
    /\ gauge' = stuck
    /\ IF ~stuck THEN stuckWarnings' = Unset /\ reported' = {}
       ELSE IF ShouldNotify(stuckWarnings)
            THEN stuckWarnings' = 0 /\ reported' = {"NvidiaDriverNotResponding"}
            ELSE UNCHANGED stuckWarnings /\ reported' = {}

Return == phase' = "idle" /\ due' = FALSE

\* What a run of Init comes back with (initResult): openLibrary moves on to the
\* next candidate while dlopen fails, so that only a search can find nothing.
InitOutcomes == {"error", "success"} \cup (IF libLoaded THEN {} ELSE {"notfound"})

\* Reconcile runs Init: with the search through the candidates (openLibrary)
\* when no library is loaded yet, on the loaded one otherwise.
ReconcileInit ==
    /\ phase = "idle" /\ due /\ ~ready /\ ~Outstanding("init")
    /\ \E v \in InitOutcomes : Start("init", v)
    /\ phase' = "init"
    /\ UNCHANGED <<initVars, watchVars, due, loaded, overlooked, answered>>

inGracePeriod == grace > 0

\* initStuck: silent in the grace period and before StallDuration.
initStuck == notResponding(~inGracePeriod /\ StalledCheck("init"))

ReconcileInitStuck ==
    /\ \/ phase = "idle" /\ due /\ ~ready /\ Outstanding("init") /\ UNCHANGED inflightVars
       \/ phase = "init" /\ TimeOut("init")
    /\ initStuck /\ Return
    /\ UNCHANGED <<initVars, probeStuckSince, held, loaded, overlooked, answered>>

\* libraryNotFound: one warning per interval, after the grace period.
libraryNotFound ==
    /\ UNCHANGED <<libLoaded, ready>>
    /\ IF ~inGracePeriod /\ ShouldNotify(libraryWarnings)
       THEN libraryWarnings' = 0 /\ reported' = {"NvidiaLibraryNotFound"}
       ELSE UNCHANGED libraryWarnings /\ reported' = {}

\* recordInit, after the library it ran on was kept.
recordInit(v) ==
    /\ libLoaded' = TRUE
    /\ libraryWarnings' = IF libLoaded THEN libraryWarnings ELSE Unset
    /\ ready' = (v = "success")
    /\ reported' = IF v = "success" \/ inGracePeriod THEN {} ELSE {"DCGMError"}

ReconcileInitDone ==
    /\ phase = "init" /\ Finish("init")
    /\ LET v == result["init"][waiting["init"]]
       IN  IF v = "notfound" THEN libraryNotFound ELSE recordInit(v)
    /\ Return
    /\ UNCHANGED <<grace, stuckWarnings, gauge, probeStuckSince, held, loaded, overlooked, answered>>

-----------------------------------------------------------------------------
(* reader.go and escalation.go: after Init *)

\* Mutant: the window is not started over.
NoWindow_Kept == held' = FALSE /\ UNCHANGED probeStuckSince

\* escalate starts its window over.
NoWindow == probeStuckSince' = Unset /\ held' = FALSE

\* The history of the window; there is none while no window is open.
InWindow(a, o) ==
    /\ answered' = IF probeStuckSince' = Unset THEN {} ELSE a
    /\ overlooked' = IF probeStuckSince' = Unset THEN {} ELSE o

\* stalledFor loads the stamps one after the other.
ReconcileLoad ==
    LET c == Checks[loaded + 1]
    IN  /\ phase = "idle" /\ due /\ ready /\ loaded < Len(Checks)
        /\ IF StalledCheck(c)
           THEN loaded' = loaded + 1 /\ UNCHANGED <<phase, due, watchVars>>
           ELSE loaded' = 0 /\ Return /\ notResponding(FALSE) /\ NoWindow
        /\ InWindow(answered, overlooked \cup (IF StalledCheck(c) THEN {c} \cap answered ELSE {}))
        /\ UNCHANGED <<inflightVars, initVars>>

\* The probe reads a counter of every GPU; it only has to come back.
probeDriver == "answer"

\* What the host says of its memory pressure.
hostMemoryPressure == {"low", "high", "unreadable"}

\* All of them have stalled: the warning, and a run of the probe unless its
\* last call is outstanding.
ReconcileStalled ==
    /\ phase = "idle" /\ due /\ ready /\ loaded = Len(Checks) /\ loaded > 0
    /\ notResponding(TRUE)
    /\ loaded' = 0 /\ phase' = "probe"
    /\ IF Outstanding("probe") THEN UNCHANGED inflightVars ELSE Start("probe", probeDriver)
    /\ UNCHANGED <<initVars, probeStuckSince, held, due, overlooked, answered>>

\* The driver answered a light call.
ProbeDone ==
    /\ phase = "probe" /\ Finish("probe")
    /\ NoWindow /\ Return
    /\ InWindow(answered \cup {"probe"}, overlooked)
    /\ UNCHANGED <<initVars, stuckWarnings, gauge, reported, loaded>>

\* The probe is Stuck: the window opens, runs, or ends.  When it has ended the
\* memory pressure is read: high or unreadable, or known and low.
ProbeStuck ==
    /\ phase = "probe"
    /\ IF waiting["probe"] = NoSlot THEN UNCHANGED inflightVars ELSE TimeOut("probe")
    /\ LET since == IF probeStuckSince = Unset THEN 0 ELSE probeStuckSince
       IN  /\ probeStuckSince' = since
           /\ IF since < EscalationWindow THEN UNCHANGED <<held, reported>>
              ELSE \E pressure \in hostMemoryPressure :
                       /\ held' = (pressure # "low")
                       /\ reported' = reported \cup
                              (IF pressure = "low" THEN {"NvidiaDriverUnresponsive"} ELSE {})
    /\ Return
    /\ UNCHANGED <<initVars, stuckWarnings, gauge, loaded, overlooked, answered>>

-----------------------------------------------------------------------------
(* The clock and the driver *)

\* A tick passes: Reconcile is due again.  Deadlines, and the few steps a
\* goroutine takes after its call returned, are shorter than a tick.
Tick ==
    /\ phase = "idle" /\ ~due
    /\ \A c \in AllChecks :
           waiting[c] = NoSlot /\ \A s \in Slots : call[c][s].pc \in {"none", "driver"}
    /\ due' = TRUE /\ reported' = {}
    /\ inDriverSince' = [c \in AllChecks |-> Older(inDriverSince[c], StallDuration)]
    /\ probeStuckSince' = Older(probeStuckSince, EscalationWindow)
    /\ stuckWarnings' = Older(stuckWarnings, Renotify)
    /\ libraryWarnings' = Older(libraryWarnings, Renotify)
    /\ grace' = IF grace = 0 THEN 0 ELSE grace - 1
    /\ UNCHANGED <<call, result, pending, waiting, libLoaded, ready, gauge, held, phase, loaded, overlooked, answered>>

ReaderInit ==
    /\ call = [c \in AllChecks |-> [s \in Slots |-> NoCall]]
    /\ result = [c \in AllChecks |-> [s \in Slots |-> Empty]]
    /\ pending = [c \in AllChecks |-> NoSlot]
    /\ waiting = [c \in AllChecks |-> NoSlot]
    /\ inDriverSince = [c \in AllChecks |-> Unset]
    /\ phase = "idle" /\ due = TRUE /\ loaded = 0
    /\ libLoaded = FALSE /\ ready = FALSE /\ grace = GracePeriod
    /\ libraryWarnings = Unset /\ stuckWarnings = Unset
    /\ gauge = FALSE /\ probeStuckSince = Unset /\ held = FALSE /\ reported = {}
    /\ answered = {} /\ overlooked = {}

Reconcile ==
    \/ ReconcileInit \/ ReconcileInitStuck \/ ReconcileInitDone
    \/ ReconcileLoad \/ ReconcileStalled \/ ProbeDone \/ ProbeStuck

ReaderNext ==
    \/ \E c \in AllChecks , s \in Slots : CallReturns(c, s) \/ CallClose(c, s)
    \/ \E c \in Registered : CheckRun(c) \/ CheckReturns(c)
    \/ Reconcile
    \/ Tick

ReaderSpec == ReaderInit /\ [][ReaderNext]_vars

\* Each check's ticker fires, and the steps that wait for nobody but the agent
\* itself and the clock do not all stop.  Nothing is assumed of the driver.
Progress ==
    \/ Tick \/ Reconcile
    \/ \E c \in AllChecks, s \in Slots : CallClose(c, s)
    \/ \E c \in Registered : CheckReturns(c)
FairReaderSpec ==
    /\ ReaderSpec
    /\ WF_vars(Progress)
    /\ \A c \in Registered : WF_vars(CheckRun(c))

-----------------------------------------------------------------------------
(* Properties *)

ReaderTypeOK ==
    /\ call \in [AllChecks -> [Slots -> [pc : {"none", "driver", "close"}, value : Results]]]
    /\ result \in [AllChecks -> [Slots -> Results \cup {Empty}]]
    /\ pending \in [AllChecks -> Slots \cup {NoSlot}]
    /\ waiting \in [AllChecks -> Slots \cup {NoSlot}]
    /\ inDriverSince \in [AllChecks -> Age(StallDuration)]
    /\ phase \in {"idle", "init", "probe"}
    /\ due \in BOOLEAN /\ loaded \in 0..Len(Checks)
    /\ libLoaded \in BOOLEAN /\ ready \in BOOLEAN /\ grace \in 0..GracePeriod
    /\ libraryWarnings \in Age(Renotify) /\ stuckWarnings \in Age(Renotify)
    /\ gauge \in BOOLEAN
    /\ probeStuckSince \in Age(EscalationWindow)
    /\ held \in BOOLEAN
    /\ reported \subseteq {"NvidiaDriverNotResponding", "NvidiaLibraryNotFound", "DCGMError", "NvidiaDriverUnresponsive"}
    /\ answered \subseteq Registered \cup {"probe"} /\ overlooked \subseteq Registered

\* The calls of c the driver holds.
InDriver(c) == {s \in Slots : call[c][s].pc = "driver"}

\* inflight.go: "a hung driver holds at most one thread per check", however
\* often a check is run, times out and is overtaken by a late answer.
OneCallPerCheck ==
    \A c \in AllChecks : \A s, t \in InDriver(c) : s = t

\* inflight.go: inDriverSince is set exactly while a call of the check is in
\* the driver, and that call is the one pending stands for.  A goroutine that
\* is late in leaving never clears the stamp of the next call.
StampIsTruthful ==
    \A c \in AllChecks :
        /\ inDriverSince[c] # Unset <=> InDriver(c) # {}
        /\ InDriver(c) \subseteq {pending[c]}

\* escalation.go: NvidiaDriverUnresponsive, which lets the node be rebooted, is
\* reported only when, since the window opened, every run of the probe ended
\* Stuck and no registered check had recorded an answer by the time stalledFor
\* read it: "a probe that answers, or checks that answer, start the window over".
UnresponsiveMeansSilent ==
    [][ ("NvidiaDriverUnresponsive" \in reported' /\ "NvidiaDriverUnresponsive" \notin reported)
        => "probe" \notin answered /\ overlooked = {} ]_vars

\* escalation.go: a driver that stops answering for good after Init is reported
\* as unresponsive again and again, unless memory pressure, high or unreadable,
\* holds the report back.
HungDriverIsReported ==
    <>ready => \/ []<>("NvidiaDriverUnresponsive" \in reported \/ held)
               \/ []<>(\E c \in AllChecks, s \in Slots : call[c][s].pc = "close")
=============================================================================
