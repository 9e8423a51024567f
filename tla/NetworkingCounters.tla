------------------------- MODULE NetworkingCounters -------------------------
(***************************************************************************)
(* The networking monitor's counters and agents: allowances of ENA         *)
(* interfaces, the network policy agent (npa), the Corefile agent, and EFA *)
(* hardware counters.                                                      *)
(***************************************************************************)
EXTENDS Pacing, LogHandlers

CONSTANTS
    Stats,          \* allowance statistics of one interface
    MaxCount,       \* how far a counter counts
    EthtoolBurst,   \* the burst of a statistic's limiter, scaled down
    ReNotify        \* the intervals of renotify, in steps of time

ASSUME EthtoolAssumption == MaxCount \in Nat /\ EthtoolBurst \in Nat /\ ReNotify \in Nat

VARIABLES
    counts,         \* the interface's counters
    recorded,       \* per statistic, the value last seen; None at first
    tokens,         \* per statistic, its limiter
    lastWarned,       \* the age of the interface's last Warning
    allowed,        \* history: growth since the limiter was last full
    ethtoolOut      \* the last poll: reported, spiking, and the age before it
ethtoolVars == <<counts, recorded, tokens, lastWarned, allowed, ethtoolOut>>

NoSpike == [reported |-> {}, over |-> {}, spikes |-> {}, age |-> None]
Growth(s) == IF recorded[s] = None THEN 0 ELSE counts[s] - recorded[s]

\* Mutant: the first value of a statistic counts as growth.
Baseline_Zero(s) == IF recorded[s] = None THEN 0 ELSE recorded[s]
Baseline(s) == IF recorded[s] = None THEN counts[s] ELSE recorded[s]

\* handleEthtool and checkEthtool; `read` are the statistics that were there.
\* Notify waits for the manager without a deadline, so it does not fail.
checkEthtool(read) ==
    LET delta(s) == counts[s] - Baseline(s)
        refused == {s \in read : ~AllowN(tokens[s], delta(s), EthtoolBurst)}
        sends == lastWarned = None \/ lastWarned >= ReNotify
    IN  /\ tokens' = [s \in Stats |-> IF s \in read THEN TokensAfter(tokens[s], delta(s), EthtoolBurst) ELSE tokens[s]]
        /\ recorded' = [s \in Stats |-> IF s \in read THEN counts[s] ELSE recorded[s]]
        /\ lastWarned' = IF sends /\ refused # {} THEN 0 ELSE lastWarned
        /\ ethtoolOut' = [reported |-> IF sends THEN refused ELSE {},
                          over |-> {s \in read : Growth(s) > EthtoolBurst - allowed[s]},
                          spikes |-> {s \in read : Growth(s) > EthtoolBurst}, age |-> lastWarned]
        /\ allowed' = [s \in Stats |-> IF s \in read \ refused /\ Growth(s) > 0
                                       THEN Min({allowed[s] + Growth(s), EthtoolBurst}) ELSE allowed[s]]
        /\ UNCHANGED counts

\* The driver counts, or starts over.
Count(s) ==
    /\ counts[s] < MaxCount
    /\ counts' = [counts EXCEPT ![s] = @ + 1] /\ ethtoolOut' = NoSpike
    /\ UNCHANGED <<recorded, tokens, lastWarned, allowed>>
DriverReset ==
    /\ counts' = [s \in Stats |-> 0] /\ ethtoolOut' = NoSpike
    /\ UNCHANGED <<recorded, tokens, lastWarned, allowed>>
EthtoolTick ==
    /\ tokens' = [s \in Stats |-> Refilled(tokens[s], EthtoolBurst)]
    /\ allowed' = [s \in Stats |-> IF allowed[s] = 0 THEN 0 ELSE allowed[s] - 1]
    /\ lastWarned' = Aged(lastWarned, ReNotify) /\ ethtoolOut' = NoSpike
    /\ UNCHANGED <<counts, recorded>>

EthtoolInit ==
    /\ counts \in [Stats -> {0, MaxCount}] /\ recorded = [s \in Stats |-> None]
    /\ tokens = [s \in Stats |-> EthtoolBurst] /\ allowed = [s \in Stats |-> 0]
    /\ lastWarned = None /\ ethtoolOut = NoSpike
EthtoolNext == (\E read \in SUBSET Stats : checkEthtool(read)) \/ (\E s \in Stats : Count(s)) \/ DriverReset \/ EthtoolTick

-----------------------------------------------------------------------------
CONSTANTS
    ConsistencyWindow,  \* npa's consistencyWindow, in steps of time
    RestartWrap,        \* 2^32, scaled down
    RestartThreshold    \* repeatedRestartThreshold, scaled down

ASSUME NpaAssumption == ConsistencyWindow \in Nat

VARIABLES
    npaNotRunning,      \* the age of npaNotRunningTime
    previousRestarts,
    npaRestarts,        \* systemd's NRestarts of the agent
    restartsSince,      \* history: restarts since the last poll that counted them
    lastActive,         \* history: the age of the last poll that found it active, or of the start
    npaOut
npaVars == <<npaNotRunning, previousRestarts, npaRestarts, restartsSince, lastActive, npaOut>>

NoNpa == [reason |-> "none", restarts |-> 0]

\* checkNotRunning's npaNotRunningTime after a poll.
Window(active) == IF active THEN None ELSE IF npaNotRunning = None THEN 0 ELSE npaNotRunning

\* HandleState: without an answer of D-Bus the poll is passed over; an agent
\* that is not active is not asked for its restarts, and may not answer then.
NpaInactive ==
    /\ npaNotRunning' = Window(FALSE)
    /\ npaOut' = [NoNpa EXCEPT !.reason = IF npaNotRunning # None /\ npaNotRunning >= ConsistencyWindow THEN "NPANotRunning" ELSE "none"]
    /\ UNCHANGED <<previousRestarts, npaRestarts, restartsSince, lastActive>>
NpaActive(answers) ==
    /\ npaNotRunning' = Window(TRUE) /\ lastActive' = 0
    /\ previousRestarts' = IF answers THEN npaRestarts ELSE previousRestarts
    /\ restartsSince' = IF answers THEN 0 ELSE restartsSince
    /\ npaOut' = [reason |-> IF answers /\ (npaRestarts - previousRestarts) % RestartWrap >= RestartThreshold
                             THEN "NPARepeatedlyRestart" ELSE "none",
                  restarts |-> restartsSince]
    /\ UNCHANGED npaRestarts
\* systemd restarts the agent, or somebody starts it by hand.
NpaRestarts ==
    /\ npaRestarts < RestartWrap - 1 /\ restartsSince < RestartThreshold
    /\ npaRestarts' = npaRestarts + 1 /\ restartsSince' = restartsSince + 1 /\ npaOut' = NoNpa
    /\ UNCHANGED <<npaNotRunning, previousRestarts, lastActive>>
NpaStarted ==
    /\ npaRestarts' = 0 /\ npaOut' = NoNpa
    /\ UNCHANGED <<npaNotRunning, previousRestarts, restartsSince, lastActive>>
NpaTick ==
    /\ npaNotRunning' = Aged(npaNotRunning, ConsistencyWindow) /\ lastActive' = Aged(lastActive, ConsistencyWindow)
    /\ npaOut' = NoNpa
    /\ UNCHANGED <<previousRestarts, npaRestarts, restartsSince>>

NpaInit ==
    /\ npaNotRunning = None /\ previousRestarts = 0 /\ npaRestarts = 0 /\ restartsSince = 0
    /\ lastActive = 0 /\ npaOut = NoNpa
NpaNext == NpaInactive \/ (\E answers \in BOOLEAN : NpaActive(answers)) \/ NpaRestarts \/ NpaStarted \/ NpaTick

-----------------------------------------------------------------------------
CONSTANT Failures   \* outcomes of the Corefile agent that are reported: reason and SHAs

ASSUME FailuresAssumption == Failures \cap {"none", "ok"} = {}

VARIABLES
    outcome,        \* what /readyz answers: a failure, "ok", "initializing" or "down"
    corefile,       \* the renotify tracker
    lastTold,       \* history: what was last told and when, since the last "ok"
    corefileOut     \* the last poll: what was told, and lastTold before
corefileVars == <<outcome, corefile, lastTold, corefileOut>>

Untold == [told |-> "none", before |-> NoKey, polled |-> FALSE]

Recorded(sent, key) == IF sent THEN Notified(key) ELSE corefile

\* HandleState; Notify may run into the poll's deadline.
PollReadyz(sent) ==
    /\ \/ outcome = "ok" /\ corefile' = NoKey /\ lastTold' = NoKey /\ corefileOut' = Untold
       \/ /\ outcome \in Failures => ~ShouldNotify(corefile, outcome, ReNotify)
          /\ outcome # "ok"
          /\ corefileOut' = [told |-> "none", before |-> lastTold, polled |-> outcome \in Failures]
          /\ UNCHANGED <<corefile, lastTold>>
       \/ /\ outcome \in Failures /\ ShouldNotify(corefile, outcome, ReNotify)
          /\ corefile' = Recorded(sent, outcome)
          /\ lastTold' = IF sent THEN Notified(outcome) ELSE lastTold
          /\ corefileOut' = [told |-> IF sent THEN outcome ELSE "none", before |-> lastTold, polled |-> sent]
    /\ UNCHANGED outcome
OutcomeChanges ==
    /\ outcome' \in (Failures \cup {"ok", "initializing", "down"}) \ {outcome} /\ corefileOut' = Untold
    /\ UNCHANGED <<corefile, lastTold>>
CorefileTick ==
    /\ corefile' = [corefile EXCEPT !.age = Aged(@, ReNotify)] /\ lastTold' = [lastTold EXCEPT !.age = Aged(@, ReNotify)]
    /\ corefileOut' = Untold
    /\ UNCHANGED outcome

CorefileInit == outcome = "ok" /\ corefile = NoKey /\ lastTold = NoKey /\ corefileOut = Untold
CorefileNext == (\E sent \in BOOLEAN : PollReadyz(sent)) \/ OutcomeChanges \/ CorefileTick

-----------------------------------------------------------------------------
CONSTANT EfaBurst   \* the burst of a counter's limiter, scaled down

ASSUME EfaAssumption == EfaBurst \in Nat

VARIABLES
    efaCount,       \* a hardware counter of the device
    counterValue,   \* the tracker's value; 0 at first
    efaTokens,
    efaGrown,       \* history: what the device counted since the last reading
    efaBefore,      \* history: what it held when the agent started, until it is read
    efaSafe,        \* history: growth since the limiter was last full
    efaOut
efaVars == <<efaCount, counterValue, efaTokens, efaGrown, efaBefore, efaSafe, efaOut>>

\* HardwareCounters and Process for a counter that can be read; others, and
\* devices that are not EFA's, are passed over.
Process ==
    LET delta == efaCount - counterValue
        refused == ~AllowN(efaTokens, delta, EfaBurst)
        new == efaGrown + efaBefore
    IN  /\ efaOut' = [reported |-> refused, over |-> new > EfaBurst - efaSafe]
        /\ efaTokens' = TokensAfter(efaTokens, delta, EfaBurst)
        /\ efaSafe' = IF refused THEN efaSafe ELSE Min({efaSafe + new, EfaBurst})
        /\ efaGrown' = 0 /\ efaBefore' = 0
        /\ counterValue' = efaCount
        /\ UNCHANGED efaCount
EfaCounts ==
    /\ efaCount < MaxCount /\ efaGrown < MaxCount
    /\ efaCount' = efaCount + 1 /\ efaGrown' = efaGrown + 1 /\ efaOut' = [reported |-> FALSE, over |-> FALSE]
    /\ UNCHANGED <<counterValue, efaTokens, efaBefore, efaSafe>>
EfaReset ==
    /\ efaCount' = 0 /\ efaBefore' = 0 /\ efaOut' = [reported |-> FALSE, over |-> FALSE]
    /\ UNCHANGED <<counterValue, efaTokens, efaGrown, efaSafe>>
EfaTick ==
    /\ efaTokens' = Refilled(efaTokens, EfaBurst) /\ efaSafe' = (IF efaSafe = 0 THEN 0 ELSE efaSafe - 1)
    /\ efaOut' = [reported |-> FALSE, over |-> FALSE]
    /\ UNCHANGED <<efaCount, counterValue, efaGrown, efaBefore>>

EfaInit ==
    /\ efaCount \in 0..MaxCount /\ counterValue = 0 /\ efaTokens = EfaBurst
    /\ efaGrown = 0 /\ efaBefore = efaCount /\ efaSafe = 0
    /\ efaOut = [reported |-> FALSE, over |-> FALSE]
EfaNext == Process \/ EfaCounts \/ EfaReset \/ EfaTick

-----------------------------------------------------------------------------
(* Properties *)

\* A statistic is reported only if it grew by more than the burst since its
\* limiter was full, and never for what it counted before the agent saw it; and
\* growth beyond the burst between two polls is reported unless the interface
\* was warned about within the interval (networking/monitor.go, checkEthtool).
EthtoolSpikesOnly ==
    /\ ethtoolOut.reported \subseteq ethtoolOut.over
    /\ ethtoolOut.age = None \/ ethtoolOut.age >= ReNotify => ethtoolOut.spikes \subseteq ethtoolOut.reported

\* An EFA counter is reported only if the device counted more than the burst
\* since its limiter was full, whatever resets came in between; the first reading
\* also counts what the counter held when the agent started, as the tracker
\* begins with 0 (efa.go, Process).
EFABurstsOnly == efaOut.reported => efaOut.over

\* The network policy agent is reported as not running only if no poll found it
\* active for as long as the window (npa.go, checkNotRunning).
NPADownIsSustained == npaOut.reason = "NPANotRunning" => lastActive >= ConsistencyWindow

\* "NRestarts delta within a single poll interval" (npa.go): a crash loop is
\* reported only if the agent restarted that often since the last poll.
NPARestartsAreReal == npaOut.reason = "NPARepeatedlyRestart" => npaOut.restarts >= RestartThreshold

\* A failure of the Corefile agent is told when it is new or the interval has
\* passed, and only then; a notification that failed does not count
\* (corefile.go, HandleState).
CorefileToldWhenDue ==
    corefileOut.polled =>
        (corefileOut.told # "none" <=> ShouldNotify(corefileOut.before, outcome, ReNotify))
=============================================================================
