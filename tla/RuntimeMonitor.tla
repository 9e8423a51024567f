--------------------------- MODULE RuntimeMonitor ---------------------------
(***************************************************************************)
(* The container-runtime monitor: restarts of systemd units, containerd's  *)
(* deprecation warnings with the annotation they set on the node, and the  *)
(* rates of failing probes.                                                *)
(***************************************************************************)
EXTENDS Pacing, LogHandlers

CONSTANTS
    Units,                  \* systemd services
    MaxRestarts,            \* how often a unit restarts before it is reset
    DeprecationInterval,    \* containerdDeprecationInterval, in steps of time
    ProbeBurst              \* the burst of the probes' limiters

ASSUME RuntimeAssumption == "none" \notin Units /\ ProbeBurst \in Nat

VARIABLES
    nRestarts,          \* systemd's NRestarts
    unitRestartCount,   \* the restarts the monitor has recorded; 0 at first
    told,               \* history: the restarts last reported
    wasReset            \* history: units reset since they were last reported
unitVars == <<nRestarts, unitRestartCount, told, wasReset>>

MinRestarts == 3
NoUnit == "none"

\* Mutant: the comparison is with what was reported before this agent started.
Restarting_FirstOnly(u) == nRestarts[u] > MinRestarts /\ unitRestartCount[u] = 0
Restarting(u) == nRestarts[u] > MinRestarts /\ nRestarts[u] > unitRestartCount[u]

\* handleSystemdServices walks the units in any order.  `passed` are the units
\* it went by before it returned: at the first one that is restarting (hit), at
\* an error, or at the end of the list.
handleSystemdServices(passed, hit) ==
    /\ \A u \in passed : ~Restarting(u)
    /\ hit # NoUnit => hit \notin passed /\ Restarting(hit)
    /\ unitRestartCount' =
          [u \in Units |-> IF u \in passed \cup {hit} /\ nRestarts[u] # 0 THEN nRestarts[u] ELSE unitRestartCount[u]]
    /\ told' = [u \in Units |-> IF u = hit THEN nRestarts[u] ELSE told[u]]
    /\ wasReset' = wasReset \ {hit}
    /\ UNCHANGED nRestarts

UnitRestarts(u) ==
    /\ nRestarts[u] < MaxRestarts
    /\ nRestarts' = [nRestarts EXCEPT ![u] = @ + 1]
    /\ UNCHANGED <<unitRestartCount, told, wasReset>>
\* A unit started by hand counts anew.
UnitReset(u) ==
    /\ nRestarts' = [nRestarts EXCEPT ![u] = 0] /\ wasReset' = wasReset \cup {u}
    /\ UNCHANGED <<unitRestartCount, told>>

UnitInit ==
    /\ nRestarts \in [Units -> {0, MinRestarts + 1}]
    /\ unitRestartCount = [u \in Units |-> 0] /\ told = [u \in Units |-> 0] /\ wasReset = {}
UnitNext ==
    \/ \E passed \in SUBSET Units, hit \in Units \cup {NoUnit} : handleSystemdServices(passed, hit)
    \/ \E u \in Units : UnitRestarts(u) \/ UnitReset(u)

-----------------------------------------------------------------------------
VARIABLES
    lastOccurrence, \* the age of the schema-1 warning that containerd lists
    annotation      \* the age of the time in the node's annotation
manifestVars == <<lastOccurrence, annotation>>

Unparsable == -2
Recent == lastOccurrence # None /\ lastOccurrence < DeprecationInterval

\* handleContainerd, checkContainerdWarnings and reconcileManifestWarning, on a
\* node of Auto Mode.  It does nothing if `ctr`, Get or Patch fails; other
\* warnings are only notified.
handleContainerd(failed) ==
    /\ annotation' =
          IF failed THEN annotation
          ELSE IF Recent THEN lastOccurrence
          ELSE IF annotation = Unparsable \/ annotation > DeprecationInterval THEN None ELSE annotation
    /\ UNCHANGED lastOccurrence

ManifestPulled == lastOccurrence' = 0 /\ UNCHANGED annotation
ManifestTick ==
    /\ lastOccurrence' = Aged(lastOccurrence, DeprecationInterval + 1)
    /\ annotation' = IF annotation = Unparsable THEN annotation ELSE Aged(annotation, DeprecationInterval + 1)

ManifestInit == lastOccurrence = None /\ annotation \in {None, Unparsable}
ManifestNext == (\E failed \in BOOLEAN : handleContainerd(failed)) \/ ManifestPulled \/ ManifestTick

-----------------------------------------------------------------------------
VARIABLES
    probeTokens,    \* the tokens of readinessProbeLimiter (the other is alike)
    sinceFull,      \* history: failures since the bucket was last full
    probeOut        \* the last line was reported
probeVars == <<probeTokens, sinceFull, probeOut>>

\* handleKubelet for a line about a failed probe, if no earlier rule matches.
ProbeFails ==
    /\ probeOut' = ~AllowN(probeTokens, 1, ProbeBurst)
    /\ probeTokens' = TokensAfter(probeTokens, 1, ProbeBurst)
    /\ sinceFull' = IF sinceFull > ProbeBurst THEN sinceFull ELSE sinceFull + 1
ProbeTick ==
    /\ probeTokens' = Refilled(probeTokens, ProbeBurst) /\ probeOut' = FALSE
    /\ sinceFull' = IF probeTokens' = ProbeBurst THEN 0 ELSE sinceFull

ProbeInit == probeTokens = ProbeBurst /\ sinceFull = 0 /\ probeOut = FALSE
ProbeNext == ProbeFails \/ ProbeTick

-----------------------------------------------------------------------------
(* Properties *)

\* handleSystemdServices stops at the first unit it reports, and still no
\* restart is taken for reported that was not: what is recorded of a unit
\* beyond the minimum has been reported, unless the unit was reset
\* (runtime/monitor.go).
RestartsNotForgotten ==
    \A u \in Units : unitRestartCount[u] > MinRestarts /\ u \notin wasReset => told[u] = unitRestartCount[u]

\* A failing probe is reported only after more failures than the burst since
\* the limiter was last full (runtime/monitor.go, handleKubelet).
SafeRateIsQuiet == probeOut => sinceFull > ProbeBurst
=============================================================================
