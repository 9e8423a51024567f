---------------------------- MODULE ProbeRunner -----------------------------
(***************************************************************************)
(* The probe runner (pkg/probe/runner.go): every cycle asks an agent's     *)
(* liveness check and, when that is healthy, its readiness check, counts   *)
(* each check's results and reports an episode of failures once, with      *)
(* thresholds on both edges and a grace period after the start.            *)
(***************************************************************************)
EXTENDS Integers, Sequences

CONSTANTS
  FailureThreshold,   \* consecutive failures before a report
  RecoveryThreshold,  \* consecutive healthy results before recovery, 0 for the default
  SeverityOf,         \* severity of each check
  HasReadiness,       \* the spec has a readiness check
  MaxCycles           \* bound: cycles of the probe

Checks == {"liveness"} \cup (IF HasReadiness THEN {"readiness"} ELSE {})

Severity == {"Info", "Warning", "Fatal"}

ASSUME ProbeAssumption ==
  /\ FailureThreshold \in Nat \ {0}
  /\ RecoveryThreshold \in Nat
  /\ HasReadiness \in BOOLEAN
  /\ SeverityOf \in [Checks -> Severity]
  /\ MaxCycles \in Nat

Outcome == {"Healthy", "Unhealthy", "Unknown"}

VARIABLES
  state,     \* per check, its checkState
  inGrace,   \* the startup grace period is not over
  cycles,    \* cycles so far
  results,   \* history: per check, results that count, with the grace flag
  notified   \* history: per check, the notification of each of those results

runnerVars == <<state, inGrace, cycles, results, notified>>

CheckState == [consecutiveFailures : Nat, consecutiveHealthy : Nat, fired : BOOLEAN,
               streakStartedInGrace : BOOLEAN]

Notification == {"none", "Failure", "Resolved", "Summary"}

-----------------------------------------------------------------------------
(* apply *)

recoveryThreshold == IF RecoveryThreshold = 0 THEN 1 ELSE RecoveryThreshold

\* What the check does with a result: its new state and its notification.
Effect(cs, note) == [state |-> cs, note |-> note]

Recovering(cs) == [cs EXCEPT !.consecutiveFailures = 0, !.consecutiveHealthy = @ + 1]

\* The first healthy result resolves, whatever the threshold.
applyHealthy_First(c, cs) ==
  IF cs.fired
  THEN Effect([cs EXCEPT !.fired = FALSE, !.consecutiveFailures = 0],
              IF SeverityOf[c] = "Fatal" THEN "Resolved" ELSE "none")
  ELSE Effect([cs EXCEPT !.consecutiveFailures = 0], "none")

applyHealthy(c, cs) ==
  IF ~cs.fired
  THEN Effect([cs EXCEPT !.consecutiveFailures = 0],
              IF cs.consecutiveFailures = 0 \/ cs.streakStartedInGrace
              THEN "none" ELSE "Summary")
  ELSE IF Recovering(cs).consecutiveHealthy < recoveryThreshold
  THEN Effect(Recovering(cs), "none")
  ELSE Effect([cs EXCEPT !.consecutiveFailures = 0, !.consecutiveHealthy = 0, !.fired = FALSE],
              IF SeverityOf[c] = "Fatal" THEN "Resolved" ELSE "none")

\* The grace flag follows the last failure of a streak.
Failing_LastGrace(cs) ==
  [cs EXCEPT !.consecutiveFailures = @ + 1, !.consecutiveHealthy = 0,
             !.streakStartedInGrace = inGrace]

Failing(cs) ==
  [cs EXCEPT !.consecutiveFailures = @ + 1, !.consecutiveHealthy = 0,
             !.streakStartedInGrace = IF cs.consecutiveFailures = 0 THEN inGrace ELSE @]

applyUnhealthy(cs) ==
  IF cs.fired \/ inGrace \/ Failing(cs).consecutiveFailures < FailureThreshold
  THEN Effect(Failing(cs), "none")
  ELSE Effect([Failing(cs) EXCEPT !.fired = TRUE], "Failure")

apply(c, outcome) ==
  CASE outcome = "Healthy"   -> applyHealthy(c, state[c])
    [] outcome = "Unhealthy" -> applyUnhealthy(state[c])
    [] outcome = "Unknown"   -> Effect(state[c], "none")

-----------------------------------------------------------------------------
(* runOnce *)

\* The checks that run when liveness says so.
Ran(outcome) ==
  {c \in Checks : c = "liveness" \/ outcome["liveness"] = "Healthy"}

\* One cycle, with the outcome each check would have.
runOnce(outcome) ==
  /\ cycles < MaxCycles
  /\ cycles' = cycles + 1
  /\ state' = [c \in Checks |->
       IF c \in Ran(outcome) THEN apply(c, outcome[c]).state ELSE state[c]]
  /\ LET counted == {c \in Ran(outcome) : outcome[c] # "Unknown"}
     IN /\ results' = [c \in Checks |->
             IF c \in counted
             THEN Append(results[c], [healthy |-> outcome[c] = "Healthy", grace |-> inGrace])
             ELSE results[c]]
        /\ notified' = [c \in Checks |->
             IF c \in counted THEN Append(notified[c], apply(c, outcome[c]).note)
             ELSE notified[c]]
  /\ UNCHANGED inGrace

\* The grace period ends between two cycles.
GraceEnds ==
  /\ inGrace
  /\ inGrace' = FALSE
  /\ UNCHANGED <<state, cycles, results, notified>>

-----------------------------------------------------------------------------
(* Specification *)

RunnerInit ==
  /\ state = [c \in Checks |-> [consecutiveFailures |-> 0, consecutiveHealthy |-> 0,
                                fired |-> FALSE, streakStartedInGrace |-> FALSE]]
  /\ inGrace \in BOOLEAN
  /\ cycles = 0
  /\ results = [c \in Checks |-> <<>>]
  /\ notified = [c \in Checks |-> <<>>]

RunnerNext == (\E outcome \in [Checks -> Outcome] : runOnce(outcome)) \/ GraceEnds

RunnerSpec == RunnerInit /\ [][RunnerNext]_runnerVars

-----------------------------------------------------------------------------
(* Properties *)

RunnerTypeOK ==
  /\ state \in [Checks -> CheckState]
  /\ \A c \in Checks : /\ state[c].consecutiveHealthy < recoveryThreshold
                       /\ ~state[c].fired => state[c].consecutiveHealthy = 0
  /\ inGrace \in BOOLEAN
  /\ cycles \in Nat
  /\ \A c \in Checks : /\ results[c] \in Seq([healthy : BOOLEAN, grace : BOOLEAN])
                       /\ notified[c] \in Seq(Notification)
                       /\ Len(results[c]) = Len(notified[c])

\* The last n of the first i results of check c all have this health.
Run(c, i, n, healthy) ==
  /\ n <= i
  /\ \A k \in (i - n + 1)..i : results[c][k].healthy = healthy

(***************************************************************************)
(* What the counters are for: a failure is outstanding exactly if enough   *)
(* consecutive failures were seen, the last of them outside the grace      *)
(* period, and since then never enough consecutive healthy results.        *)
(* Results that could not be obtained (Unknown, or readiness skipped while *)
(* liveness is unhealthy) interrupt neither.                               *)
(***************************************************************************)
Outstanding(c, n) ==
  \E i \in 1..n :
    /\ ~results[c][i].grace
    /\ Run(c, i, FailureThreshold, FALSE)
    /\ \A j \in (i + recoveryThreshold)..n : ~Run(c, j, recoveryThreshold, TRUE)

(***************************************************************************)
(* The runner notifies the edges of that definition and nothing else: one  *)
(* report when a failure becomes outstanding and, for a fatal check, one   *)
(* resolution when it no longer is (applyUnhealthy, applyHealthy).         *)
(***************************************************************************)
ReportsAreEdges ==
  \A c \in Checks : \A n \in 1..Len(results[c]) :
    /\ notified[c][n] = "Failure" <=> Outstanding(c, n) /\ ~Outstanding(c, n - 1)
    /\ SeverityOf[c] = "Fatal" =>
         (notified[c][n] = "Resolved" <=> ~Outstanding(c, n) /\ Outstanding(c, n - 1))

(***************************************************************************)
(* A streak of failures that ends unreported, and did not begin in the     *)
(* grace period, leaves exactly one summary, at its end; no other healthy  *)
(* result does (applyHealthy).                                             *)
(***************************************************************************)
SummariesEndShortStreaks ==
  \A c \in Checks : \A n \in 1..Len(results[c]) :
    notified[c][n] = "Summary" <=>
      /\ results[c][n].healthy
      /\ ~Outstanding(c, n - 1)
      /\ \E k \in 1..(n - 1) :
           /\ Run(c, n - 1, n - k, FALSE)
           /\ k = 1 \/ results[c][k - 1].healthy
           /\ ~results[c][k].grace
=============================================================================
