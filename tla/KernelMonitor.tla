---------------------------- MODULE KernelMonitor ----------------------------
(***************************************************************************)
(* The kernel monitor's handlers that keep state or poll: cron jobs,       *)
(* zombies with the manager's count of occurrences, and the levels of      *)
(* system resources.                                                       *)
(***************************************************************************)
EXTENDS Pacing, LogHandlers

CONSTANTS
    Users,          \* the users whose jobs cron runs
    Commands,       \* the commands of their jobs
    MinNumMinutes,  \* minNumMiniutes, in steps of time
    YearLength,     \* a year, in steps of time
    MaxTime         \* how long cron is followed

ASSUME CronAssumption == MinNumMinutes \in Nat /\ YearLength \in Nat \ {0} /\ MaxTime \in Nat

VARIABLES
    now,        \* the time since the beginning of some year
    cronCache,  \* cron.cache: the timestamp of a user's last line, without a year
    lastLine,   \* history: when cron last ran something for a user
    lastRun,    \* history: when cron last ran a job, a command of a user
    cronOut     \* the last line: was it reported, the time since its job ran and
                \* since its user's last line, and whether a year ended since that
cronVars == <<now, cronCache, lastLine, lastRun, cronOut>>

NoLine == [reported |-> FALSE, gap |-> None, userGap |-> None, newYear |-> FALSE]

\* Mutant: the comparison is the wrong way round.
Rapid_Late(u, timestamp) == cronCache[u] # None /\ timestamp >= cronCache[u] + MinNumMinutes
\* timestamp.Before(lastSeen.Add(minNumMiniutes)); the log has no year, so
\* timestamps start over with every year.
Rapid(u, timestamp) == cronCache[u] # None /\ timestamp < cronCache[u] + MinNumMinutes

Since(time) == IF time = None THEN None ELSE now - time

\* cron.handle for the CMD line of command c of user u.  The variable `command'
\* of the code, segments[5], is the user of a line "... CROND[pid]: (user) CMD
\* (command)", so the jobs of one user share an entry of the cache.
CronLine(u, c) ==
    LET timestamp == now % YearLength
    IN  /\ cronOut' = [reported |-> Rapid(u, timestamp), gap |-> Since(lastRun[u][c]), userGap |-> Since(lastLine[u]),
                       newYear |-> lastLine[u] # None /\ now \div YearLength # lastLine[u] \div YearLength]
        /\ cronCache' = [cronCache EXCEPT ![u] = timestamp]
        /\ lastLine' = [lastLine EXCEPT ![u] = now]
        /\ lastRun' = [lastRun EXCEPT ![u] = [lastRun[u] EXCEPT ![c] = now]]
        /\ UNCHANGED now
CronTime ==
    /\ now < MaxTime
    /\ now' = now + 1 /\ cronOut' = NoLine
    /\ UNCHANGED <<cronCache, lastLine, lastRun>>

CronInit ==
    /\ now = 0 /\ cronOut = NoLine
    /\ cronCache = [u \in Users |-> None] /\ lastLine = [u \in Users |-> None]
    /\ lastRun = [u \in Users |-> [c \in Commands |-> None]]
CronNext == CronTime \/ \E u \in Users, c \in Commands : CronLine(u, c)

-----------------------------------------------------------------------------
VARIABLES
    occurrences,    \* the manager's count of ExcessiveZombieProcesses
    streak,         \* history: polls in a row that saw too many zombies
    zombieOut       \* the last poll was reported to the exporter
zombieVars == <<occurrences, streak, zombieOut>>

\* handleZombies, checkZombies and the manager's debounce (exportCondition): the
\* count of a reason grows with every notification, however long ago the last
\* one was, until the one that finds the minimum reached is passed on.
checkZombies(count) ==
    LET over == count >= 20
        enough == occurrences >= MinOccurrences("ExcessiveZombieProcesses")
    IN  /\ occurrences' = IF ~over THEN occurrences ELSE IF enough THEN 0 ELSE occurrences + 1
        /\ zombieOut' = (over /\ enough)
        /\ streak' = IF ~over THEN 0 ELSE IF streak < 5 THEN streak + 1 ELSE streak

ZombieInit == occurrences = 0 /\ streak = 0 /\ zombieOut = FALSE
ZombieNext == \E count \in {19, 20} : checkZombies(count)

-----------------------------------------------------------------------------
VARIABLE levels    \* the reasons the last polls of the resources reported

\* A share of at least seven tenths; Go's division by zero exceeds it.
AtLeast70Percent(used, total) == used * 10 >= total * 7
checkOpenedFiles(allocated, total) ==
    IF AtLeast70Percent(allocated, total) THEN {Build("ApproachingMaxOpenFiles")} ELSE {}
\* handlePids: the larger of pid_max and threads-max is the limit.
checkPids(cur, pidMax, threadMax) ==
    LET limit == IF pidMax < threadMax THEN threadMax ELSE pidMax
    IN  IF AtLeast70Percent(cur, limit) THEN {Build("ApproachingKernelPidMax")} ELSE {}
\* handleZram passes over an empty device.
checkZram(orig, disksize) ==
    IF orig # 0 /\ disksize # 0 /\ orig * 10 > disksize THEN {Build("ZramHighUsage")} ELSE {}
checkEnvironment(count) == IF count > 1000 THEN {Build("LargeEnvironment")} ELSE {}
checkClockSync(unsync) == IF unsync THEN {Build("ClockUnsynchronized")} ELSE {}

\* The five pollers are independent of each other.
LevelPoll ==
    \/ \E allocated \in {69, 70} : levels' = checkOpenedFiles(allocated, 100)
    \/ \E cur \in {69, 70}, pidMax \in {100, 101} : levels' = checkPids(cur, pidMax, 100)
    \/ \E orig \in {0, 10, 11}, disksize \in {0, 100} : levels' = checkZram(orig, disksize)
    \/ \E count \in {1000, 1001} : levels' = checkEnvironment(count)
    \/ \E unsync \in BOOLEAN : levels' = checkClockSync(unsync)

-----------------------------------------------------------------------------
(* Properties *)

\* A cron job that runs again within five minutes is reported, also across the
\* end of a year; and a line is reported only if cron ran something for the same
\* user, this job or another one, within five minutes, or if a year ended since
\* it last did (kernel/monitor.go, cron.handle).
CronExact ==
    /\ cronOut.gap # None /\ cronOut.gap < MinNumMinutes => cronOut.reported
    /\ cronOut.reported =>
          cronOut.userGap # None /\ (cronOut.userGap < MinNumMinutes \/ cronOut.newYear)

\* "A cron job is running faster than every five minutes" (reasons.yaml,
\* RapidCron): only a job that itself ran within five minutes is reported.  It
\* does not hold: two jobs of one user that run one after the other are.
RapidJobsOnly ==
    cronOut.reported => cronOut.gap # None /\ (cronOut.gap < MinNumMinutes \/ cronOut.newYear)

\* "seeing this 5 times is already 25 minutes of prolonged exposure"
\* (kernel/monitor.go): a report of zombies means five polls in a row.
ZombiesProlonged == zombieOut => streak >= 5
=============================================================================
