--------------------------- MODULE StorageMonitor ---------------------------
(***************************************************************************)
(* The storage monitor's polls: I/O delays of processes, measured against  *)
(* a cache with a time to live, throttling counters of EBS volumes, and    *)
(* the free extents of XFS.                                                *)
(***************************************************************************)
EXTENDS Pacing, LogHandlers

CONSTANTS
    Pids,           \* process IDs, each with one name
    TTL,            \* IODelayCacheDefaultExpirationTime, in steps of time
    DelayThreshold, \* ioDelayThresholdSeconds
    MaxDelay,       \* how long a process is delayed at most
    MaxProcesses,   \* how many processes use an ID
    Volumes,
    Wrap,           \* 2^64, scaled down
    Throttled       \* the thresholds of throttling, scaled down

ASSUME StorageAssumption ==
    /\ TTL \in Nat /\ DelayThreshold \in Nat
    /\ Throttled \in Nat /\ Wrap \in Nat /\ Throttled + 1 < Wrap

VARIABLES
    procs,      \* per ID, the process that has it and its delay so far
    delayCache, \* per ID, the delay last seen and its age
    lastSeen,   \* history: the process and delay of the last poll
    ioOut       \* the last poll: reported, incurred and owed delays
ioVars == <<procs, delayCache, lastSeen, ioOut>>

NoDelays == [reported |-> {}, real |-> {}, owed |-> {}]
Fresh(p) == delayCache[p].age # None /\ delayCache[p].age <= TTL

\* Mutant: the whole delay of a process is taken for its growth.
Delta_Total(p) == procs[p].delay
Delta(p) == procs[p].delay - delayCache[p].delay

\* handleIODelays and checkIODelays: a process that cannot be read is left
\* out; the first sight of one is only recorded.  Pids are processes whose
\* names have no spaces: the code splits the stat line at spaces, and takes
\* another column for the delay of the others.
IoPoll(readable) ==
    LET same(p) == lastSeen[p].id = procs[p].id
        incurred(p) == IF same(p) THEN procs[p].delay - lastSeen[p].delay ELSE procs[p].delay
    IN  /\ ioOut' = [reported |-> {p \in readable : Fresh(p) /\ Delta(p) >= DelayThreshold},
                     real |-> {p \in Pids : incurred(p) >= DelayThreshold},
                     owed |-> {p \in readable : Fresh(p) /\ same(p) /\ incurred(p) >= DelayThreshold}]
        /\ delayCache' = [p \in Pids |-> IF p \in readable THEN [delay |-> procs[p].delay, age |-> 0] ELSE delayCache[p]]
        /\ lastSeen' = [p \in Pids |-> IF p \in readable THEN procs[p] ELSE lastSeen[p]]
        /\ UNCHANGED procs

\* A process is delayed, or ends and another one with its name gets its ID.
IoDelay(p) ==
    /\ procs[p].delay < MaxDelay
    /\ procs' = [procs EXCEPT ![p].delay = @ + 1] /\ ioOut' = NoDelays
    /\ UNCHANGED <<delayCache, lastSeen>>
IoReuse(p) ==
    /\ procs[p].id < MaxProcesses
    /\ procs' = [procs EXCEPT ![p] = [id |-> @.id + 1, delay |-> 0]] /\ ioOut' = NoDelays
    /\ UNCHANGED <<delayCache, lastSeen>>
IoTick ==
    /\ delayCache' = [p \in Pids |-> [delayCache[p] EXCEPT !.age = Aged(@, TTL + 1)]]
    /\ ioOut' = NoDelays
    /\ UNCHANGED <<procs, lastSeen>>

IoInit ==
    /\ procs = [p \in Pids |-> [id |-> 1, delay |-> 0]]
    /\ delayCache = [p \in Pids |-> [delay |-> 0, age |-> None]]
    /\ lastSeen = [p \in Pids |-> [id |-> 0, delay |-> 0]] /\ ioOut = NoDelays
IoNext == IoTick \/ (\E readable \in SUBSET Pids : IoPoll(readable)) \/ \E p \in Pids : IoDelay(p) \/ IoReuse(p)

-----------------------------------------------------------------------------
VARIABLES
    stats,      \* per volume, the time it was throttled (one of four statistics)
    lastExceeded, \* the statistics of the last poll that read them; 0 at first
    growth,     \* history: the time a volume was throttled since it was last read
    attached,   \* history: volumes that stayed attached since they were last read
    ebsOut
ebsVars == <<stats, lastExceeded, growth, attached, ebsOut>>

NoThrottles == [reported |-> {}, real |-> {}, owed |-> {}]

Kept(diff) == diff > 0

\* NVMeThrottles and checkVolumeStatistics: the devices of a volume are tried
\* until one identifies itself, and its statistics are read from that one.
NVMeThrottles(readable) ==
    LET diff(v) == (stats[v] - lastExceeded[v]) % Wrap
    IN  /\ lastExceeded' = [v \in Volumes |-> IF v \in readable /\ Kept(diff(v)) THEN stats[v] ELSE lastExceeded[v]]
        /\ ebsOut' = [reported |-> {v \in readable : diff(v) > Throttled},
                      real |-> {v \in Volumes : growth[v] > Throttled},
                      owed |-> {v \in readable : v \in attached /\ growth[v] > Throttled}]
        /\ growth' = [v \in Volumes |-> IF v \in readable THEN 0 ELSE growth[v]]
        /\ attached' = attached \cup readable
        /\ UNCHANGED stats

Throttle(v) ==
    /\ stats[v] < Wrap - 1 /\ growth[v] < Wrap - 1
    /\ stats' = [stats EXCEPT ![v] = @ + 1] /\ growth' = [growth EXCEPT ![v] = @ + 1]
    /\ ebsOut' = NoThrottles
    /\ UNCHANGED <<lastExceeded, attached>>
\* A volume that is attached anew starts with new statistics.
Reattach(v) ==
    /\ stats' = [stats EXCEPT ![v] = 0] /\ growth' = [growth EXCEPT ![v] = 0] /\ attached' = attached \ {v}
    /\ ebsOut' = NoThrottles
    /\ UNCHANGED lastExceeded

\* The agent may start on a node that has been up for long.
EbsInit ==
    /\ stats \in [Volumes -> {0, Throttled + 1}] /\ lastExceeded = [v \in Volumes |-> 0]
    /\ growth = [v \in Volumes |-> 0] /\ attached = {} /\ ebsOut = NoThrottles
EbsNext == (\E readable \in SUBSET Volumes : NVMeThrottles(readable)) \/ \E v \in Volumes : Throttle(v) \/ Reattach(v)

-----------------------------------------------------------------------------
VARIABLE xfsOut

\* handleXFS and checkXFS: file systems are checked until a command fails.
checkXFS(avgSize) == IF avgSize < 16 THEN {Build("XFSSmallAverageClusterSize")} ELSE {}
XfsPoll == \E sizes \in {<<>>, <<16>>, <<15, 16>>} : xfsOut' = UNION {checkXFS(sizes[i]) : i \in DOMAIN sizes}

-----------------------------------------------------------------------------
(* Properties *)

\* I/O delays are reported for a process only if it was really delayed for
\* that long since it was last seen, whoever had its ID before; a process seen
\* within the cache's time to live is not missed (storage/monitor.go,
\* checkIODelays).
IODelaysExact == ioOut.reported \subseteq ioOut.real /\ ioOut.owed \subseteq ioOut.reported

\* Throttling beyond the threshold between two polls of a volume that stayed
\* attached is reported, however slowly it adds up below the threshold before
\* (ebs/nvme.go, checkVolumeStatistics).
ThrottlingNotMissed == ebsOut.owed \subseteq ebsOut.reported
=============================================================================
