------------------------- MODULE HostMonitorsProofs -------------------------
(***************************************************************************)
(* Proofs about the periodic checks of the host, for any commands, units,  *)
(* volumes, interfaces, addresses and counters, any windows and bursts,    *)
(* and without the bounds of the run.                                      *)
(***************************************************************************)
EXTENDS HostMonitors, SequenceTheorems, FiniteSetTheorems, WellFoundedInduction, TLAPS

(***************************************************************************)
(* A step of the host is a step of a check or leaves the check alone, for  *)
(* each of the checks the theorems below are about.                        *)
(***************************************************************************)
LEMMA StepOfAKernelOrStorageCheck ==
  ASSUME [Next]_vars
  PROVE  [CronNext]_cronVars /\ [IoNext]_ioVars /\ [EbsNext]_ebsVars
<1>1. CASE Next
  <2>1. CASE KernelNext /\ UNCHANGED storageVars
    BY <2>1 DEF KernelNext, storageVars
  <2>2. CASE StorageNext /\ UNCHANGED kernelVars
    BY <2>2 DEF StorageNext, kernelVars
  <2>3. CASE UNCHANGED <<kernelVars, storageVars>>
    BY <2>3 DEF kernelVars, storageVars
  <2>4. QED
    BY <1>1, <2>1, <2>2, <2>3 DEF Next
<1>2. CASE UNCHANGED vars
  BY <1>2 DEF vars, kernelVars, storageVars
<1>3. QED
  BY <1>1, <1>2

\* The same for the checks of the runtime and of the network.
LEMMA StepOfARuntimeOrNetworkCheck ==
  ASSUME [Next]_vars
  PROVE  /\ [UnitNext]_unitVars /\ [ProbeNext]_probeVars
         /\ [IpamdNext]_ipamdVars /\ [InterfaceNext]_interfaceVars /\ [RouteNext]_routeVars
         /\ [RuleNext]_ruleVars
<1>1. CASE Next
  <2>1. CASE RuntimeNext /\ UNCHANGED networkVars
    BY <2>1 DEF RuntimeNext, networkVars
  <2>2. CASE NetworkNext /\ UNCHANGED runtimeVars
    BY <2>2 DEF NetworkNext, runtimeVars
  <2>3. CASE UNCHANGED <<runtimeVars, networkVars>>
    BY <2>3 DEF runtimeVars, networkVars
  <2>4. QED
    BY <1>1, <2>1, <2>2, <2>3 DEF Next
<1>2. CASE UNCHANGED vars
  BY <1>2 DEF vars, runtimeVars, networkVars
<1>3. QED
  BY <1>1, <1>2

\* The same for the counters and agents, and for the probe runner.
LEMMA StepOfACounterCheck ==
  ASSUME [Next]_vars
  PROVE  /\ [EthtoolNext]_ethtoolVars /\ [NpaNext]_npaVars
         /\ [CorefileNext]_corefileVars /\ [EfaNext]_efaVars
         /\ [RunnerNext]_runnerVars
<1>1. CASE Next
  <2>1. CASE CounterNext /\ UNCHANGED runnerVars
    BY <2>1 DEF CounterNext
  <2>2. CASE RunnerNext /\ UNCHANGED counterVars
    BY <2>2 DEF counterVars
  <2>3. CASE UNCHANGED <<counterVars, runnerVars>>
    BY <2>3 DEF counterVars
  <2>4. QED
    BY <1>1, <2>1, <2>2, <2>3 DEF Next
<1>2. CASE UNCHANGED vars
  BY <1>2 DEF vars, counterVars
<1>3. QED
  BY <1>1, <1>2

-----------------------------------------------------------------------------
(* Cron *)

(***************************************************************************)
(* A time that is not before another one is at most as much later in its   *)
(* year, and exactly as much later if the years are the same.              *)
(***************************************************************************)
LEMMA TimeOfYear ==
  ASSUME NEW a \in Nat, NEW b \in Nat, a <= b
  PROVE  /\ a % YearLength \in Nat /\ b % YearLength \in Nat
         /\ b % YearLength <= (a % YearLength) + (b - a)
         /\ (a \div YearLength = b \div YearLength) =>
               (b % YearLength = (a % YearLength) + (b - a))
<1> DEFINE Y == YearLength
<1>1. Y \in Nat /\ Y > 0
  BY CronAssumption
<1> HIDE DEF Y
<1>2. ASSUME NEW x \in Nat
      PROVE  x \div Y \in Nat /\ x % Y \in Nat /\ x % Y < Y /\ x = Y * (x \div Y) + (x % Y)
  BY <1>1
<1> DEFINE qa == a \div Y
           qb == b \div Y
           ra == a % Y
           rb == b % Y
<1>3. /\ qa \in Nat /\ ra \in Nat /\ ra < Y /\ a = Y * qa + ra
      /\ qb \in Nat /\ rb \in Nat /\ rb < Y /\ b = Y * qb + rb
  BY <1>2
<1> HIDE DEF qa, qb, ra, rb
<1>4. qa <= qb
  <2> SUFFICES ASSUME qb + 1 <= qa PROVE FALSE
    BY <1>3
  <2>1. Y * (qb + 1) <= Y * qa
    BY <1>1, <1>3
  <2>2. QED
    BY <1>1, <1>3, <2>1
<1>5. Y * qa <= Y * qb
  BY <1>1, <1>3, <1>4
<1>6. rb <= ra + (b - a)
  BY <1>1, <1>3, <1>5
<1>7. qa = qb => rb = ra + (b - a)
  BY <1>1, <1>3
<1>8. QED
  BY <1>3, <1>6, <1>7 DEF Y, qa, qb, ra, rb

(***************************************************************************)
(* What cron.handle remembers of a user is the time of year of the user's  *)
(* last line, and none of the user's jobs ran after that.                  *)
(***************************************************************************)
CronInv ==
  /\ now \in Nat
  /\ lastLine \in [Users -> Nat \cup {None}]
  /\ lastRun \in [Users -> [Commands -> Nat \cup {None}]]
  /\ cronCache \in [Users -> Nat \cup {None}]
  /\ \A u \in Users :
        /\ lastLine[u] # None => lastLine[u] <= now /\ cronCache[u] = lastLine[u] % YearLength
        /\ lastLine[u] = None => cronCache[u] = None
        /\ \A c \in Commands : lastRun[u][c] # None => lastLine[u] # None /\ lastRun[u][c] <= lastLine[u]
  /\ CronExact

\* cron.handle keeps the times true, and judges a line rightly.
LEMMA CronStep == CronInv /\ [CronNext]_cronVars => CronInv'
<1> SUFFICES ASSUME CronInv, [CronNext]_cronVars PROVE CronInv'
  OBVIOUS
<1>1. ASSUME NEW u \in Users, NEW c \in Commands, CronLine(u, c) PROVE CronInv'
  <2> DEFINE timestamp == now % YearLength
             last == lastLine[u]
             run == lastRun[u][c]
             runs == [lastRun[u] EXCEPT ![c] = now]
  <2>1. /\ cronOut'.reported = Rapid(u, timestamp)
        /\ cronOut'.gap = Since(run)
        /\ cronOut'.userGap = Since(last)
        /\ cronOut'.newYear = (last # None /\ now \div YearLength # last \div YearLength)
    BY <1>1, Zenon DEF CronLine
  <2>2. /\ cronCache' = [cronCache EXCEPT ![u] = timestamp]
        /\ lastLine' = [lastLine EXCEPT ![u] = now]
        /\ lastRun' = [lastRun EXCEPT ![u] = runs]
        /\ now' = now
    BY <1>1 DEF CronLine
  <2>3. timestamp \in Nat /\ now \in Nat
    BY TimeOfYear DEF CronInv
  <2>4. run \in Nat \cup {None} /\ runs \in [Commands -> Nat \cup {None}] /\ runs[c] = now
    BY <2>3 DEF CronInv
  <2>5. ASSUME NEW d \in Commands, runs[d] # None PROVE runs[d] <= now
    <3>1. CASE d = c
      BY <2>3, <2>4, <3>1
    <3>2. CASE d # c
      <4>1. runs[d] = lastRun[u][d] /\ lastRun[u][d] \in Nat
        BY <2>5, <3>2 DEF CronInv, None
      <4>2. lastLine[u] \in Nat /\ lastRun[u][d] <= lastLine[u] /\ lastLine[u] <= now
        BY <2>5, <4>1 DEF CronInv, None
      <4>3. QED
        BY <2>3, <4>1, <4>2
    <3>3. QED
      BY <3>1, <3>2
  <2> HIDE DEF runs
  <2>6. ASSUME NEW v \in Users
        PROVE  /\ lastLine'[v] # None => lastLine'[v] <= now' /\ cronCache'[v] = lastLine'[v] % YearLength
               /\ lastLine'[v] = None => cronCache'[v] = None
               /\ \A d \in Commands : lastRun'[v][d] # None =>
                     lastLine'[v] # None /\ lastRun'[v][d] <= lastLine'[v]
    <3>1. CASE v = u
      <4>1. lastLine'[v] = now /\ cronCache'[v] = timestamp /\ lastRun'[v] = runs
        BY <2>2, <3>1 DEF CronInv
      <4>2. QED
        BY <2>2, <2>3, <2>5, <4>1 DEF None
    <3>2. CASE v # u
      <4>1. lastLine'[v] = lastLine[v] /\ cronCache'[v] = cronCache[v] /\ lastRun'[v] = lastRun[v]
        BY <2>2, <3>2 DEF CronInv
      <4>2. QED
        BY <2>2, <4>1 DEF CronInv
    <3>3. QED
      BY <3>1, <3>2
  <2>7. CronExact'
    <3>1. CASE last = None
      <4>1. run = None /\ ~Rapid(u, timestamp)
        BY <3>1 DEF CronInv, Rapid
      <4>2. cronOut'.gap = None /\ ~cronOut'.reported
        BY <2>1, <4>1 DEF Since
      <4>3. QED
        BY <4>2 DEF CronExact
    <3>2. CASE last # None
      <4>1. last \in Nat /\ last <= now /\ cronCache[u] = last % YearLength /\ cronCache[u] \in Nat
        BY <3>2, TimeOfYear DEF CronInv
      <4>2. /\ timestamp <= cronCache[u] + (now - last)
            /\ (last \div YearLength = now \div YearLength) => timestamp = cronCache[u] + (now - last)
        BY <2>3, <4>1, TimeOfYear
      <4>3. Rapid(u, timestamp) <=> timestamp < cronCache[u] + MinNumMinutes
        BY <4>1 DEF Rapid, None
      <4>4. now - last < MinNumMinutes => timestamp < cronCache[u] + MinNumMinutes
        BY <2>3, <4>1, <4>2, CronAssumption
      <4>5. timestamp < cronCache[u] + MinNumMinutes /\ (last \div YearLength = now \div YearLength)
               => now - last < MinNumMinutes
        BY <2>3, <4>1, <4>2, CronAssumption
      <4>6. cronOut'.userGap = now - last /\ cronOut'.userGap # None
        BY <2>1, <2>3, <3>2, <4>1 DEF Since, None
      <4>7. cronOut'.newYear = (now \div YearLength # last \div YearLength)
        BY <2>1, <3>2, Zenon
      <4>8. ASSUME cronOut'.gap # None, cronOut'.gap < MinNumMinutes PROVE cronOut'.reported
        <5>1. run # None /\ run \in Nat /\ run <= last /\ cronOut'.gap = now - run
          BY <2>1, <2>4, <4>8 DEF CronInv, Since, None
        <5>2. now - last < MinNumMinutes
          BY <2>3, <4>1, <4>8, <5>1, CronAssumption
        <5>3. QED
          BY <2>1, <4>3, <4>4, <5>2
      <4>9. ASSUME cronOut'.reported
            PROVE  cronOut'.userGap < MinNumMinutes \/ cronOut'.newYear
        BY <2>1, <4>3, <4>5, <4>6, <4>7, <4>9
      <4>10. QED
        BY <4>6, <4>8, <4>9 DEF CronExact
    <3>3. QED
      BY <3>1, <3>2
  <2>8. /\ now' \in Nat
        /\ lastLine' \in [Users -> Nat \cup {None}]
        /\ cronCache' \in [Users -> Nat \cup {None}]
    BY <2>2, <2>3 DEF CronInv
  <2>9. lastRun' \in [Users -> [Commands -> Nat \cup {None}]]
    BY <2>2, <2>4 DEF CronInv
  <2>10. QED
    BY <2>6, <2>7, <2>8, <2>9 DEF CronInv
<1>2. CASE CronTime
  BY <1>2 DEF CronTime, CronInv, CronExact, NoLine, None
<1>3. CASE UNCHANGED cronVars
  BY <1>3 DEF cronVars, CronInv, CronExact
<1>4. QED
  BY <1>1, <1>2, <1>3 DEF CronNext

(***************************************************************************)
(* A cron job that runs again within the minimum is reported, across the   *)
(* turn of the year too, and nothing is reported unless cron ran something *)
(* for the same user within the minimum or a year ended since, although    *)
(* the log has no year (cron.handle).                                      *)
(***************************************************************************)
THEOREM RapidCronIsFound == Spec => []CronExact
<1>1. Init => CronInv
  <2>1. CronInit => CronInv
    BY DEF CronInit, CronInv, CronExact, NoLine, None
  <2>2. QED
    BY <2>1 DEF Init
<1>2. CronInv /\ [Next]_vars => CronInv'
  BY CronStep, StepOfAKernelOrStorageCheck
<1>3. CronInv => CronExact
  BY DEF CronInv
<1>4. QED
  BY <1>1, <1>2, <1>3, PTL DEF Spec

-----------------------------------------------------------------------------
(* Storage *)

(***************************************************************************)
(* The cache holds the delay at which a process was last seen, so that the *)
(* difference is the delay since then or, after a reuse of the ID, at most *)
(* the whole delay of the new process.                                     *)
(***************************************************************************)
IoInv ==
  /\ procs \in [Pids -> [id : Nat, delay : Nat]]
  /\ delayCache \in [Pids -> [delay : Nat, age : Int]]
  /\ lastSeen \in [Pids -> [id : Nat, delay : Nat]]
  /\ \A p \in Pids : delayCache[p].delay = lastSeen[p].delay
  /\ IODelaysExact

\* checkIODelays and what happens to the processes keep this true.
LEMMA IoStep == IoInv /\ [IoNext]_ioVars => IoInv'
<1> SUFFICES ASSUME IoInv, [IoNext]_ioVars PROVE IoInv'
  OBVIOUS
<1>1. ASSUME NEW readable \in SUBSET Pids, IoPoll(readable) PROVE IoInv'
  <2> DEFINE same(p) == lastSeen[p].id = procs[p].id
             incurred(p) == IF same(p) THEN procs[p].delay - lastSeen[p].delay ELSE procs[p].delay
  <2>1. /\ ioOut' = [reported |-> {p \in readable : Fresh(p) /\ Delta(p) >= DelayThreshold},
                     real |-> {p \in Pids : incurred(p) >= DelayThreshold},
                     owed |-> {p \in readable : Fresh(p) /\ same(p) /\ incurred(p) >= DelayThreshold}]
        /\ delayCache' = [p \in Pids |-> IF p \in readable THEN [delay |-> procs[p].delay, age |-> 0]
                                         ELSE delayCache[p]]
        /\ lastSeen' = [p \in Pids |-> IF p \in readable THEN procs[p] ELSE lastSeen[p]]
        /\ procs' = procs
    BY <1>1 DEF IoPoll
  <2>2. ASSUME NEW p \in Pids
        PROVE  /\ same(p) => Delta(p) = incurred(p)
               /\ ~same(p) => Delta(p) <= incurred(p)
               /\ Delta(p) \in Int /\ incurred(p) \in Int
    BY DEF IoInv, Delta
  <2> HIDE DEF same, incurred
  <2>3. {p \in readable : Fresh(p) /\ Delta(p) >= DelayThreshold}
           \subseteq {p \in Pids : incurred(p) >= DelayThreshold}
    BY <2>2, StorageAssumption
  <2>4. {p \in readable : Fresh(p) /\ same(p) /\ incurred(p) >= DelayThreshold}
           \subseteq {p \in readable : Fresh(p) /\ Delta(p) >= DelayThreshold}
    BY <2>2, StorageAssumption
  <2>5. IODelaysExact'
    BY <2>1, <2>3, <2>4 DEF IODelaysExact
  <2>6. delayCache' \in [Pids -> [delay : Nat, age : Int]] /\ lastSeen' \in [Pids -> [id : Nat, delay : Nat]]
    BY <2>1 DEF IoInv
  <2>7. \A p \in Pids : delayCache'[p].delay = lastSeen'[p].delay
    BY <2>1 DEF IoInv
  <2>8. QED
    BY <2>1, <2>5, <2>6, <2>7 DEF IoInv
<1>2. IoTick => IoInv'
  <2> SUFFICES ASSUME IoTick PROVE IoInv'
    OBVIOUS
  <2>1. /\ delayCache' = [p \in Pids |-> [delayCache[p] EXCEPT !.age = Aged(@, TTL + 1)]]
        /\ ioOut' = NoDelays /\ procs' = procs /\ lastSeen' = lastSeen
    BY DEF IoTick
  <2>2. ASSUME NEW a \in Int PROVE Aged(a, TTL + 1) \in Int
    BY StorageAssumption DEF Aged
  <2>3. /\ delayCache' \in [Pids -> [delay : Nat, age : Int]]
        /\ \A p \in Pids : delayCache'[p].delay = delayCache[p].delay
    BY <2>1, <2>2 DEF IoInv
  <2>4. QED
    BY <2>1, <2>3 DEF IoInv, IODelaysExact, NoDelays
<1>3. ASSUME NEW p \in Pids, IoDelay(p) \/ IoReuse(p) PROVE IoInv'
  <2>1. ioOut' = NoDelays /\ delayCache' = delayCache /\ lastSeen' = lastSeen
    BY <1>3 DEF IoDelay, IoReuse
  <2>2. procs' \in [Pids -> [id : Nat, delay : Nat]]
    <3>1. procs[p] \in [id : Nat, delay : Nat] /\ procs \in [Pids -> [id : Nat, delay : Nat]]
      BY DEF IoInv
    <3>2. CASE IoDelay(p)
      <4> DEFINE g == procs[p].delay + 1
                 x == [procs[p] EXCEPT !.delay = g]
      <4>1. g \in Nat
        BY <3>1
      <4>2. procs' = [procs EXCEPT ![p] = x]
        BY <3>2 DEF IoDelay
      <4> HIDE DEF g
      <4>3. x \in [id : Nat, delay : Nat]
        BY <3>1, <4>1
      <4>4. QED
        BY <3>1, <4>2, <4>3
    <3>3. CASE IoReuse(p)
      <4> DEFINE i == procs[p].id + 1
                 x == [id |-> i, delay |-> 0]
      <4>1. i \in Nat
        BY <3>1
      <4>2. procs' = [procs EXCEPT ![p] = x]
        BY <3>3 DEF IoReuse
      <4> HIDE DEF i
      <4>3. x \in [id : Nat, delay : Nat]
        BY <4>1
      <4>4. QED
        BY <3>1, <4>2, <4>3
    <3>4. QED
      BY <1>3, <3>2, <3>3
  <2>3. QED
    BY <2>1, <2>2 DEF IoInv, IODelaysExact, NoDelays
<1>4. CASE UNCHANGED ioVars
  BY <1>4 DEF ioVars, IoInv, IODelaysExact
<1>5. QED
  BY <1>1, <1>2, <1>3, <1>4 DEF IoNext

(***************************************************************************)
(* The difference of two 64-bit counters, taken modulo their width.        *)
(***************************************************************************)
LEMMA WrappedDifference ==
  ASSUME NEW a \in 0..(Wrap - 1), NEW b \in 0..(Wrap - 1)
  PROVE  /\ b <= a => (a - b) % Wrap = a - b
         /\ a < b => (a - b) % Wrap = a - b + Wrap
<1>1. Wrap \in Nat /\ Wrap > 0
  BY StorageAssumption
<1>2. QED
  BY <1>1

(***************************************************************************)
(* The statistics of a volume that stayed attached are the ones recorded   *)
(* plus what it was throttled since.                                       *)
(***************************************************************************)
EbsInv ==
  /\ stats \in [Volumes -> 0..(Wrap - 1)]
  /\ lastExceeded \in [Volumes -> 0..(Wrap - 1)]
  /\ growth \in [Volumes -> Nat]
  /\ \A v \in Volumes \cap attached : stats[v] = lastExceeded[v] + growth[v]
  /\ ThrottlingNotMissed

\* checkVolumeStatistics and what happens to the volumes keep this true.
LEMMA EbsStep == EbsInv /\ [EbsNext]_ebsVars => EbsInv'
<1> SUFFICES ASSUME EbsInv, [EbsNext]_ebsVars PROVE EbsInv'
  OBVIOUS
<1> USE StorageAssumption
<1>1. ASSUME NEW readable \in SUBSET Volumes, NVMeThrottles(readable) PROVE EbsInv'
  <2> DEFINE diff(v) == (stats[v] - lastExceeded[v]) % Wrap
  <2>1. /\ lastExceeded' = [v \in Volumes |-> IF v \in readable /\ diff(v) > 0 THEN stats[v] ELSE lastExceeded[v]]
        /\ ebsOut' = [reported |-> {v \in readable : diff(v) > Throttled},
                      real |-> {v \in Volumes : growth[v] > Throttled},
                      owed |-> {v \in readable : v \in attached /\ growth[v] > Throttled}]
        /\ growth' = [v \in Volumes |-> IF v \in readable THEN 0 ELSE growth[v]]
        /\ attached' = attached \cup readable
        /\ stats' = stats
    BY <1>1 DEF NVMeThrottles, Kept
  <2>2. ASSUME NEW v \in Volumes
        PROVE  /\ v \in attached => diff(v) = growth[v]
               /\ ~(diff(v) > 0) => lastExceeded[v] = stats[v]
    <3>1. stats[v] \in 0..(Wrap - 1) /\ lastExceeded[v] \in 0..(Wrap - 1)
      BY DEF EbsInv
    <3>2. /\ lastExceeded[v] <= stats[v] => diff(v) = stats[v] - lastExceeded[v]
          /\ stats[v] < lastExceeded[v] => diff(v) = stats[v] - lastExceeded[v] + Wrap
      BY <3>1, WrappedDifference
    <3> HIDE DEF diff
    <3>3. v \in attached => stats[v] = lastExceeded[v] + growth[v] /\ growth[v] \in Nat
      BY DEF EbsInv
    <3>4. QED
      BY <3>1, <3>2, <3>3
  <2> HIDE DEF diff
  <2>3. ThrottlingNotMissed'
    BY <2>1, <2>2 DEF ThrottlingNotMissed
  <2>4. /\ lastExceeded' \in [Volumes -> 0..(Wrap - 1)] /\ growth' \in [Volumes -> Nat]
        /\ stats' \in [Volumes -> 0..(Wrap - 1)]
    BY <2>1 DEF EbsInv
  <2>5. ASSUME NEW v \in Volumes \cap attached' PROVE stats'[v] = lastExceeded'[v] + growth'[v]
    <3>1. CASE v \in readable
      BY <2>1, <2>2, <3>1 DEF EbsInv
    <3>2. CASE v \notin readable
      BY <2>1, <2>5, <3>2 DEF EbsInv
    <3>3. QED
      BY <3>1, <3>2
  <2>6. QED
    BY <2>3, <2>4, <2>5 DEF EbsInv
<1>2. ASSUME NEW v \in Volumes, Throttle(v) PROVE EbsInv'
  BY <1>2 DEF Throttle, EbsInv, ThrottlingNotMissed, NoThrottles
<1>3. ASSUME NEW v \in Volumes, Reattach(v) PROVE EbsInv'
  BY <1>3 DEF Reattach, EbsInv, ThrottlingNotMissed, NoThrottles
<1>4. CASE UNCHANGED ebsVars
  BY <1>4 DEF ebsVars, EbsInv, ThrottlingNotMissed
<1>5. QED
  BY <1>1, <1>2, <1>3, <1>4 DEF EbsNext

(***************************************************************************)
(* The storage monitor reports only delays that really occurred, whoever   *)
(* had the process ID before, and misses neither a delay of a process it   *)
(* has cached nor throttling of a volume that stayed attached              *)
(* (checkIODelays, checkVolumeStatistics).                                 *)
(***************************************************************************)
THEOREM StorageReportsExact == Spec => []StorageDeltasExact
<1>1. Init => IoInv /\ EbsInv
  <2>1. IoInit => IoInv
    BY DEF IoInit, IoInv, IODelaysExact, NoDelays, None
  <2>2. EbsInit => EbsInv
    BY StorageAssumption DEF EbsInit, EbsInv, ThrottlingNotMissed, NoThrottles
  <2>3. QED
    BY <2>1, <2>2 DEF Init
<1>2. IoInv /\ EbsInv /\ [Next]_vars => IoInv' /\ EbsInv'
  BY IoStep, EbsStep, StepOfAKernelOrStorageCheck
<1>3. IoInv /\ EbsInv => StorageDeltasExact
  BY DEF IoInv, EbsInv, StorageDeltasExact
<1>4. QED
  BY <1>1, <1>2, <1>3, PTL DEF Spec

-----------------------------------------------------------------------------
(* Units of systemd *)

(***************************************************************************)
(* What is recorded of a unit that was not reset is at most what systemd   *)
(* counts: a unit that is passed without a report has nothing new.         *)
(***************************************************************************)
UnitInv ==
  /\ nRestarts \in [Units -> Nat]
  /\ unitRestartCount \in [Units -> Nat]
  /\ told \in [Units -> Nat]
  /\ \A u \in Units \ wasReset : unitRestartCount[u] <= nRestarts[u]
  /\ RestartsNotForgotten

\* A walk over the units keeps this true however it ends, and so do restarts and resets.
LEMMA UnitStep == UnitInv /\ [UnitNext]_unitVars => UnitInv'
<1> SUFFICES ASSUME UnitInv, [UnitNext]_unitVars PROVE UnitInv'
  OBVIOUS
<1>1. ASSUME NEW passed \in SUBSET Units, NEW hit \in Units \cup {NoUnit}, handleSystemdServices(passed, hit)
      PROVE  UnitInv'
  <2>1. /\ unitRestartCount' = [u \in Units |-> IF u \in passed \cup {hit} /\ nRestarts[u] # 0 THEN nRestarts[u]
                                                ELSE unitRestartCount[u]]
        /\ told' = [u \in Units |-> IF u = hit THEN nRestarts[u] ELSE told[u]]
        /\ wasReset' = wasReset \ {hit}
        /\ nRestarts' = nRestarts
    BY <1>1 DEF handleSystemdServices
  <2>2. /\ nRestarts' \in [Units -> Nat] /\ unitRestartCount' \in [Units -> Nat] /\ told' \in [Units -> Nat]
    BY <2>1 DEF UnitInv
  <2>3. ASSUME NEW u \in Units, u \notin wasReset'
        PROVE  /\ unitRestartCount'[u] <= nRestarts'[u]
               /\ unitRestartCount'[u] > MinRestarts => told'[u] = unitRestartCount'[u]
    <3>1. CASE u = hit
      <4>1. nRestarts[u] > MinRestarts
        BY <1>1, <3>1, RuntimeAssumption DEF handleSystemdServices, Restarting, NoUnit
      <4>2. nRestarts[u] # 0 /\ nRestarts[u] \in Nat
        BY <4>1 DEF MinRestarts, UnitInv
      <4>3. unitRestartCount'[u] = nRestarts[u] /\ told'[u] = nRestarts[u] /\ nRestarts'[u] = nRestarts[u]
        BY <2>1, <3>1, <4>2
      <4>4. QED
        BY <4>2, <4>3
    <3>2. CASE u # hit /\ u \in passed /\ nRestarts[u] # 0
      <4>1. u \notin wasReset
        BY <2>1, <2>3, <3>2
      <4>2. /\ nRestarts[u] <= MinRestarts \/ nRestarts[u] <= unitRestartCount[u]
            /\ unitRestartCount[u] <= nRestarts[u]
            /\ unitRestartCount[u] > MinRestarts => told[u] = unitRestartCount[u]
            /\ nRestarts[u] \in Nat /\ unitRestartCount[u] \in Nat
        BY <1>1, <3>2, <4>1 DEF handleSystemdServices, Restarting, UnitInv, RestartsNotForgotten, MinRestarts
      <4>3. unitRestartCount'[u] = nRestarts[u] /\ told'[u] = told[u] /\ nRestarts'[u] = nRestarts[u]
        BY <2>1, <3>2
      <4>4. QED
        BY <4>2, <4>3 DEF MinRestarts
    <3>3. CASE u # hit /\ ~(u \in passed /\ nRestarts[u] # 0)
      <4>1. u \notin wasReset
        BY <2>1, <2>3, <3>3
      <4>2. unitRestartCount'[u] = unitRestartCount[u] /\ told'[u] = told[u] /\ nRestarts'[u] = nRestarts[u]
        BY <2>1, <3>3
      <4>3. QED
        BY <4>1, <4>2 DEF UnitInv, RestartsNotForgotten
    <3>4. QED
      BY <3>1, <3>2, <3>3
  <2>4. QED
    BY <2>2, <2>3 DEF UnitInv, RestartsNotForgotten
<1>2. ASSUME NEW u \in Units, UnitRestarts(u) PROVE UnitInv'
  BY <1>2 DEF UnitRestarts, UnitInv, RestartsNotForgotten
<1>3. ASSUME NEW u \in Units, UnitReset(u) PROVE UnitInv'
  BY <1>3 DEF UnitReset, UnitInv, RestartsNotForgotten
<1>4. CASE UNCHANGED unitVars
  BY <1>4 DEF unitVars, UnitInv, RestartsNotForgotten
<1>5. QED
  BY <1>1, <1>2, <1>3, <1>4 DEF UnitNext

(***************************************************************************)
(* However the walk over the units ends, no restart beyond the minimum is  *)
(* recorded without being reported, unless the unit was reset              *)
(* (handleSystemdServices).                                                *)
(***************************************************************************)
THEOREM NoRestartForgotten == Spec => []RestartsNotForgotten
<1>1. Init => UnitInv
  <2>1. UnitInit => UnitInv
    BY DEF UnitInit, UnitInv, RestartsNotForgotten, MinRestarts
  <2>2. QED
    BY <2>1 DEF Init
<1>2. UnitInv /\ [Next]_vars => UnitInv'
  BY UnitStep, StepOfARuntimeOrNetworkCheck
<1>3. UnitInv => RestartsNotForgotten
  BY DEF UnitInv
<1>4. QED
  BY <1>1, <1>2, <1>3, PTL DEF Spec

-----------------------------------------------------------------------------
(* Rules and routes *)

(***************************************************************************)
(* While a poll is under way, the addresses that were complete all along   *)
(* have a route, and had a rule when the rules were read; the ones without *)
(* a rule all along had none then.                                         *)
(***************************************************************************)
KernelRules == {512, 1536} \X IPs
RouteInv ==
  /\ poll.step = "rules" => /\ \A ip \in good : Ruled(ip, rules) /\ ip \in routes
                            /\ bad \subseteq poll.ips
                            /\ \A ip \in bad : ~Ruled(ip, rules)
  /\ poll.step = "routes" => /\ \A ip \in good : Ruled(ip, poll.rules) /\ ip \in routes
                             /\ bad \subseteq poll.ips
                             /\ \A ip \in bad : ~Ruled(ip, poll.rules)
  /\ poll \in [step : {"idle", "rules", "routes"}, ips : SUBSET IPs, rules : SUBSET KernelRules]
  /\ enis \subseteq IPs /\ rules \subseteq KernelRules
  /\ RoutesJudgedByState

\* Every read of a poll and every change between the reads keeps this true.
LEMMA RouteStep == RouteInv /\ [RouteNext]_routeVars => RouteInv'
<1> SUFFICES ASSUME RouteInv, [RouteNext]_routeVars PROVE RouteInv'
  OBVIOUS
<1> DEFINE Poll == [step : {"idle", "rules", "routes"}, ips : SUBSET IPs, rules : SUBSET KernelRules]
<1>1. CASE ReadEnis
  <2>1. /\ poll' = [step |-> "rules", ips |-> enis, rules |-> {}]
        /\ good' = {ip \in enis : Ruled(ip, rules) /\ ip \in routes}
        /\ bad' = {ip \in enis : ~Ruled(ip, rules)}
        /\ routesOut' = NoFinding /\ UNCHANGED <<enis, rules, routes>>
    BY <1>1 DEF ReadEnis, Idle
  <2>2. poll'.step = "rules" /\ poll'.ips = enis /\ poll' \in Poll
    BY <2>1 DEF RouteInv
  <2>3. RoutesJudgedByState'
    BY <2>1 DEF RoutesJudgedByState, NoFinding
  <2>4. QED
    BY <2>1, <2>2, <2>3 DEF RouteInv, Ruled
<1>2. CASE ReadRules
  <2>1. /\ poll.step = "rules" /\ poll' = [poll EXCEPT !.step = "routes", !.rules = rules]
        /\ UNCHANGED <<enis, rules, routes, good, bad, routesOut>>
    BY <1>2 DEF ReadRules
  <2>2. poll \in Poll /\ rules \in SUBSET KernelRules
    BY DEF RouteInv
  <2>4. poll'.step = "routes" /\ poll'.ips = poll.ips /\ poll'.rules = rules /\ poll' \in Poll
    BY <2>1, <2>2
  <2>3. QED
    BY <2>1, <2>2, <2>4 DEF RouteInv, RoutesJudgedByState, Ruled
<1>3. CASE ReadFails
  <2>1. /\ poll' = Idle /\ UNCHANGED <<enis, rules, routes, good, bad, routesOut>>
    BY <1>3 DEF ReadFails
  <2>2. poll'.step = "idle" /\ poll' \in Poll
    BY <2>1 DEF Idle
  <2>3. QED
    BY <2>1, <2>2 DEF RouteInv, RoutesJudgedByState
<1>4. CASE checkIPRulesAndRoutes
  <2>1. /\ poll.step = "routes" /\ poll' = Idle
        /\ routesOut'.ips = MissingRules(poll.ips, poll.rules) \cup (poll.ips \ routes)
        /\ routesOut'.good = good /\ routesOut'.bad = bad
        /\ UNCHANGED <<enis, rules, routes>>
    BY <1>4 DEF checkIPRulesAndRoutes
  <2>2. poll'.step = "idle" /\ poll' \in Poll
    BY <2>1 DEF Idle
  <2>3. RoutesJudgedByState'
    BY <2>1 DEF RouteInv, RoutesJudgedByState, MissingRules
  <2>4. QED
    BY <2>1, <2>2, <2>3 DEF RouteInv
<1>5. CASE RouteChange
  <2>1. PICK e, rs, rt, d : e \in SUBSET IPs /\ rs \in SUBSET KernelRules /\ Change(e, rs, rt, d)
    <3>1. enis \in SUBSET IPs /\ rules \in SUBSET KernelRules
      BY DEF RouteInv
    <3>2. \A ip \in IPs : rules \cup {<<512, ip>>} \cup {<<1536, x>> : x \in {ip} \cap Secondary} \in SUBSET KernelRules
      BY <3>1 DEF KernelRules
    <3>3. \A r : rules \ {r} \in SUBSET KernelRules
      BY <3>1
    <3>4. \A ip \in IPs : enis \cup {ip} \in SUBSET IPs /\ enis \ {ip} \in SUBSET IPs
      BY <3>1
    <3>5. CASE \E ip \in IPs : \/ Change(enis \cup {ip}, rules, routes, defaultRoute)
                               \/ Change(enis \ {ip}, rules, routes, defaultRoute)
      BY <3>1, <3>4, <3>5
    <3>6. CASE \E ip \in IPs : Change(enis, rules \cup {<<512, ip>>} \cup {<<1536, x>> : x \in {ip} \cap Secondary},
                                    routes \cup {ip}, defaultRoute)
      <4>1. PICK ip \in IPs : Change(enis, rules \cup {<<512, ip>>} \cup {<<1536, x>> : x \in {ip} \cap Secondary},
                                   routes \cup {ip}, defaultRoute)
        BY <3>6
      <4> DEFINE rs == rules \cup {<<512, ip>>} \cup {<<1536, x>> : x \in {ip} \cap Secondary}
      <4>2. rs \in SUBSET KernelRules /\ Change(enis, rs, routes \cup {ip}, defaultRoute)
        BY <3>2, <4>1
      <4> HIDE DEF rs
      <4>3. QED
        BY <3>1, <4>2, Zenon
    <3>7. CASE \E r \in rules : Change(enis, rules \ {r}, routes, defaultRoute)
      BY <3>1, <3>3, <3>7
    <3>8. CASE \/ \E ip \in routes : Change(enis, rules, routes \ {ip}, defaultRoute)
               \/ Change(enis, rules, routes, ~defaultRoute)
      BY <3>1, <3>8, Zenon
    <3>9. QED
      BY <1>5, <3>5, <3>6, <3>7, <3>8 DEF RouteChange
  <2>2. /\ enis' = e /\ rules' = rs /\ routes' = rt
        /\ good' = {ip \in good : ip \in e /\ Ruled(ip, rs) /\ ip \in rt}
        /\ bad' = {ip \in bad : ip \in e /\ ~Ruled(ip, rs)}
        /\ routesOut' = NoFinding /\ poll' = poll
    BY <2>1 DEF Change
  <2>3. RoutesJudgedByState'
    BY <2>2 DEF RoutesJudgedByState, NoFinding
  <2>4. QED
    BY <2>1, <2>2, <2>3 DEF RouteInv, Ruled
<1>6. CASE UNCHANGED routeVars
  BY <1>6 DEF routeVars, RouteInv, RoutesJudgedByState, Ruled
<1>7. QED
  BY <1>1, <1>2, <1>3, <1>4, <1>5, <1>6 DEF RouteNext

(***************************************************************************)
(* Whatever the CNI and the kernel change between the reads, no address    *)
(* that was complete during the whole poll is reported, and one that had   *)
(* no rule during the whole poll is (handleIPRulesAndRoutes).              *)
(***************************************************************************)
THEOREM RoutesJudgedFairly == Spec => []RoutesJudgedByState
<1>1. Init => RouteInv
  <2>1. RouteInit => RouteInv
    BY DEF RouteInit, RouteInv, RoutesJudgedByState, NoFinding, Idle
  <2>2. QED
    BY <2>1 DEF Init
<1>2. RouteInv /\ [Next]_vars => RouteInv'
  BY RouteStep, StepOfARuntimeOrNetworkCheck
<1>3. RouteInv => RoutesJudgedByState
  BY DEF RouteInv
<1>4. QED
  BY <1>1, <1>2, <1>3, PTL DEF Spec

-----------------------------------------------------------------------------
(* Faults that are Fatal *)

(***************************************************************************)
(* Ages grow together until they reach the same limit.                     *)
(***************************************************************************)
LEMMA AgesGrowTogether ==
  ASSUME NEW cap \in Nat, NEW a \in 0..cap \cup {None}
  PROVE  /\ Aged(a, cap) \in 0..cap \cup {None}
         /\ (Aged(a, cap) = None) <=> (a = None)
         /\ \A b \in 0..cap : a # None /\ a <= b => Aged(a, cap) <= Aged(b, cap)
  BY DEF Aged, None

(***************************************************************************)
(* While the window of checkIPAMD is open, the same pod was found down, at *)
(* the latest when the window began; and a poll that found it down without *)
(* a report began the window.                                              *)
(***************************************************************************)
IpamdInv ==
  /\ notRunningAge \in 0..(Consistency + 1) \cup {None}
  /\ downAge \in 0..(Consistency + 1) \cup {None}
  /\ notRunningAge # None => downAge # None /\ downAge <= notRunningAge
  /\ downSilent => notRunningAge = downAge
  /\ IPAMDSeenDownTwice

\* handleIPAMD and the passing of time keep this true.
LEMMA IpamdStep == IpamdInv /\ [IpamdNext]_ipamdVars => IpamdInv'
<1> SUFFICES ASSUME IpamdInv, [IpamdNext]_ipamdVars PROVE IpamdInv'
  OBVIOUS
<1> USE IpamdAssumption
<1>1. ASSUME ipamdOut'.reason # "IPAMDNotRunning", ~ipamdOut'.silent,
             \/ UNCHANGED <<notRunningAge, downAge, downSilent>>
             \/ notRunningAge' = None /\ downAge' = None /\ downSilent' = FALSE
      PROVE  IpamdInv'
  BY <1>1 DEF IpamdInv, IPAMDSeenDownTwice
<1>2. Quiet.reason # "IPAMDNotRunning" /\ ~Quiet.silent
  BY DEF Quiet
<1>3. ASSUME NEW pod, NewPod(pod) PROVE IpamdInv'
  BY <1>1, <1>2, <1>3 DEF NewPod
<1>4. CASE IpamdDown
  <2> DEFINE first == notRunningAge = None \/ notRunningAge > Consistency
  <2>1. /\ downAge' = 0 /\ notRunningAge' = (IF first THEN 0 ELSE notRunningAge)
        /\ ipamdOut' = [reason |-> IF first THEN "none" ELSE "IPAMDNotRunning", down |-> downAge, silent |-> downSilent]
    BY <1>4 DEF IpamdDown
  <2>2. downSilent' = first
    BY <1>4 DEF IpamdDown
  <2>3. ipamdOut'.down = downAge /\ ipamdOut'.reason = (IF first THEN "none" ELSE "IPAMDNotRunning")
    BY <2>1
  <2>4. ipamdOut'.silent = downSilent
    BY <2>1, Zenon
  <2>5. CASE first
    <3>1. ipamdOut'.reason # "IPAMDNotRunning"
      BY <2>3, <2>5
    <3>2. ~(downSilent /\ downAge \in 0..Consistency)
      BY <2>5 DEF IpamdInv, None
    <3>3. IPAMDSeenDownTwice'
      BY <2>3, <2>4, <3>1, <3>2 DEF IPAMDSeenDownTwice
    <3>4. QED
      BY <2>1, <2>5, <3>3 DEF IpamdInv, None
  <2>6. CASE ~first
    <3>1. notRunningAge \in 0..Consistency /\ downAge \in 0..Consistency
      BY <2>6 DEF IpamdInv, None
    <3>2. IPAMDSeenDownTwice'
      BY <2>3, <2>6, <3>1 DEF IPAMDSeenDownTwice
    <3>3. notRunningAge' = notRunningAge /\ ~downSilent'
      BY <2>1, <2>2, <2>6
    <3>4. QED
      BY <2>1, <3>1, <3>2, <3>3 DEF IpamdInv, None
  <2>7. QED
    BY <2>5, <2>6
<1>5. ASSUME NEW answers, NEW conflicts, NEW passed, CrossCheck(answers, conflicts, passed) PROVE IpamdInv'
  <2>1. UNCHANGED <<notRunningAge, downAge, downSilent>>
    BY <1>5 DEF CrossCheck
  <2>2. ipamdOut' = Quiet \/ ipamdOut' = [Quiet EXCEPT !.reason = "IPAMDInconsistentState"]
    BY <1>5 DEF CrossCheck
  <2>3. ipamdOut'.reason # "IPAMDNotRunning" /\ ~ipamdOut'.silent
    BY <2>2 DEF Quiet
  <2>4. QED
    BY <1>1, <2>1, <2>3
<1>6. CASE handleIPAMD
  BY <1>1, <1>2, <1>3, <1>4, <1>5, <1>6 DEF handleIPAMD
<1>7. CASE IpamdTick
  <2>1. /\ notRunningAge' = Aged(notRunningAge, Consistency + 1)
        /\ downAge' = Aged(downAge, Consistency + 1) /\ ipamdOut' = Quiet
        /\ downSilent' = downSilent
    BY <1>7 DEF IpamdTick
  <2>2. Consistency + 1 \in Nat
    OBVIOUS
  <2>3. QED
    BY <1>2, <2>1, <2>2, AgesGrowTogether DEF IpamdInv, IPAMDSeenDownTwice
<1>8. CASE UNCHANGED ipamdVars
  BY <1>8 DEF ipamdVars, IpamdInv, IPAMDSeenDownTwice
<1>9. QED
  BY <1>6, <1>7, <1>8 DEF IpamdNext

(***************************************************************************)
(* The window of the network policy agent begins after the last poll that  *)
(* found it active.                                                        *)
(***************************************************************************)
NpaInv ==
  /\ npaNotRunning \in 0..ConsistencyWindow \cup {None}
  /\ lastActive \in 0..ConsistencyWindow
  /\ npaNotRunning # None => npaNotRunning <= lastActive
  /\ NPADownIsSustained

\* HandleState of the agent, its restarts and the passing of time keep this true.
LEMMA NpaStep == NpaInv /\ [NpaNext]_npaVars => NpaInv'
<1> SUFFICES ASSUME NpaInv, [NpaNext]_npaVars PROVE NpaInv'
  OBVIOUS
<1> USE NpaAssumption
<1>0. NoNpa.reason = "none"
  BY DEF NoNpa
<1>1. CASE NpaInactive
  <2>1. npaNotRunning' = Window(FALSE) /\ lastActive' = lastActive
    BY <1>1 DEF NpaInactive
  <2>2. npaOut'.reason = "NPANotRunning" => npaNotRunning # None /\ npaNotRunning >= ConsistencyWindow
    BY <1>1 DEF NpaInactive, NoNpa
  <2>3. NPADownIsSustained'
    BY <2>1, <2>2 DEF NPADownIsSustained, NpaInv, None
  <2>4. QED
    BY <2>1, <2>3 DEF NpaInv, Window, None
<1>2. ASSUME NEW answers \in BOOLEAN, NpaActive(answers) PROVE NpaInv'
  <2>1. npaNotRunning' = None /\ lastActive' = 0
    BY <1>2 DEF NpaActive, Window
  <2>2. npaOut'.reason # "NPANotRunning"
    BY <1>2 DEF NpaActive
  <2>3. QED
    BY <2>1, <2>2 DEF NpaInv, NPADownIsSustained
<1>3. CASE NpaRestarts \/ NpaStarted
  BY <1>0, <1>3 DEF NpaRestarts, NpaStarted, NpaInv, NPADownIsSustained
<1>4. CASE NpaTick
  <2>1. /\ npaNotRunning' = Aged(npaNotRunning, ConsistencyWindow)
        /\ lastActive' = Aged(lastActive, ConsistencyWindow) /\ npaOut' = NoNpa
    BY <1>4 DEF NpaTick
  <2>2. lastActive' \in 0..ConsistencyWindow
    BY <2>1, AgesGrowTogether DEF NpaInv, None
  <2>3. QED
    BY <1>0, <2>1, <2>2, AgesGrowTogether DEF NpaInv, NPADownIsSustained
<1>5. CASE UNCHANGED npaVars
  BY <1>5 DEF npaVars, NpaInv, NPADownIsSustained
<1>6. QED
  BY <1>1, <1>2, <1>3, <1>4, <1>5 DEF NpaNext

(***************************************************************************)
(* A non-empty set of naturals contains its minimum, which is its least    *)
(* element.                                                                *)
(***************************************************************************)
LEMMA MinOfNaturals ==
  ASSUME NEW S \in SUBSET Nat, S # {}
  PROVE  Min(S) \in S /\ \A y \in S : Min(S) <= y
<1>1. PICK x \in S : \A y \in S : ~(<<y, x>> \in OpToRel(<, Nat))
  BY NatLessThanWellFounded, WFMin
<1>2. ASSUME NEW y \in S, y < x PROVE FALSE
  <2> DEFINE p == <<y, x>>
  <2>1. p \in Nat \X Nat /\ p[1] < p[2]
    BY <1>2
  <2> HIDE DEF p
  <2>2. p \in OpToRel(<, Nat)
    BY <2>1, Zenon DEF OpToRel
  <2>3. QED
    BY <1>1, <2>2 DEF p
<1>3. \A y \in S : x <= y
  BY <1>2
<1>4. QED
  BY <1>3 DEF Min

(***************************************************************************)
(* After a poll without a report, the cache holds what every interface     *)
(* that is considered lacked at that poll.                                 *)
(***************************************************************************)
Flags == {"InterfaceNotUp", "InterfaceNotRunning"}
Ages == 0..(CacheTTL + 1) \cup {None}
QuietPollIsCached ==
  quietPolls > 0 =>
    \A n \in Names \ Skipped :
      lastPoll[n] # {} => interfaceCache[n].lacks = lastPoll[n] /\ interfaceCache[n].age = pollAge
InterfaceInv ==
  /\ interfaceCache \in [Names -> [lacks : SUBSET Flags, age : Ages]]
  /\ lastLook = interfaceCache
  /\ lastPoll \in [Names -> SUBSET Flags]
  /\ pollAge \in Ages
  /\ quietPolls \in 0..2
  /\ QuietPollIsCached
  /\ InterfaceFaultsConfirmed

\* A poll of the interfaces, wherever its loop ends.
LEMMA InterfacePoll ==
  ASSUME InterfaceInv, NEW present \in SUBSET Names, NEW lacks \in [Names -> Faults],
         checkInterfaces(present, lacks)
  PROVE  InterfaceInv'
<1> DEFINE considered == {i \in DOMAIN Interfaces : Interfaces[i] \in present \ Skipped}
           issues(i) == ConsistentIssues(Interfaces[i], lacks[Interfaces[i]])
           hits == {i \in considered : issues(i) # {}}
           hit == Min(hits)
           looked == {Interfaces[i] : i \in {j \in considered : hits = {} \/ j <= hit}}
           reason == IF hits # {}
                     THEN IF "InterfaceNotUp" \in issues(hit) THEN "InterfaceNotUp" ELSE "InterfaceNotRunning"
                     ELSE IF "lo" \in present THEN "none" ELSE "MissingLoopbackInterface"
           sustained == hits # {} /\ reason \in lastLook[Interfaces[hit]].lacks
                                  /\ lastLook[Interfaces[hit]].age \in 0..CacheTTL
           lasting == pollAge \in 0..CacheTTL
                      /\ \E i \in considered : lacks[Interfaces[i]] \cap lastPoll[Interfaces[i]] # {}
           quiet == IF reason # "none" THEN 0 ELSE IF quietPolls < 2 THEN quietPolls + 1 ELSE 2
           looks == [n \in Names |-> IF n \in looked THEN [lacks |-> lacks[n], age |-> 0] ELSE lastLook[n]]
<1>1. /\ interfaceCache' = looks /\ lastLook' = looks /\ quietPolls' = quiet /\ pollAge' = 0
      /\ lastPoll' = [n \in Names |-> IF n \in present THEN lacks[n] ELSE {}]
      /\ interfaceOut'.sustained = sustained /\ interfaceOut'.lasting = lasting
      /\ interfaceOut'.reason = reason /\ interfaceOut'.lo = ("lo" \in present)
  BY DEF checkInterfaces, Cached, InterfaceInv
<1>2. \A n \in Names : lacks[n] \in SUBSET Flags
  BY DEF Faults, Flags
<1>3. considered \subseteq Nat /\ \A i \in considered : Interfaces[i] \in Names \ Skipped
  BY InterfaceAssumption DEF Names
<1>4. hits # {} => hit \in hits
  BY <1>3, MinOfNaturals
<1>5. ASSUME NEW i \in considered
      PROVE  /\ issues(i) \subseteq Flags
             /\ issues(i) \subseteq interfaceCache[Interfaces[i]].lacks
             /\ issues(i) # {} => interfaceCache[Interfaces[i]].age \in 0..CacheTTL
             /\ issues(i) = {} =>
                  \/ interfaceCache[Interfaces[i]].age \notin 0..CacheTTL
                  \/ interfaceCache[Interfaces[i]].lacks \cap lacks[Interfaces[i]] = {}
  <2>1. Interfaces[i] \in Names
    BY <1>3
  <2>2. interfaceCache[Interfaces[i]].age \in Ages /\ interfaceCache[Interfaces[i]].lacks \in SUBSET Flags
    BY <2>1 DEF InterfaceInv
  <2>3. QED
    BY <2>2, InterfaceAssumption DEF ConsistentIssues, Ages, None
<1> HIDE DEF issues
<1>6. hits # {} => sustained
  <2> SUFFICES ASSUME hits # {} PROVE reason \in lastLook[Interfaces[hit]].lacks /\ lastLook[Interfaces[hit]].age \in 0..CacheTTL
    OBVIOUS
  <2> HIDE DEF hit
  <2>1. hit \in considered /\ issues(hit) # {}
    BY <1>4
  <2>2. reason \in issues(hit)
    BY <1>5, <2>1 DEF Flags
  <2>3. QED
    BY <1>5, <2>1, <2>2 DEF InterfaceInv
<1>7. quiet = 2 => ~lasting
  <2> SUFFICES ASSUME quiet = 2, lasting PROVE FALSE
    OBVIOUS
  <2>1. reason = "none" /\ quietPolls > 0
    BY DEF InterfaceInv
  <2>2. hits = {}
    BY <2>1
  <2>3. PICK i \in considered : lacks[Interfaces[i]] \cap lastPoll[Interfaces[i]] # {}
    OBVIOUS
  <2>4. Interfaces[i] \in Names \ Skipped
    BY <1>3
  <2>5. lastPoll[Interfaces[i]] # {}
    BY <2>3
  <2>6. interfaceCache[Interfaces[i]].lacks = lastPoll[Interfaces[i]] /\ interfaceCache[Interfaces[i]].age = pollAge
    BY <2>1, <2>4, <2>5 DEF InterfaceInv, QuietPollIsCached
  <2>7. issues(i) = {}
    BY <2>2
  <2>8. QED
    BY <1>5, <2>3, <2>6, <2>7
<1>8. InterfaceFaultsConfirmed'
  <2>1. hits = {} => reason \notin {"InterfaceNotUp", "InterfaceNotRunning"}
    OBVIOUS
  <2>2. /\ reason = "MissingLoopbackInterface" => "lo" \notin present
        /\ "lo" \notin present => reason # "none"
    OBVIOUS
  <2> HIDE DEF reason, sustained, lasting, quiet
  <2>3. QED
    BY <1>1, <1>6, <1>7, <2>1, <2>2 DEF InterfaceFaultsConfirmed
<1>9. QuietPollIsCached'
  <2> SUFFICES ASSUME quiet > 0, NEW n \in Names \ Skipped, lastPoll'[n] # {}
               PROVE  interfaceCache'[n].lacks = lastPoll'[n] /\ interfaceCache'[n].age = pollAge'
    BY <1>1 DEF QuietPollIsCached
  <2>1. hits = {}
    OBVIOUS
  <2>2. n \in present /\ lastPoll'[n] = lacks[n]
    BY <1>1
  <2>3. PICK i \in DOMAIN Interfaces : n = Interfaces[i]
    BY DEF Names
  <2>4. n \in looked
    BY <2>1, <2>2, <2>3
  <2> HIDE DEF looked, hits
  <2>5. QED
    BY <1>1, <2>2, <2>4
<1>10. looks \in [Names -> [lacks : SUBSET Flags, age : Ages]]
  <2>1. 0 \in Ages
    BY InterfaceAssumption DEF Ages
  <2> HIDE DEF looked
  <2>2. QED
    BY <1>2, <2>1 DEF InterfaceInv
<1>11. quiet \in 0..2 /\ 0 \in Ages
  <2> HIDE DEF reason
  <2> QED
    BY InterfaceAssumption DEF InterfaceInv, Ages
<1>12. lastPoll' \in [Names -> SUBSET Flags]
  BY <1>1, <1>2
<1>13. QED
  BY <1>1, <1>8, <1>9, <1>10, <1>11, <1>12 DEF InterfaceInv

\* Polls of the interfaces and the passing of time keep this true.
LEMMA InterfaceStep == InterfaceInv /\ [InterfaceNext]_interfaceVars => InterfaceInv'
<1> SUFFICES ASSUME InterfaceInv, [InterfaceNext]_interfaceVars PROVE InterfaceInv'
  OBVIOUS
<1>1. ASSUME NEW s \in Sights, checkInterfaces(s[1], s[2]) PROVE InterfaceInv'
  <2>1. s[1] \in SUBSET Names /\ s[2] \in [Names -> Faults]
    BY DEF Sights
  <2>2. QED
    BY <1>1, <2>1, InterfacePoll
<1>2. CASE InterfaceTick
  <2>1. /\ interfaceCache' = [n \in Names |-> [interfaceCache[n] EXCEPT !.age = Aged(@, CacheTTL + 1)]]
        /\ lastLook' = [n \in Names |-> [lastLook[n] EXCEPT !.age = Aged(@, CacheTTL + 1)]]
        /\ pollAge' = Aged(pollAge, CacheTTL + 1)
        /\ interfaceOut' = NoReport /\ lastPoll' = lastPoll /\ quietPolls' = quietPolls
    BY <1>2 DEF InterfaceTick
  <2>2. ASSUME NEW a \in Ages PROVE Aged(a, CacheTTL + 1) \in Ages
    BY InterfaceAssumption, AgesGrowTogether DEF Ages
  <2>3. /\ interfaceCache' \in [Names -> [lacks : SUBSET Flags, age : Ages]]
        /\ \A n \in Names : /\ interfaceCache'[n].lacks = interfaceCache[n].lacks
                            /\ interfaceCache'[n].age = Aged(interfaceCache[n].age, CacheTTL + 1)
    BY <2>1, <2>2 DEF InterfaceInv
  <2>4. lastLook' = interfaceCache' /\ pollAge' \in Ages
    BY <2>1, <2>2 DEF InterfaceInv
  <2>5. InterfaceFaultsConfirmed'
    BY <2>1 DEF InterfaceFaultsConfirmed, NoReport
  <2>6. QuietPollIsCached'
    BY <2>1, <2>3 DEF InterfaceInv, QuietPollIsCached
  <2>7. QED
    BY <2>1, <2>3, <2>4, <2>5, <2>6 DEF InterfaceInv
<1>3. CASE UNCHANGED interfaceVars
  BY <1>3 DEF interfaceVars, InterfaceInv, QuietPollIsCached, InterfaceFaultsConfirmed
<1>4. QED
  BY <1>1, <1>2, <1>3 DEF InterfaceNext

(***************************************************************************)
(* IPAMD is reported only if the same pod's was found down before, within  *)
(* the window, and of two polls in a row that find it so one is reported;  *)
(* an interface only if the last poll that came to it found the same       *)
(* fault, a missing loopback at once; the network policy agent only if no  *)
(* poll found it active for as long as its window; and a fault of an       *)
(* interface that lasts does not pass through two silent polls             *)
(* (checkIPAMD, checkInterfaces, checkNotRunning).                         *)
(***************************************************************************)
THEOREM FatalFaultsAreConfirmed == Spec => []FatalFaultsConfirmed
<1>1. Init => IpamdInv /\ InterfaceInv /\ NpaInv
  <2>1. IpamdInit => IpamdInv
    BY IpamdAssumption DEF IpamdInit, IpamdInv, IPAMDSeenDownTwice, Quiet
  <2>2. InterfaceInit => InterfaceInv
    BY InterfaceAssumption DEF InterfaceInit, InterfaceInv, QuietPollIsCached, InterfaceFaultsConfirmed, NoReport,
       Absent, Ages
  <2>3. NpaInit => NpaInv
    BY NpaAssumption DEF NpaInit, NpaInv, NPADownIsSustained, NoNpa
  <2>4. QED
    BY <2>1, <2>2, <2>3 DEF Init
<1>2. IpamdInv /\ InterfaceInv /\ NpaInv /\ [Next]_vars => IpamdInv' /\ InterfaceInv' /\ NpaInv'
  BY IpamdStep, InterfaceStep, NpaStep, StepOfARuntimeOrNetworkCheck, StepOfACounterCheck
<1>3. IpamdInv /\ InterfaceInv /\ NpaInv => FatalFaultsConfirmed
  BY DEF IpamdInv, InterfaceInv, NpaInv, FatalFaultsConfirmed
<1>4. QED
  BY <1>1, <1>2, <1>3, PTL DEF Spec

-----------------------------------------------------------------------------
(* Warnings *)

(***************************************************************************)
(* The limiter of the probes holds at least the burst less the failures    *)
(* since it was last full.                                                 *)
(***************************************************************************)
ProbeInv ==
  /\ probeTokens \in 0..ProbeBurst
  /\ sinceFull \in Nat
  /\ probeTokens + sinceFull >= ProbeBurst
  /\ SafeRateIsQuiet

\* A line about a failed probe and the passing of time keep this true.
LEMMA ProbeStep == ProbeInv /\ [ProbeNext]_probeVars => ProbeInv'
<1> SUFFICES ASSUME ProbeInv, [ProbeNext]_probeVars PROVE ProbeInv'
  OBVIOUS
<1> USE RuntimeAssumption
<1>1. CASE ProbeFails
  <2>1. probeOut' = ~AllowN(probeTokens, 1, ProbeBurst)
    BY <1>1 DEF ProbeFails
  <2>2. /\ probeTokens' = TokensAfter(probeTokens, 1, ProbeBurst)
        /\ sinceFull' = IF sinceFull > ProbeBurst THEN sinceFull ELSE sinceFull + 1
    BY <1>1 DEF ProbeFails
  <2>3. /\ ~AllowN(probeTokens, 1, ProbeBurst) => sinceFull' > ProbeBurst
        /\ probeTokens' \in 0..ProbeBurst /\ sinceFull' \in Nat
        /\ probeTokens' + sinceFull' >= ProbeBurst
    BY <2>2 DEF ProbeInv, AllowN, TokensAfter
  <2>4. QED
    BY <2>1, <2>3 DEF ProbeInv, SafeRateIsQuiet
<1>2. CASE ProbeTick
  <2>1. /\ probeTokens' = Refilled(probeTokens, ProbeBurst)
        /\ sinceFull' = IF probeTokens' = ProbeBurst THEN 0 ELSE sinceFull
    BY <1>2 DEF ProbeTick
  <2>2. /\ probeTokens' \in 0..ProbeBurst /\ sinceFull' \in Nat
        /\ probeTokens' + sinceFull' >= ProbeBurst
    BY <2>1 DEF ProbeInv, Refilled
  <2>3. probeOut' = FALSE
    BY <1>2 DEF ProbeTick
  <2>4. QED
    BY <2>2, <2>3 DEF ProbeInv, SafeRateIsQuiet
<1>3. CASE UNCHANGED probeVars
  BY <1>3 DEF probeVars, ProbeInv, SafeRateIsQuiet
<1>4. QED
  BY <1>1, <1>2, <1>3 DEF ProbeNext

(***************************************************************************)
(* A token bucket against the growth that it has let through: as long as   *)
(* it holds at least the burst less that growth, it refuses only growth    *)
(* beyond what is left of the burst, and holds as much afterwards; a       *)
(* refill gives back one of each.                                          *)
(***************************************************************************)
LEMMA BucketCountsGrowth ==
  ASSUME NEW burst \in Nat, NEW t \in 0..burst, NEW g \in 0..burst, t >= burst - g, NEW d \in Int
  PROVE  /\ ~AllowN(t, d, burst) => d > burst - g
         /\ d > burst => ~AllowN(t, d, burst)
         /\ TokensAfter(t, d, burst) \in 0..burst
         /\ AllowN(t, d, burst) /\ d > 0 => /\ Min({g + d, burst}) \in 0..burst
                                            /\ TokensAfter(t, d, burst) >= burst - Min({g + d, burst})
         /\ ~AllowN(t, d, burst) \/ ~(d > 0) => TokensAfter(t, d, burst) >= burst - g
         /\ Refilled(t, burst) \in 0..burst
         /\ (IF g = 0 THEN 0 ELSE g - 1) \in 0..burst
         /\ Refilled(t, burst) >= burst - (IF g = 0 THEN 0 ELSE g - 1)
<1>1. d > 0 => Min({g + d, burst}) = IF g + d <= burst THEN g + d ELSE burst
  <2> SUFFICES ASSUME d > 0 PROVE Min({g + d, burst}) = IF g + d <= burst THEN g + d ELSE burst
    OBVIOUS
  <2>1. {g + d, burst} \in SUBSET Nat /\ {g + d, burst} # {}
    OBVIOUS
  <2>2. Min({g + d, burst}) \in {g + d, burst} /\ \A y \in {g + d, burst} : Min({g + d, burst}) <= y
    BY <2>1, MinOfNaturals
  <2>3. QED
    BY <2>2
<1>2. QED
  BY <1>1 DEF AllowN, TokensAfter, Refilled

(***************************************************************************)
(* The limiter of each ENA statistic and the growth it has let through.    *)
(***************************************************************************)
EthtoolInv ==
  /\ counts \in [Stats -> Nat]
  /\ recorded \in [Stats -> Nat \cup {None}]
  /\ tokens \in [Stats -> 0..EthtoolBurst]
  /\ allowed \in [Stats -> 0..EthtoolBurst]
  /\ \A s \in Stats : tokens[s] >= EthtoolBurst - allowed[s]
  /\ lastWarned \in 0..ReNotify \cup {None}
  /\ EthtoolSpikesOnly

\* checkEthtool, the driver's counters and the passing of time keep this true.
LEMMA EthtoolStep == EthtoolInv /\ [EthtoolNext]_ethtoolVars => EthtoolInv'
<1> SUFFICES ASSUME EthtoolInv, [EthtoolNext]_ethtoolVars PROVE EthtoolInv'
  OBVIOUS
<1> USE EthtoolAssumption
<1>1. ASSUME NEW read \in SUBSET Stats, checkEthtool(read) PROVE EthtoolInv'
  <2> DEFINE delta(s) == counts[s] - Baseline(s)
             refused == {s \in read : ~AllowN(tokens[s], delta(s), EthtoolBurst)}
             sends == lastWarned = None \/ lastWarned >= ReNotify
  <2>1. /\ tokens' = [s \in Stats |-> IF s \in read THEN TokensAfter(tokens[s], delta(s), EthtoolBurst) ELSE tokens[s]]
        /\ recorded' = [s \in Stats |-> IF s \in read THEN counts[s] ELSE recorded[s]]
        /\ lastWarned' = IF sends /\ refused # {} THEN 0 ELSE lastWarned
        /\ ethtoolOut' = [reported |-> IF sends THEN refused ELSE {},
                          over |-> {s \in read : Growth(s) > EthtoolBurst - allowed[s]},
                          spikes |-> {s \in read : Growth(s) > EthtoolBurst}, age |-> lastWarned]
        /\ allowed' = [s \in Stats |-> IF s \in read \ refused /\ Growth(s) > 0
                                       THEN Min({allowed[s] + Growth(s), EthtoolBurst}) ELSE allowed[s]]
        /\ counts' = counts
    BY <1>1 DEF checkEthtool
  <2>2. ASSUME NEW s \in Stats
        PROVE  /\ delta(s) = Growth(s) /\ Growth(s) \in Int
               /\ tokens[s] \in 0..EthtoolBurst /\ allowed[s] \in 0..EthtoolBurst
               /\ tokens[s] >= EthtoolBurst - allowed[s]
    BY DEF EthtoolInv, Baseline, Growth, None
  <2> HIDE DEF delta
  <2>3. ASSUME NEW s \in Stats
        PROVE  /\ ~AllowN(tokens[s], delta(s), EthtoolBurst) => Growth(s) > EthtoolBurst - allowed[s]
               /\ Growth(s) > EthtoolBurst => ~AllowN(tokens[s], delta(s), EthtoolBurst)
    BY <2>2, BucketCountsGrowth
  <2>4. EthtoolSpikesOnly'
    <3>1. refused \subseteq {s \in read : Growth(s) > EthtoolBurst - allowed[s]}
      BY <2>3
    <3>2. {s \in read : Growth(s) > EthtoolBurst} \subseteq refused
      BY <2>3
    <3> HIDE DEF refused
    <3>3. QED
      BY <2>1, <3>1, <3>2 DEF EthtoolSpikesOnly
  <2>5. ASSUME NEW s \in Stats
        PROVE  /\ tokens'[s] \in 0..EthtoolBurst /\ allowed'[s] \in 0..EthtoolBurst
               /\ tokens'[s] >= EthtoolBurst - allowed'[s]
    <3>1. CASE s \in read \ refused /\ Growth(s) > 0
      <4>1. AllowN(tokens[s], delta(s), EthtoolBurst)
        BY <3>1
      <4>2. /\ tokens'[s] = TokensAfter(tokens[s], delta(s), EthtoolBurst)
            /\ allowed'[s] = Min({allowed[s] + delta(s), EthtoolBurst})
        BY <2>1, <2>2, <3>1
      <4>3. delta(s) \in Int /\ delta(s) > 0
        BY <2>2, <3>1
      <4>4. /\ TokensAfter(tokens[s], delta(s), EthtoolBurst) \in 0..EthtoolBurst
            /\ Min({allowed[s] + delta(s), EthtoolBurst}) \in 0..EthtoolBurst
            /\ TokensAfter(tokens[s], delta(s), EthtoolBurst) >= EthtoolBurst - Min({allowed[s] + delta(s), EthtoolBurst})
        BY <2>2, <4>1, <4>3, BucketCountsGrowth
      <4>5. QED
        BY <4>2, <4>4, Zenon
    <3>2. CASE s \in read /\ ~(s \in read \ refused /\ Growth(s) > 0)
      <4>1. ~AllowN(tokens[s], delta(s), EthtoolBurst) \/ ~(delta(s) > 0)
        BY <2>2, <3>2
      <4>2. /\ tokens'[s] = TokensAfter(tokens[s], delta(s), EthtoolBurst)
            /\ allowed'[s] = allowed[s]
        BY <2>1, <2>2, <3>2
      <4>3. delta(s) \in Int
        BY <2>2
      <4>4. /\ TokensAfter(tokens[s], delta(s), EthtoolBurst) \in 0..EthtoolBurst
            /\ TokensAfter(tokens[s], delta(s), EthtoolBurst) >= EthtoolBurst - allowed[s]
        BY <2>2, <4>1, <4>3, BucketCountsGrowth
      <4>5. QED
        BY <2>2, <4>2, <4>4, Zenon
    <3>3. CASE s \notin read
      BY <2>1, <2>2, <3>3
    <3>4. QED
      BY <3>1, <3>2, <3>3
  <2>6. lastWarned' \in 0..ReNotify \cup {None}
    BY <2>1 DEF EthtoolInv
  <2>7. tokens' \in [Stats -> 0..EthtoolBurst] /\ allowed' \in [Stats -> 0..EthtoolBurst]
    <3>1. DOMAIN tokens' = Stats /\ DOMAIN allowed' = Stats
      BY <2>1
    <3>2. tokens' = [s \in Stats |-> tokens'[s]] /\ allowed' = [s \in Stats |-> allowed'[s]]
      BY <2>1
    <3>3. QED
      BY <2>5, <3>2
  <2>8. counts' \in [Stats -> Nat] /\ recorded' \in [Stats -> Nat \cup {None}]
    BY <2>1 DEF EthtoolInv
  <2>9. QED
    BY <2>4, <2>5, <2>6, <2>7, <2>8 DEF EthtoolInv
<1>2. ASSUME NEW s \in Stats, Count(s) PROVE EthtoolInv'
  BY <1>2 DEF Count, EthtoolInv, EthtoolSpikesOnly, NoSpike
<1>3. CASE DriverReset
  BY <1>3 DEF DriverReset, EthtoolInv, EthtoolSpikesOnly, NoSpike
<1>4. CASE EthtoolTick
  <2>1. /\ tokens' = [s \in Stats |-> Refilled(tokens[s], EthtoolBurst)]
        /\ allowed' = [s \in Stats |-> IF allowed[s] = 0 THEN 0 ELSE allowed[s] - 1]
        /\ lastWarned' = Aged(lastWarned, ReNotify) /\ ethtoolOut' = NoSpike
        /\ counts' = counts /\ recorded' = recorded
    BY <1>4 DEF EthtoolTick
  <2>2. ASSUME NEW s \in Stats
        PROVE  /\ Refilled(tokens[s], EthtoolBurst) \in 0..EthtoolBurst
               /\ (IF allowed[s] = 0 THEN 0 ELSE allowed[s] - 1) \in 0..EthtoolBurst
               /\ Refilled(tokens[s], EthtoolBurst) >= EthtoolBurst - (IF allowed[s] = 0 THEN 0 ELSE allowed[s] - 1)
    BY DEF EthtoolInv, Refilled
  <2>3. lastWarned' \in 0..ReNotify \cup {None}
    BY <2>1, AgesGrowTogether DEF EthtoolInv
  <2>4. EthtoolSpikesOnly'
    BY <2>1 DEF EthtoolSpikesOnly, NoSpike
  <2>5. QED
    BY <2>1, <2>2, <2>3, <2>4 DEF EthtoolInv
<1>5. CASE UNCHANGED ethtoolVars
  BY <1>5 DEF ethtoolVars, EthtoolInv, EthtoolSpikesOnly
<1>6. QED
  BY <1>1, <1>2, <1>3, <1>4, <1>5 DEF EthtoolNext

(***************************************************************************)
(* A token bucket of which is taken at most what a counter really grew.    *)
(***************************************************************************)
LEMMA BucketBoundsGrowth ==
  ASSUME NEW burst \in Nat, NEW t \in 0..burst, NEW g \in 0..burst, t >= burst - g,
         NEW new \in Nat, NEW d \in Int, d <= new
  PROVE  /\ ~AllowN(t, d, burst) => new > burst - g
         /\ TokensAfter(t, d, burst) \in 0..burst
         /\ Min({g + new, burst}) \in 0..burst
         /\ AllowN(t, d, burst) => TokensAfter(t, d, burst) >= burst - Min({g + new, burst})
<1>1. Min({g + new, burst}) = IF g + new <= burst THEN g + new ELSE burst
  <2>1. {g + new, burst} \in SUBSET Nat /\ {g + new, burst} # {}
    OBVIOUS
  <2>2. Min({g + new, burst}) \in {g + new, burst} /\ \A y \in {g + new, burst} : Min({g + new, burst}) <= y
    BY <2>1, MinOfNaturals
  <2>3. QED
    BY <2>2
<1>2. QED
  BY <1>1 DEF AllowN, TokensAfter

(***************************************************************************)
(* The limiter of an EFA counter and the growth it has let through: what   *)
(* Process takes for growth is at most what the device counted since the   *)
(* last reading, and at first what the counter held before.                *)
(***************************************************************************)
EfaInv ==
  /\ efaCount \in Nat /\ counterValue \in Nat /\ efaGrown \in Nat /\ efaBefore \in Nat
  /\ efaCount - counterValue <= efaGrown + efaBefore
  /\ efaTokens \in 0..EfaBurst /\ efaSafe \in 0..EfaBurst
  /\ efaTokens >= EfaBurst - efaSafe
  /\ EFABurstsOnly

\* Process, the device's counters and the passing of time keep this true.
LEMMA EfaStep == EfaInv /\ [EfaNext]_efaVars => EfaInv'
<1> SUFFICES ASSUME EfaInv, [EfaNext]_efaVars PROVE EfaInv'
  OBVIOUS
<1> USE EfaAssumption
<1>1. CASE Process
  <2> DEFINE delta == efaCount - counterValue
             new == efaGrown + efaBefore
             refused == ~AllowN(efaTokens, delta, EfaBurst)
  <2>1. /\ efaTokens' = TokensAfter(efaTokens, delta, EfaBurst)
        /\ efaCount' = efaCount /\ counterValue' = efaCount /\ efaGrown' = 0 /\ efaBefore' = 0
        /\ efaSafe' = IF refused THEN efaSafe ELSE Min({efaSafe + new, EfaBurst})
        /\ efaOut' = [reported |-> refused, over |-> new > EfaBurst - efaSafe]
    BY <1>1 DEF Process
  <2>2. /\ delta \in Int /\ new \in Nat /\ delta <= new
        /\ efaTokens \in 0..EfaBurst /\ efaSafe \in 0..EfaBurst /\ efaTokens >= EfaBurst - efaSafe
    BY DEF EfaInv
  <2> HIDE DEF delta, new
  <2>3. efaOut'.reported = refused /\ efaOut'.over = (new > EfaBurst - efaSafe)
    BY <2>1, Zenon
  <2>4. /\ refused => new > EfaBurst - efaSafe
        /\ TokensAfter(efaTokens, delta, EfaBurst) \in 0..EfaBurst
        /\ Min({efaSafe + new, EfaBurst}) \in 0..EfaBurst
        /\ ~refused => TokensAfter(efaTokens, delta, EfaBurst) >= EfaBurst - Min({efaSafe + new, EfaBurst})
    BY <2>2, BucketBoundsGrowth
  <2>5. EFABurstsOnly'
    BY <2>3, <2>4 DEF EFABurstsOnly
  <2>6. refused => TokensAfter(efaTokens, delta, EfaBurst) = efaTokens
    BY DEF TokensAfter
  <2>7. efaTokens' \in 0..EfaBurst /\ efaSafe' \in 0..EfaBurst /\ efaTokens' >= EfaBurst - efaSafe'
    <3>1. CASE refused
      BY <2>1, <2>2, <2>6, <3>1
    <3>2. CASE ~refused
      <4>1. efaSafe' = Min({efaSafe + new, EfaBurst})
        BY <2>1, <3>2
      <4>2. QED
        BY <2>1, <2>4, <3>2, <4>1, Zenon
    <3>3. QED
      BY <3>1, <3>2
  <2>8. efaCount' \in Nat /\ efaCount' - counterValue' <= efaGrown' + efaBefore'
    BY <2>1 DEF EfaInv
  <2>9. QED
    BY <2>1, <2>5, <2>7, <2>8 DEF EfaInv
<1>2. CASE EfaCounts \/ EfaReset
  BY <1>2 DEF EfaCounts, EfaReset, EfaInv, EFABurstsOnly
<1>3. CASE EfaTick
  <2>1. /\ efaTokens' = Refilled(efaTokens, EfaBurst) /\ efaSafe' = (IF efaSafe = 0 THEN 0 ELSE efaSafe - 1)
        /\ UNCHANGED <<efaCount, counterValue, efaGrown, efaBefore>>
    BY <1>3 DEF EfaTick
  <2>2. EFABurstsOnly'
    BY <1>3 DEF EfaTick, EFABurstsOnly
  <2>3. QED
    BY <2>1, <2>2 DEF EfaInv, Refilled
<1>4. CASE UNCHANGED efaVars
  BY <1>4 DEF efaVars, EfaInv, EFABurstsOnly
<1>5. QED
  BY <1>1, <1>2, <1>3, <1>4 DEF EfaNext

(***************************************************************************)
(* The tracker of the Corefile agent holds what was last told, and when:   *)
(* nothing else resets it, and a notification that failed does not count.  *)
(***************************************************************************)
CorefileInv == corefile = lastTold /\ CorefileToldWhenDue

\* HandleState of the Corefile agent keeps this true, whether its notification is sent or not.
LEMMA CorefileStep == CorefileInv /\ [CorefileNext]_corefileVars => CorefileInv'
<1> SUFFICES ASSUME CorefileInv, [CorefileNext]_corefileVars PROVE CorefileInv'
  OBVIOUS
<1>0. Untold.polled = FALSE
  BY DEF Untold
<1>1. ASSUME NEW sent \in BOOLEAN, PollReadyz(sent) PROVE CorefileInv'
  <2>1. outcome' = outcome
    BY <1>1 DEF PollReadyz
  <2>2. CASE corefile' = NoKey /\ lastTold' = NoKey /\ corefileOut' = Untold
    BY <1>0, <2>2 DEF CorefileInv, CorefileToldWhenDue
  <2>3. CASE /\ outcome \in Failures => ~ShouldNotify(corefile, outcome, ReNotify)
             /\ corefileOut' = [told |-> "none", before |-> lastTold, polled |-> outcome \in Failures]
             /\ UNCHANGED <<corefile, lastTold>>
    <3>1. corefileOut'.polled = (outcome \in Failures) /\ corefileOut'.told = "none" /\ corefileOut'.before = lastTold
      BY <2>3, Zenon
    <3>2. CorefileToldWhenDue'
      BY <2>1, <2>3, <3>1 DEF CorefileInv, CorefileToldWhenDue
    <3>3. QED
      BY <2>3, <3>2 DEF CorefileInv
  <2>4. CASE /\ outcome \in Failures /\ ShouldNotify(corefile, outcome, ReNotify)
             /\ corefile' = Recorded(sent, outcome)
             /\ lastTold' = IF sent THEN Notified(outcome) ELSE lastTold
             /\ corefileOut' = [told |-> IF sent THEN outcome ELSE "none", before |-> lastTold, polled |-> sent]
    <3>1. /\ corefileOut'.polled = sent /\ corefileOut'.before = lastTold
          /\ sent => corefileOut'.told = outcome
      BY <2>4, Zenon
    <3>2. outcome # "none"
      BY <2>4, FailuresAssumption
    <3>3. CorefileToldWhenDue'
      BY <2>1, <2>4, <3>1, <3>2 DEF CorefileInv, CorefileToldWhenDue
    <3>4. QED
      BY <2>4, <3>3 DEF CorefileInv, Recorded
  <2>5. QED
    BY <1>1, <2>2, <2>3, <2>4 DEF PollReadyz
<1>2. CASE OutcomeChanges
  BY <1>0, <1>2 DEF OutcomeChanges, CorefileInv, CorefileToldWhenDue
<1>3. CASE CorefileTick
  BY <1>0, <1>3 DEF CorefileTick, CorefileInv, CorefileToldWhenDue
<1>4. CASE UNCHANGED corefileVars
  BY <1>4 DEF corefileVars, CorefileInv, CorefileToldWhenDue
<1>5. QED
  BY <1>1, <1>2, <1>3, <1>4 DEF CorefileNext

(***************************************************************************)
(* Warnings that are limited in their rate: none is given below the safe   *)
(* rate, nor for what an ENA statistic held before it was seen (the first  *)
(* reading of an EFA counter does count that); ENA growth beyond the burst *)
(* is not missed when a warning is due; and a failure of the Corefile      *)
(* agent is told exactly when it is due, whatever notifications fail       *)
(* (handleKubelet, checkEthtool, Process, HandleState).                    *)
(***************************************************************************)
THEOREM WarningsWellPaced == Spec => []WarningsPaced
<1> DEFINE Inv == ProbeInv /\ EthtoolInv /\ EfaInv /\ CorefileInv
<1>1. Init => Inv
  <2>1. ProbeInit => ProbeInv
    BY RuntimeAssumption DEF ProbeInit, ProbeInv, SafeRateIsQuiet
  <2>2. EthtoolInit => EthtoolInv
    BY EthtoolAssumption DEF EthtoolInit, EthtoolInv, EthtoolSpikesOnly, NoSpike
  <2>3. EfaInit => EfaInv
    BY EfaAssumption, EthtoolAssumption DEF EfaInit, EfaInv, EFABurstsOnly
  <2>4. CorefileInit => CorefileInv
    BY DEF CorefileInit, CorefileInv, CorefileToldWhenDue, Untold
  <2>5. QED
    BY <2>1, <2>2, <2>3, <2>4 DEF Init
<1>2. Inv /\ [Next]_vars => Inv'
  BY ProbeStep, EthtoolStep, EfaStep, CorefileStep, StepOfARuntimeOrNetworkCheck, StepOfACounterCheck
<1>3. Inv => WarningsPaced
  BY DEF ProbeInv, EthtoolInv, EfaInv, CorefileInv, WarningsPaced
<1> HIDE DEF Inv
<1>4. QED
  BY <1>1, <1>2, <1>3, PTL DEF Spec

-----------------------------------------------------------------------------
(* The probe runner *)

(***************************************************************************)
(* Run and Outstanding on the results of one check.                        *)
(***************************************************************************)
Result == [healthy : BOOLEAN, grace : BOOLEAN]
RunIn(R, i, n, healthy) == n <= i /\ \A k \in (i - n + 1)..i : R[k].healthy = healthy
OutstandingIn(R, n) ==
  \E i \in 1..n :
    /\ ~R[i].grace
    /\ RunIn(R, i, FailureThreshold, FALSE)
    /\ \A j \in (i + recoveryThreshold)..n : ~RunIn(R, j, recoveryThreshold, TRUE)

\* Both thresholds are positive; a recovery threshold of zero stands for one.
LEMMA Thresholds ==
  /\ FailureThreshold \in Nat /\ FailureThreshold >= 1
  /\ recoveryThreshold \in Nat /\ recoveryThreshold >= 1
  BY ProbeAssumption DEF recoveryThreshold

(***************************************************************************)
(* A new result does not change what was outstanding before it.            *)
(***************************************************************************)
LEMMA PastIsKept ==
  ASSUME NEW R \in Seq(Result), NEW S \in Seq(Result), Len(R) <= Len(S),
         \A k \in 1..Len(R) : S[k] = R[k], NEW n \in 0..Len(R)
  PROVE  /\ \A m \in Nat, h \in BOOLEAN : RunIn(S, n, m, h) <=> RunIn(R, n, m, h)
         /\ OutstandingIn(S, n) <=> OutstandingIn(R, n)
<1>0. Len(R) \in Nat
  OBVIOUS
<1>1. ASSUME NEW i \in 0..Len(R), NEW m \in Nat, NEW h \in BOOLEAN
      PROVE  RunIn(S, i, m, h) <=> RunIn(R, i, m, h)
  <2>1. m <= i => \A k \in (i - m + 1)..i : S[k] = R[k]
    <3> SUFFICES ASSUME m <= i, NEW k \in (i - m + 1)..i PROVE S[k] = R[k]
      OBVIOUS
    <3>1. k \in 1..Len(R)
      BY <1>0
    <3>2. QED
      BY <3>1
  <2>2. QED
    BY <2>1 DEF RunIn
<1>2. ASSUME NEW i \in 1..n
      PROVE  /\ S[i] = R[i]
             /\ RunIn(S, i, FailureThreshold, FALSE) <=> RunIn(R, i, FailureThreshold, FALSE)
             /\ \A j \in (i + recoveryThreshold)..n :
                   RunIn(S, j, recoveryThreshold, TRUE) <=> RunIn(R, j, recoveryThreshold, TRUE)
  <2>1. i \in 0..Len(R) /\ i \in 1..Len(R) /\ FALSE \in BOOLEAN /\ TRUE \in BOOLEAN
    BY <1>0
  <2>2. \A j \in (i + recoveryThreshold)..n : j \in 0..Len(R)
    BY <1>0, Thresholds
  <2>3. QED
    BY <1>1, <2>1, <2>2, Thresholds
<1>3. OutstandingIn(S, n) <=> OutstandingIn(R, n)
  BY <1>2 DEF OutstandingIn
<1>4. QED
  BY <1>1, <1>3

(***************************************************************************)
(* A failure is outstanding after an unhealthy result if it was before, or *)
(* if the result completes a run of failures outside the grace period.     *)
(***************************************************************************)
LEMMA OutstandingAfterFailure ==
  ASSUME NEW R \in Seq(Result), NEW S \in Seq(Result), Len(S) = Len(R) + 1,
         \A k \in 1..Len(R) : S[k] = R[k], S[Len(S)].healthy = FALSE
  PROVE  OutstandingIn(S, Len(S)) <=>
           \/ OutstandingIn(R, Len(R))
           \/ ~S[Len(S)].grace /\ RunIn(S, Len(S), FailureThreshold, FALSE)
<1> DEFINE n == Len(R)
<1>0. n \in Nat /\ Len(S) = n + 1
  OBVIOUS
<1> HIDE DEF n
<1>1. ~RunIn(S, n + 1, recoveryThreshold, TRUE)
  BY <1>0, Thresholds DEF RunIn
<1>2. OutstandingIn(S, n) <=> OutstandingIn(R, n)
  BY <1>0, PastIsKept DEF n
<1>3. ASSUME OutstandingIn(S, n) PROVE OutstandingIn(S, n + 1)
  <2>1. PICK i \in 1..n : /\ ~S[i].grace
                          /\ RunIn(S, i, FailureThreshold, FALSE)
                          /\ \A j \in (i + recoveryThreshold)..n : ~RunIn(S, j, recoveryThreshold, TRUE)
    BY <1>3 DEF OutstandingIn
  <2>2. \A j \in (i + recoveryThreshold)..(n + 1) : j = n + 1 \/ j \in (i + recoveryThreshold)..n
    BY <1>0, Thresholds
  <2>3. i \in 1..(n + 1)
    BY <1>0
  <2>4. QED
    BY <1>1, <2>1, <2>2, <2>3 DEF OutstandingIn
<1>4. ASSUME ~S[n + 1].grace, RunIn(S, n + 1, FailureThreshold, FALSE) PROVE OutstandingIn(S, n + 1)
  <2>1. \A j \in ((n + 1) + recoveryThreshold)..(n + 1) : FALSE
    BY <1>0, Thresholds
  <2>2. n + 1 \in 1..(n + 1)
    BY <1>0
  <2>3. QED
    BY <1>4, <2>1, <2>2 DEF OutstandingIn
<1>5. ASSUME OutstandingIn(S, n + 1)
      PROVE  OutstandingIn(S, n) \/ (~S[n + 1].grace /\ RunIn(S, n + 1, FailureThreshold, FALSE))
  <2>1. PICK i \in 1..(n + 1) : /\ ~S[i].grace
                                /\ RunIn(S, i, FailureThreshold, FALSE)
                                /\ \A j \in (i + recoveryThreshold)..(n + 1) : ~RunIn(S, j, recoveryThreshold, TRUE)
    BY <1>5 DEF OutstandingIn
  <2>2. CASE i = n + 1
    BY <2>1, <2>2
  <2>3. CASE i # n + 1
    <3>1. i \in 1..n /\ \A j \in (i + recoveryThreshold)..n : j \in (i + recoveryThreshold)..(n + 1)
      BY <1>0, <2>3, Thresholds
    <3>2. QED
      BY <2>1, <3>1 DEF OutstandingIn
  <2>4. QED
    BY <2>2, <2>3
<1>6. QED
  BY <1>0, <1>2, <1>3, <1>4, <1>5 DEF n

(***************************************************************************)
(* A failure is outstanding after a healthy result if it was before, and   *)
(* the result does not complete a run of healthy ones.                     *)
(***************************************************************************)
LEMMA OutstandingAfterHealthy ==
  ASSUME NEW R \in Seq(Result), NEW S \in Seq(Result), Len(S) = Len(R) + 1,
         \A k \in 1..Len(R) : S[k] = R[k], S[Len(S)].healthy = TRUE
  PROVE  OutstandingIn(S, Len(S)) <=>
           OutstandingIn(R, Len(R)) /\ ~RunIn(S, Len(S), recoveryThreshold, TRUE)
<1> DEFINE n == Len(R)
<1>0. n \in Nat /\ Len(S) = n + 1
  OBVIOUS
<1> HIDE DEF n
<1>1. ~RunIn(S, n + 1, FailureThreshold, FALSE)
  BY <1>0, Thresholds DEF RunIn
<1>2. OutstandingIn(S, n) <=> OutstandingIn(R, n)
  BY <1>0, PastIsKept DEF n
<1>3. ASSUME OutstandingIn(S, n), ~RunIn(S, n + 1, recoveryThreshold, TRUE) PROVE OutstandingIn(S, n + 1)
  <2>1. PICK i \in 1..n : /\ ~S[i].grace
                          /\ RunIn(S, i, FailureThreshold, FALSE)
                          /\ \A j \in (i + recoveryThreshold)..n : ~RunIn(S, j, recoveryThreshold, TRUE)
    BY <1>3 DEF OutstandingIn
  <2>2. \A j \in (i + recoveryThreshold)..(n + 1) : j = n + 1 \/ j \in (i + recoveryThreshold)..n
    BY <1>0, Thresholds
  <2>3. i \in 1..(n + 1)
    BY <1>0
  <2>4. QED
    BY <1>3, <2>1, <2>2, <2>3 DEF OutstandingIn
<1>4. ASSUME OutstandingIn(S, n + 1)
      PROVE  OutstandingIn(S, n) /\ ~RunIn(S, n + 1, recoveryThreshold, TRUE)
  <2>1. PICK i \in 1..(n + 1) : /\ ~S[i].grace
                                /\ RunIn(S, i, FailureThreshold, FALSE)
                                /\ \A j \in (i + recoveryThreshold)..(n + 1) : ~RunIn(S, j, recoveryThreshold, TRUE)
    BY <1>4 DEF OutstandingIn
  <2>2. i \in 1..n
    <3>1. i # n + 1
      BY <1>1, <2>1
    <3>2. QED
      BY <1>0, <3>1
  <2>3. \A j \in (i + recoveryThreshold)..n : j \in (i + recoveryThreshold)..(n + 1)
    BY <1>0, <2>2, Thresholds
  <2>4. OutstandingIn(S, n)
    BY <2>1, <2>2, <2>3 DEF OutstandingIn
  <2>5. S[i].healthy = FALSE
    BY <2>1, <2>2, Thresholds DEF RunIn
  <2>6. ASSUME RunIn(S, n + 1, recoveryThreshold, TRUE) PROVE FALSE
    <3>1. i < (n + 1) - recoveryThreshold + 1
      <4> SUFFICES ASSUME i >= (n + 1) - recoveryThreshold + 1 PROVE FALSE
        BY <1>0, <2>2, Thresholds
      <4>1. i \in ((n + 1) - recoveryThreshold + 1)..(n + 1)
        BY <1>0, <2>2, Thresholds
      <4>2. S[i].healthy = TRUE
        BY <2>6, <4>1 DEF RunIn
      <4>3. QED
        BY <2>5, <4>2
    <3>2. n + 1 \in (i + recoveryThreshold)..(n + 1)
      BY <1>0, <2>2, <3>1, Thresholds
    <3>3. QED
      BY <2>1, <2>6, <3>2
  <2>7. QED
    BY <2>4, <2>6
<1>5. QED
  BY <1>0, <1>2, <1>3, <1>4 DEF n

(***************************************************************************)
(* What the counters of a check say about its results: the failures at the *)
(* end, how the first of them came, whether a failure is outstanding and,  *)
(* if so, the healthy results at the end.                                  *)
(***************************************************************************)
CheckFacts(R, cs) ==
  /\ cs.consecutiveFailures <= Len(R)
  /\ RunIn(R, Len(R), cs.consecutiveFailures, FALSE)
  /\ cs.consecutiveFailures < Len(R) => R[Len(R) - cs.consecutiveFailures].healthy = TRUE
  /\ cs.consecutiveFailures > 0 => cs.streakStartedInGrace = R[Len(R) - cs.consecutiveFailures + 1].grace
  /\ cs.fired <=> OutstandingIn(R, Len(R))
  /\ cs.fired => /\ cs.consecutiveHealthy < Len(R) /\ cs.consecutiveHealthy < recoveryThreshold
                 /\ RunIn(R, Len(R), cs.consecutiveHealthy, TRUE)
                 /\ R[Len(R) - cs.consecutiveHealthy].healthy = FALSE
  /\ ~cs.fired => cs.consecutiveHealthy = 0

(***************************************************************************)
(* A run at the end that is maximal: what one more result makes of it.     *)
(***************************************************************************)
LEMMA RunGrows ==
  ASSUME NEW R \in Seq(Result), NEW S \in Seq(Result), Len(S) = Len(R) + 1,
         \A k \in 1..Len(R) : S[k] = R[k], NEW h \in BOOLEAN, S[Len(S)].healthy = h,
         NEW m \in 0..Len(R), RunIn(R, Len(R), m, h), m < Len(R) => R[Len(R) - m].healthy # h
  PROVE  /\ RunIn(S, Len(S), m + 1, h)
         /\ m + 1 < Len(S) => S[Len(S) - (m + 1)] = R[Len(R) - m]
         /\ \A t \in Nat : RunIn(S, Len(S), t, h) <=> t <= m + 1
<1> DEFINE n == Len(R)
<1>0. n \in Nat /\ Len(S) = n + 1 /\ m \in Nat /\ m <= n
  OBVIOUS
<1>1. \A k \in 1..n : S[k] = R[k]
  OBVIOUS
<1>2. m < n => R[n - m].healthy # h
  OBVIOUS
<1>3. \A k \in (n - m + 1)..n : R[k].healthy = h
  BY DEF RunIn
<1>9. S[n + 1].healthy = h
  BY <1>0
<1> HIDE DEF n
<1>4. \A k \in (n - m + 1)..(n + 1) : S[k].healthy = h
  <2> SUFFICES ASSUME NEW k \in (n - m + 1)..(n + 1) PROVE S[k].healthy = h
    OBVIOUS
  <2>1. CASE k = n + 1
    BY <1>9, <2>1
  <2>2. CASE k # n + 1
    <3>1. k \in (n - m + 1)..n /\ k \in 1..n
      BY <1>0, <2>2
    <3>2. QED
      BY <1>1, <1>3, <3>1
  <2>3. QED
    BY <2>1, <2>2
<1>5. m < n => S[n - m] = R[n - m]
  <2>1. m < n => n - m \in 1..n
    BY <1>0
  <2>2. QED
    BY <1>1, <2>1
<1>6. ASSUME NEW t \in Nat PROVE RunIn(S, n + 1, t, h) <=> t <= m + 1
  <2>1. ASSUME t <= m + 1 PROVE RunIn(S, n + 1, t, h)
    <3>1. t <= n + 1 /\ \A k \in ((n + 1) - t + 1)..(n + 1) : k \in (n - m + 1)..(n + 1)
      BY <1>0, <2>1
    <3>2. QED
      BY <1>4, <3>1 DEF RunIn
  <2>2. ASSUME RunIn(S, n + 1, t, h), t > m + 1 PROVE FALSE
    <3>1. t <= n + 1
      BY <2>2 DEF RunIn
    <3>2. m < n /\ n - m \in ((n + 1) - t + 1)..(n + 1)
      BY <1>0, <2>2, <3>1
    <3>3. S[n - m].healthy = h
      BY <2>2, <3>2 DEF RunIn
    <3>4. QED
      BY <1>2, <1>5, <3>2, <3>3
  <2>3. QED
    BY <1>0, <2>1, <2>2
<1>7. RunIn(S, n + 1, m + 1, h)
  BY <1>0, <1>6
<1>8. m + 1 < n + 1 => S[(n + 1) - (m + 1)] = R[n - m]
  <2>1. (n + 1) - (m + 1) = n - m /\ (m + 1 < n + 1 => m < n)
    BY <1>0
  <2>2. QED
    BY <1>5, <2>1
<1>10. QED
  BY <1>0, <1>6, <1>7, <1>8 DEF n

(***************************************************************************)
(* applyUnhealthy keeps the counters true and reports exactly when a       *)
(* failure becomes outstanding.                                            *)
(***************************************************************************)
LEMMA UnhealthyApplied ==
  ASSUME NEW R \in Seq(Result), NEW S \in Seq(Result), Len(S) = Len(R) + 1,
         \A k \in 1..Len(R) : S[k] = R[k],
         inGrace \in BOOLEAN, S[Len(S)].healthy = FALSE, S[Len(S)].grace = inGrace,
         NEW cs \in CheckState, CheckFacts(R, cs)
  PROVE  /\ applyUnhealthy(cs).state \in CheckState
         /\ CheckFacts(S, applyUnhealthy(cs).state)
         /\ applyUnhealthy(cs).note \in {"none", "Failure"}
         /\ applyUnhealthy(cs).note = "Failure" <=>
              (OutstandingIn(S, Len(S)) /\ ~OutstandingIn(R, Len(R)))
         /\ OutstandingIn(R, Len(R)) => OutstandingIn(S, Len(S))
<1> DEFINE n == Len(R)
           F == cs.consecutiveFailures
           new == applyUnhealthy(cs).state
           fires == ~cs.fired /\ ~inGrace /\ F + 1 >= FailureThreshold
<1>0. n \in Nat /\ Len(S) = n + 1 /\ F \in Nat /\ F <= n
  BY DEF CheckFacts, CheckState
<1>1. S[Len(S)].healthy = FALSE /\ S[Len(S)].grace = inGrace
  OBVIOUS
<1>2. /\ RunIn(S, Len(S), F + 1, FALSE)
      /\ F + 1 < Len(S) => S[Len(S) - (F + 1)] = R[Len(R) - F]
      /\ \A t \in Nat : RunIn(S, Len(S), t, FALSE) <=> t <= F + 1
  <2>1. F \in 0..Len(R) /\ FALSE \in BOOLEAN
    BY <1>0
  <2>2. RunIn(R, Len(R), F, FALSE) /\ (F < Len(R) => R[Len(R) - F].healthy # FALSE)
    BY DEF CheckFacts
  <2> HIDE DEF F
  <2>3. QED
    BY <1>1, <2>1, <2>2, RunGrows
<1>3. OutstandingIn(S, Len(S)) <=> cs.fired \/ (~inGrace /\ F + 1 >= FailureThreshold)
  <2>1. RunIn(S, Len(S), FailureThreshold, FALSE) <=> F + 1 >= FailureThreshold
    BY <1>0, <1>2, Thresholds
  <2>2. cs.fired <=> OutstandingIn(R, Len(R))
    BY DEF CheckFacts
  <2> HIDE DEF F
  <2>3. QED
    BY <1>1, <2>1, <2>2, OutstandingAfterFailure
<1>4. /\ new.consecutiveFailures = F + 1 /\ new.consecutiveHealthy = 0
      /\ new.streakStartedInGrace = IF F = 0 THEN inGrace ELSE cs.streakStartedInGrace
      /\ new.fired = (cs.fired \/ fires)
      /\ new \in CheckState
      /\ applyUnhealthy(cs).note = IF fires THEN "Failure" ELSE "none"
  <2> DEFINE g == F + 1
             sg == IF F = 0 THEN inGrace ELSE cs.streakStartedInGrace
             failing == [cs EXCEPT !.consecutiveFailures = g, !.consecutiveHealthy = 0, !.streakStartedInGrace = sg]
  <2>1. Failing(cs) = failing
    BY DEF Failing
  <2>2. g \in Nat /\ sg \in BOOLEAN
    BY <1>0 DEF CheckState
  <2> HIDE DEF g, sg
  <2>3. /\ failing \in CheckState /\ failing.consecutiveFailures = g /\ failing.consecutiveHealthy = 0
        /\ failing.streakStartedInGrace = sg /\ failing.fired = cs.fired
    BY <2>2 DEF CheckState
  <2>4. /\ [failing EXCEPT !.fired = TRUE] \in CheckState
        /\ [failing EXCEPT !.fired = TRUE].consecutiveFailures = g
        /\ [failing EXCEPT !.fired = TRUE].consecutiveHealthy = 0
        /\ [failing EXCEPT !.fired = TRUE].streakStartedInGrace = sg
        /\ [failing EXCEPT !.fired = TRUE].fired = TRUE
    BY <2>2 DEF CheckState
  <2> HIDE DEF failing
  <2>5. (cs.fired \/ inGrace \/ Failing(cs).consecutiveFailures < FailureThreshold) <=> ~fires
    <3>1. g < FailureThreshold <=> ~(F + 1 >= FailureThreshold)
      BY <1>0, Thresholds DEF g
    <3>2. QED
      BY <2>1, <2>3, <3>1
  <2>6. CASE fires
    <3>1. applyUnhealthy(cs) = [state |-> [failing EXCEPT !.fired = TRUE], note |-> "Failure"]
      BY <2>1, <2>5, <2>6, Zenon DEF applyUnhealthy, Effect
    <3>2. new = [failing EXCEPT !.fired = TRUE] /\ applyUnhealthy(cs).note = "Failure"
      BY <3>1
    <3> HIDE DEF new
    <3>3. QED
      BY <2>4, <2>6, <3>2 DEF g, sg
  <2>7. CASE ~fires
    <3>1. applyUnhealthy(cs) = [state |-> failing, note |-> "none"]
      BY <2>1, <2>5, <2>7, Zenon DEF applyUnhealthy, Effect
    <3>2. new = failing /\ applyUnhealthy(cs).note = "none"
      BY <3>1
    <3>3. cs.fired \in BOOLEAN
      BY DEF CheckState
    <3> HIDE DEF new
    <3>4. QED
      BY <2>3, <2>7, <3>2, <3>3 DEF g, sg
  <2>8. QED
    BY <2>6, <2>7
<1>5. cs.fired <=> OutstandingIn(R, Len(R))
  BY DEF CheckFacts
<1>6. new.streakStartedInGrace = S[Len(S) - (F + 1) + 1].grace
  <2>1. CASE F = 0
    <3>1. Len(S) - (F + 1) + 1 = Len(S)
      BY <1>0, <2>1
    <3>2. QED
      BY <1>1, <1>4, <2>1, <3>1
  <2>2. CASE F # 0
    <3>1. Len(S) - (F + 1) + 1 = n - F + 1 /\ n - F + 1 \in 1..Len(R) /\ F > 0
      BY <1>0, <2>2
    <3>2. S[n - F + 1] = R[n - F + 1] /\ cs.streakStartedInGrace = R[n - F + 1].grace
      BY <3>1 DEF CheckFacts
    <3>3. QED
      BY <1>4, <2>2, <3>1, <3>2
  <2>3. QED
    BY <2>1, <2>2
<1>7. F + 1 < Len(S) => S[Len(S) - (F + 1)].healthy = TRUE
  <2>1. F < Len(R) => R[Len(R) - F].healthy = TRUE
    BY DEF CheckFacts
  <2>2. F + 1 < Len(S) => F < Len(R)
    BY <1>0
  <2>3. QED
    BY <1>2, <2>1, <2>2
<1>8. 0 < Len(S) /\ 0 < recoveryThreshold /\ RunIn(S, Len(S), 0, TRUE) /\ S[Len(S) - 0].healthy = FALSE
  <2>1. Len(S) - 0 = Len(S) /\ 0 < Len(S) /\ \A k \in (Len(S) - 0 + 1)..Len(S) : FALSE
    BY <1>0
  <2>2. QED
    BY <1>1, <2>1, Thresholds DEF RunIn
<1>9. F + 1 <= Len(S)
  BY <1>0
<1>10. new.fired <=> OutstandingIn(S, Len(S))
  BY <1>3, <1>4
<1>11. applyUnhealthy(cs).note = "Failure" <=> fires
  BY <1>4
<1> DEFINE f == F + 1
<1>12. new.consecutiveFailures = f /\ new.consecutiveHealthy = 0
  BY <1>4
<1>13. CheckFacts(S, new)
  <2>1. /\ f <= Len(S)
        /\ RunIn(S, Len(S), f, FALSE)
        /\ f < Len(S) => S[Len(S) - f].healthy = TRUE
        /\ new.streakStartedInGrace = S[Len(S) - f + 1].grace
    BY <1>2, <1>6, <1>7, <1>9
  <2> HIDE DEF f, new
  <2>2. QED
    BY <1>8, <1>10, <1>12, <2>1 DEF CheckFacts
<1> HIDE DEF new, F
<1>14. QED
  BY <1>3, <1>4, <1>5, <1>11, <1>13 DEF new

(***************************************************************************)
(* applyHealthy keeps the counters true, resolves a fatal check exactly    *)
(* when its failure is no longer outstanding, and leaves a summary exactly *)
(* after failures that were not reported and did not begin in the grace    *)
(* period.                                                                 *)
(***************************************************************************)
LEMMA HealthyApplied ==
  ASSUME NEW c \in Checks,
         NEW R \in Seq(Result), NEW S \in Seq(Result), Len(S) = Len(R) + 1,
         \A k \in 1..Len(R) : S[k] = R[k], S[Len(S)].healthy = TRUE,
         NEW cs \in CheckState, CheckFacts(R, cs)
  PROVE  /\ applyHealthy(c, cs).state \in CheckState
         /\ CheckFacts(S, applyHealthy(c, cs).state)
         /\ applyHealthy(c, cs).note \in {"none", "Resolved", "Summary"}
         /\ SeverityOf[c] = "Fatal" =>
              (applyHealthy(c, cs).note = "Resolved" <=> (~OutstandingIn(S, Len(S)) /\ OutstandingIn(R, Len(R))))
         /\ applyHealthy(c, cs).note = "Summary" <=>
              (~OutstandingIn(R, Len(R)) /\ cs.consecutiveFailures # 0 /\ ~cs.streakStartedInGrace)
         /\ OutstandingIn(S, Len(S)) => OutstandingIn(R, Len(R))
<1> DEFINE n == Len(R)
           H == cs.consecutiveHealthy
           new == applyHealthy(c, cs).state
           note == applyHealthy(c, cs).note
           g == H + 1
<1>0. n \in Nat /\ Len(S) = n + 1 /\ H \in Nat /\ g \in Nat /\ cs.fired \in BOOLEAN
  BY DEF CheckState
<1>1. OutstandingIn(S, Len(S)) <=> OutstandingIn(R, Len(R)) /\ ~RunIn(S, Len(S), recoveryThreshold, TRUE)
  BY OutstandingAfterHealthy
<1>2. cs.fired <=> OutstandingIn(R, Len(R))
  BY DEF CheckFacts
<1>3. cs.fired => /\ RunIn(S, Len(S), g, TRUE)
                  /\ g < Len(S) /\ S[Len(S) - g].healthy = FALSE
                  /\ RunIn(S, Len(S), recoveryThreshold, TRUE) <=> recoveryThreshold <= g
  <2> SUFFICES ASSUME cs.fired PROVE /\ RunIn(S, Len(S), g, TRUE)
                                     /\ g < Len(S) /\ S[Len(S) - g].healthy = FALSE
                                     /\ RunIn(S, Len(S), recoveryThreshold, TRUE) <=> recoveryThreshold <= g
    OBVIOUS
  <2>1. H \in 0..Len(R) /\ TRUE \in BOOLEAN /\ H < Len(R)
    BY <1>0 DEF CheckFacts
  <2>2. RunIn(R, Len(R), H, TRUE) /\ R[Len(R) - H].healthy = FALSE
    BY DEF CheckFacts
  <2>5. R[Len(R) - H].healthy # TRUE
    BY <2>2
  <2> HIDE DEF H
  <2>3. /\ RunIn(S, Len(S), H + 1, TRUE)
        /\ H + 1 < Len(S) => S[Len(S) - (H + 1)] = R[Len(R) - H]
        /\ \A t \in Nat : RunIn(S, Len(S), t, TRUE) <=> t <= H + 1
    BY <2>1, <2>2, <2>5, RunGrows
  <2>4. H + 1 < Len(S)
    BY <1>0, <2>1
  <2>6. QED
    BY <2>2, <2>3, <2>4, Thresholds
<1>4. /\ 0 <= Len(S) /\ 0 < Len(S) /\ RunIn(S, Len(S), 0, FALSE) /\ S[Len(S) - 0].healthy = TRUE /\ ~(0 > 0)
  <2>1. Len(S) - 0 = Len(S) /\ 0 < Len(S) /\ 0 <= Len(S) /\ \A k \in (Len(S) - 0 + 1)..Len(S) : FALSE
    BY <1>0
  <2>2. QED
    BY <2>1 DEF RunIn
<1> HIDE DEF g
<1>5. CASE ~cs.fired
  <2> DEFINE x == [cs EXCEPT !.consecutiveFailures = 0]
             quiet == cs.consecutiveFailures = 0 \/ cs.streakStartedInGrace
  <2>1. applyHealthy(c, cs) = [state |-> x, note |-> IF quiet THEN "none" ELSE "Summary"]
    BY <1>5 DEF applyHealthy, Effect
  <2>2. new = x /\ note = IF quiet THEN "none" ELSE "Summary"
    BY <2>1
  <2>3. /\ x \in CheckState /\ x.consecutiveFailures = 0 /\ x.consecutiveHealthy = cs.consecutiveHealthy
        /\ x.fired = cs.fired
    BY DEF CheckState
  <2>4. cs.consecutiveHealthy = 0
    BY <1>5 DEF CheckFacts
  <2>5. ~OutstandingIn(S, Len(S)) /\ ~OutstandingIn(R, Len(R))
    BY <1>1, <1>2, <1>5
  <2> HIDE DEF x, new
  <2>6. CheckFacts(S, x)
    BY <1>4, <1>5, <2>3, <2>4, <2>5 DEF CheckFacts
  <2> HIDE DEF note
  <2>7. note \in {"none", "Resolved", "Summary"} /\ note # "Resolved" /\ (note = "Summary" <=> ~quiet)
    BY <2>2
  <2>8. QED
    BY <2>2, <2>3, <2>5, <2>6, <2>7 DEF new, note
<1>6. CASE cs.fired /\ g < recoveryThreshold
  <2> DEFINE x == [cs EXCEPT !.consecutiveFailures = 0, !.consecutiveHealthy = g]
  <2>1. Recovering(cs) = x
    BY DEF Recovering, g
  <2>2. /\ x \in CheckState /\ x.consecutiveFailures = 0 /\ x.consecutiveHealthy = g /\ x.fired = cs.fired
    BY <1>0 DEF CheckState
  <2>3. applyHealthy(c, cs) = [state |-> x, note |-> "none"]
    BY <1>6, <2>1, <2>2 DEF applyHealthy, Effect
  <2>4. new = x /\ note = "none"
    BY <2>3
  <2>5. OutstandingIn(S, Len(S)) /\ OutstandingIn(R, Len(R))
    <3>1. ~(recoveryThreshold <= g)
      BY <1>0, <1>6, Thresholds
    <3>2. QED
      BY <1>1, <1>2, <1>3, <1>6, <3>1
  <2> HIDE DEF x, new, note
  <2>6. CheckFacts(S, x)
    BY <1>3, <1>4, <1>6, <2>2, <2>5 DEF CheckFacts
  <2>7. QED
    BY <2>2, <2>4, <2>5, <2>6 DEF new, note
<1>7. CASE cs.fired /\ ~(g < recoveryThreshold)
  <2> DEFINE x == [cs EXCEPT !.consecutiveFailures = 0, !.consecutiveHealthy = 0, !.fired = FALSE]
             y == [cs EXCEPT !.consecutiveFailures = 0, !.consecutiveHealthy = g]
  <2>1. Recovering(cs) = y
    BY DEF Recovering, g
  <2>2. y.consecutiveHealthy = g
    BY <1>0 DEF CheckState
  <2>3. /\ x \in CheckState /\ x.consecutiveFailures = 0 /\ x.consecutiveHealthy = 0 /\ x.fired = FALSE
    BY <1>0 DEF CheckState
  <2>4. applyHealthy(c, cs) = [state |-> x, note |-> IF SeverityOf[c] = "Fatal" THEN "Resolved" ELSE "none"]
    BY <1>7, <2>1, <2>2 DEF applyHealthy, Effect
  <2>5. new = x /\ note = IF SeverityOf[c] = "Fatal" THEN "Resolved" ELSE "none"
    BY <2>4
  <2>6. ~OutstandingIn(S, Len(S)) /\ OutstandingIn(R, Len(R))
    <3>1. recoveryThreshold <= g
      BY <1>0, <1>7, Thresholds
    <3>2. QED
      BY <1>1, <1>2, <1>3, <1>7, <3>1
  <2> HIDE DEF x, new, note
  <2>7. CheckFacts(S, x)
    BY <1>4, <2>3, <2>6 DEF CheckFacts
  <2>8. QED
    BY <2>3, <2>5, <2>6, <2>7 DEF new, note
<1>8. QED
  BY <1>5, <1>6, <1>7

(***************************************************************************)
(* The failures at the end of the results and how the first of them came.  *)
(***************************************************************************)
StreakOutsideGrace(R, n) ==
  \E k \in 1..n : /\ RunIn(R, n, n + 1 - k, FALSE)
                  /\ k = 1 \/ R[k - 1].healthy
                  /\ ~R[k].grace

\* A streak outside the grace period is what the counters say it is.
LEMMA StreakIsCounted ==
  ASSUME NEW R \in Seq(Result), NEW cs \in CheckState, CheckFacts(R, cs)
  PROVE  StreakOutsideGrace(R, Len(R)) <=> cs.consecutiveFailures # 0 /\ ~cs.streakStartedInGrace
<1> DEFINE n == Len(R)
           F == cs.consecutiveFailures
           first == n - F + 1
<1>0. n \in Nat /\ F \in Nat /\ F <= n
  BY DEF CheckState, CheckFacts
<1>1. /\ RunIn(R, n, F, FALSE)
      /\ F < n => R[n - F].healthy = TRUE
      /\ F > 0 => cs.streakStartedInGrace = R[first].grace
  BY DEF CheckFacts
<1> HIDE DEF n, F
<1>2. ASSUME F # 0, ~cs.streakStartedInGrace PROVE StreakOutsideGrace(R, n)
  <2>1. first \in 1..n /\ n + 1 - first = F /\ (first = 1 \/ (F < n /\ first - 1 = n - F))
    BY <1>0, <1>2
  <2>2. ~R[first].grace
    BY <1>0, <1>1, <1>2
  <2> HIDE DEF first
  <2>3. QED
    BY <1>1, <2>1, <2>2 DEF StreakOutsideGrace
<1>3. ASSUME StreakOutsideGrace(R, n) PROVE F # 0 /\ ~cs.streakStartedInGrace
  <2>1. PICK k \in 1..n : /\ RunIn(R, n, n + 1 - k, FALSE)
                          /\ k = 1 \/ R[k - 1].healthy
                          /\ ~R[k].grace
    BY <1>3 DEF StreakOutsideGrace
  <2>2. ASSUME k < first PROVE FALSE
    <3>1. F < n /\ n - F \in (n - (n + 1 - k) + 1)..n
      BY <1>0, <2>2
    <3>2. R[n - F].healthy = FALSE
      BY <2>1, <3>1 DEF RunIn
    <3>3. QED
      BY <1>1, <3>1, <3>2
  <2>3. ASSUME k > first PROVE FALSE
    <3>1. k # 1 /\ k - 1 \in (n - F + 1)..n
      BY <1>0, <2>3
    <3>2. R[k - 1].healthy = FALSE
      BY <1>1, <3>1 DEF RunIn
    <3>3. QED
      BY <2>1, <3>1, <3>2
  <2>4. k = first
    BY <1>0, <2>2, <2>3
  <2>5. F > 0
    BY <1>0, <2>4
  <2>6. QED
    BY <1>0, <1>1, <2>1, <2>4, <2>5
<1>4. QED
  BY <1>2, <1>3 DEF n, F

(***************************************************************************)
(* The note on the m-th result is the one the properties ask for.          *)
(***************************************************************************)
NoteRight(c, R, note, m) ==
  /\ note = "Failure" <=> (OutstandingIn(R, m) /\ ~OutstandingIn(R, m - 1))
  /\ SeverityOf[c] = "Fatal" =>
       (note = "Resolved" <=> (~OutstandingIn(R, m) /\ OutstandingIn(R, m - 1)))
  /\ note = "Summary" <=> (R[m].healthy /\ ~OutstandingIn(R, m - 1) /\ StreakOutsideGrace(R, m - 1))

\* A new result does not make an earlier notification wrong.
LEMMA NoteStaysRight ==
  ASSUME NEW c \in Checks, NEW R \in Seq(Result), NEW S \in Seq(Result), Len(S) = Len(R) + 1,
         \A k \in 1..Len(R) : S[k] = R[k], NEW m \in 1..Len(R), NEW note, NoteRight(c, R, note, m)
  PROVE  NoteRight(c, S, note, m)
<1>0. Len(R) \in Nat /\ m \in 0..Len(R) /\ m - 1 \in 0..Len(R) /\ Len(R) <= Len(S) /\ FALSE \in BOOLEAN
  OBVIOUS
<1>1. OutstandingIn(S, m) <=> OutstandingIn(R, m)
  BY <1>0, PastIsKept
<1>2. OutstandingIn(S, m - 1) <=> OutstandingIn(R, m - 1)
  BY <1>0, PastIsKept
<1>3. StreakOutsideGrace(S, m - 1) <=> StreakOutsideGrace(R, m - 1)
  <2>1. ASSUME NEW k \in 1..(m - 1)
        PROVE  /\ RunIn(S, m - 1, (m - 1) + 1 - k, FALSE) <=> RunIn(R, m - 1, (m - 1) + 1 - k, FALSE)
               /\ S[k] = R[k] /\ (k # 1 => S[k - 1] = R[k - 1])
    <3>1. (m - 1) + 1 - k \in Nat /\ k \in 1..Len(R) /\ (k # 1 => k - 1 \in 1..Len(R))
      BY <1>0
    <3>2. \A t \in Nat, h \in BOOLEAN : RunIn(S, m - 1, t, h) <=> RunIn(R, m - 1, t, h)
      BY <1>0, PastIsKept
    <3>3. QED
      BY <1>0, <3>1, <3>2
  <2>2. QED
    BY <2>1 DEF StreakOutsideGrace
<1>4. S[m] = R[m]
  OBVIOUS
<1>5. QED
  BY <1>1, <1>2, <1>3, <1>4 DEF NoteRight

(***************************************************************************)
(* The counters of every check are true to its results, and so is every    *)
(* notification so far.                                                    *)
(***************************************************************************)
Checked(c, R, N, cs) ==
  /\ R \in Seq(Result) /\ N \in Seq(Notification) /\ cs \in CheckState
  /\ Len(N) = Len(R)
  /\ CheckFacts(R, cs)
  /\ \A m \in 1..Len(R) : NoteRight(c, R, N[m], m)
RunnerInv ==
  /\ inGrace \in BOOLEAN
  /\ \A c \in Checks : Checked(c, results[c], notified[c], state[c])

\* apply keeps the counters true and gives the result the right notification.
LEMMA ResultApplied ==
  ASSUME NEW c \in Checks, inGrace \in BOOLEAN,
         NEW R, NEW N, NEW cs, Checked(c, R, N, cs), NEW x \in Result, NEW new, NEW note,
         x.grace = inGrace,
         \/ x.healthy = TRUE /\ new = applyHealthy(c, cs).state /\ note = applyHealthy(c, cs).note
         \/ x.healthy = FALSE /\ new = applyUnhealthy(cs).state /\ note = applyUnhealthy(cs).note
  PROVE  Checked(c, Append(R, x), Append(N, note), new)
<1> DEFINE S == Append(R, x)
           M == Append(N, note)
           n == Len(R)
<1>1. /\ R \in Seq(Result) /\ N \in Seq(Notification) /\ cs \in CheckState /\ Len(N) = n /\ n \in Nat
      /\ CheckFacts(R, cs) /\ \A m \in 1..Len(R) : NoteRight(c, R, N[m], m)
  BY DEF Checked
<1>2. /\ S \in Seq(Result) /\ Len(S) = Len(R) + 1 /\ \A k \in 1..Len(R) : S[k] = R[k]
      /\ S[Len(S)] = x
  BY <1>1, AppendProperties
<1>3. StreakOutsideGrace(R, Len(R)) <=> cs.consecutiveFailures # 0 /\ ~cs.streakStartedInGrace
  BY <1>1, StreakIsCounted
<1> HIDE DEF S
<1>4. new \in CheckState /\ CheckFacts(S, new) /\ note \in Notification /\ NoteRight(c, S, note, n + 1)
  <2>1. n + 1 - 1 = n /\ Len(S) = n + 1 /\ n \in 0..Len(R) /\ Len(R) <= Len(S)
    BY <1>1, <1>2
  <2>2. /\ OutstandingIn(S, n) <=> OutstandingIn(R, n)
        /\ StreakOutsideGrace(S, n) <=> StreakOutsideGrace(R, n)
    <3>1. /\ \A t \in Nat, h \in BOOLEAN : RunIn(S, n, t, h) <=> RunIn(R, n, t, h)
          /\ OutstandingIn(S, n) <=> OutstandingIn(R, n)
      BY <1>1, <1>2, <2>1, PastIsKept
    <3>2. ASSUME NEW k \in 1..n
          PROVE  /\ RunIn(S, n, n + 1 - k, FALSE) <=> RunIn(R, n, n + 1 - k, FALSE)
                 /\ S[k] = R[k] /\ (k # 1 => S[k - 1] = R[k - 1])
      <4>1. n + 1 - k \in Nat /\ k \in 1..Len(R) /\ (k # 1 => k - 1 \in 1..Len(R)) /\ FALSE \in BOOLEAN
        BY <1>1
      <4>2. QED
        BY <1>2, <3>1, <4>1
    <3>3. StreakOutsideGrace(S, n) <=> StreakOutsideGrace(R, n)
      BY <3>2 DEF StreakOutsideGrace
    <3>4. QED
      BY <3>1, <3>3
  <2>3. CASE x.healthy = TRUE /\ new = applyHealthy(c, cs).state /\ note = applyHealthy(c, cs).note
    <3>1. S[Len(S)].healthy = TRUE
      BY <1>2, <2>3
    <3>2. /\ new \in CheckState /\ CheckFacts(S, new) /\ note \in {"none", "Resolved", "Summary"}
          /\ SeverityOf[c] = "Fatal" =>
               (note = "Resolved" <=> (~OutstandingIn(S, Len(S)) /\ OutstandingIn(R, Len(R))))
          /\ note = "Summary" <=>
               (~OutstandingIn(R, Len(R)) /\ cs.consecutiveFailures # 0 /\ ~cs.streakStartedInGrace)
          /\ OutstandingIn(S, Len(S)) => OutstandingIn(R, Len(R))
      BY <1>1, <1>2, <2>3, <3>1, HealthyApplied
    <3>3. note # "Failure" /\ note \in Notification
      BY <3>2 DEF Notification
    <3>4. NoteRight(c, S, note, n + 1)
      BY <1>3, <2>1, <2>2, <3>1, <3>2, <3>3 DEF NoteRight
    <3>5. QED
      BY <3>2, <3>3, <3>4
  <2>4. CASE x.healthy = FALSE /\ new = applyUnhealthy(cs).state /\ note = applyUnhealthy(cs).note
    <3>1. S[Len(S)].healthy = FALSE /\ S[Len(S)].grace = inGrace
      BY <1>2, <2>4
    <3>2. /\ new \in CheckState /\ CheckFacts(S, new) /\ note \in {"none", "Failure"}
          /\ note = "Failure" <=> (OutstandingIn(S, Len(S)) /\ ~OutstandingIn(R, Len(R)))
          /\ OutstandingIn(R, Len(R)) => OutstandingIn(S, Len(S))
      BY <1>1, <1>2, <2>4, <3>1, UnhealthyApplied
    <3>3. note # "Resolved" /\ note # "Summary" /\ note \in Notification
      BY <3>2 DEF Notification
    <3>4. NoteRight(c, S, note, n + 1)
      BY <2>1, <2>2, <3>1, <3>2, <3>3 DEF NoteRight
    <3>5. QED
      BY <3>2, <3>3, <3>4
  <2>5. QED
    BY <2>3, <2>4
<1>5. /\ M \in Seq(Notification) /\ Len(M) = n + 1 /\ M[n + 1] = note /\ \A m \in 1..n : M[m] = N[m]
  BY <1>1, <1>4, AppendProperties
<1> HIDE DEF M
<1>6. ASSUME NEW m \in 1..Len(S) PROVE NoteRight(c, S, M[m], m)
  <2>1. CASE m = n + 1
    BY <1>4, <1>5, <2>1
  <2>2. CASE m # n + 1
    <3>1. m \in 1..Len(R) /\ M[m] = N[m]
      BY <1>1, <1>2, <1>5, <2>2
    <3>2. NoteRight(c, R, M[m], m)
      BY <1>1, <3>1
    <3>3. QED
      BY <1>1, <1>2, <3>1, <3>2, NoteStaysRight
  <2>3. QED
    BY <2>1, <2>2
<1>7. Checked(c, S, M, new)
  BY <1>2, <1>4, <1>5, <1>6 DEF Checked
<1>8. QED
  BY <1>7 DEF S, M

\* A cycle of the runner and the end of the grace period keep this true.
LEMMA RunnerStep == RunnerInv /\ [RunnerNext]_runnerVars => RunnerInv'
<1> SUFFICES ASSUME RunnerInv, [RunnerNext]_runnerVars PROVE RunnerInv'
  OBVIOUS
<1>1. ASSUME NEW found \in [Checks -> Outcome], runOnce(found) PROVE RunnerInv'
  <2> DEFINE counted == {c \in Ran(found) : found[c] # "Unknown"}
  <2>1. /\ state' = [c \in Checks |-> IF c \in Ran(found) THEN apply(c, found[c]).state ELSE state[c]]
        /\ results' = [c \in Checks |->
             IF c \in counted
             THEN Append(results[c], [healthy |-> found[c] = "Healthy", grace |-> inGrace]) ELSE results[c]]
        /\ notified' = [c \in Checks |->
             IF c \in counted THEN Append(notified[c], apply(c, found[c]).note) ELSE notified[c]]
        /\ inGrace' = inGrace
    BY <1>1 DEF runOnce
  <2>2. ASSUME NEW c \in Checks PROVE Checked(c, results'[c], notified'[c], state'[c])
    <3>1. Checked(c, results[c], notified[c], state[c]) /\ inGrace \in BOOLEAN /\ found[c] \in Outcome
      BY DEF RunnerInv
    <3>2. CASE c \in counted
      <4> DEFINE x == [healthy |-> found[c] = "Healthy", grace |-> inGrace]
      <4>1. x \in Result /\ x.grace = inGrace
        BY <3>1 DEF Result
      <4>2. x.healthy = (found[c] = "Healthy")
        BY Zenon
      <4>3. c \in Ran(found) /\ found[c] \in {"Healthy", "Unhealthy"}
        BY <3>1, <3>2 DEF Outcome
      <4>4. /\ results'[c] = Append(results[c], x)
            /\ notified'[c] = Append(notified[c], apply(c, found[c]).note)
            /\ state'[c] = apply(c, found[c]).state
        BY <2>1, <3>2, <4>3
      <4>5. /\ found[c] = "Healthy" => apply(c, found[c]) = applyHealthy(c, state[c])
            /\ found[c] = "Unhealthy" => apply(c, found[c]) = applyUnhealthy(state[c])
        BY DEF apply
      <4>6. \/ /\ x.healthy = TRUE /\ apply(c, found[c]).state = applyHealthy(c, state[c]).state
               /\ apply(c, found[c]).note = applyHealthy(c, state[c]).note
            \/ /\ x.healthy = FALSE /\ apply(c, found[c]).state = applyUnhealthy(state[c]).state
               /\ apply(c, found[c]).note = applyUnhealthy(state[c]).note
        BY <4>2, <4>3, <4>5
      <4> HIDE DEF x
      <4>7. Checked(c, Append(results[c], x), Append(notified[c], apply(c, found[c]).note), apply(c, found[c]).state)
        BY <3>1, <4>1, <4>6, ResultApplied
      <4>8. QED
        BY <4>4, <4>7
    <3>3. CASE c \notin counted
      <4>1. c \in Ran(found) => found[c] = "Unknown"
        BY <3>3
      <4>2. found[c] = "Unknown" => apply(c, found[c]).state = state[c]
        BY DEF apply, Effect
      <4>3. results'[c] = results[c] /\ notified'[c] = notified[c] /\ state'[c] = state[c]
        BY <2>1, <3>3, <4>1, <4>2
      <4>4. QED
        BY <3>1, <4>3
    <3>4. QED
      BY <3>2, <3>3
  <2>3. QED
    BY <2>1, <2>2 DEF RunnerInv
<1>2. CASE GraceEnds
  BY <1>2 DEF GraceEnds, RunnerInv
<1>3. CASE UNCHANGED runnerVars
  BY <1>3 DEF runnerVars, RunnerInv
<1>4. QED
  BY <1>1, <1>2, <1>3 DEF RunnerNext

(***************************************************************************)
(* With these counters, the notifications are the edges of what is         *)
(* outstanding, and summaries end the streaks that were not reported.      *)
(***************************************************************************)
LEMMA NotesAreRight == RunnerInv => ReportsAreEdges /\ SummariesEndShortStreaks
<1> SUFFICES ASSUME RunnerInv, NEW c \in Checks, NEW n \in 1..Len(results[c])
             PROVE  /\ notified[c][n] = "Failure" <=> (Outstanding(c, n) /\ ~Outstanding(c, n - 1))
                    /\ SeverityOf[c] = "Fatal" =>
                         (notified[c][n] = "Resolved" <=> (~Outstanding(c, n) /\ Outstanding(c, n - 1)))
                    /\ notified[c][n] = "Summary" <=>
                         /\ results[c][n].healthy
                         /\ ~Outstanding(c, n - 1)
                         /\ \E k \in 1..(n - 1) : /\ Run(c, n - 1, n - k, FALSE)
                                                  /\ k = 1 \/ results[c][k - 1].healthy
                                                  /\ ~results[c][k].grace
  BY DEF ReportsAreEdges, SummariesEndShortStreaks
<1>1. NoteRight(c, results[c], notified[c][n], n) /\ Len(results[c]) \in Nat
  BY DEF RunnerInv, Checked
<1>2. \A i, m, h : Run(c, i, m, h) <=> RunIn(results[c], i, m, h)
  BY DEF Run, RunIn
<1>3. \A i : Outstanding(c, i) <=> OutstandingIn(results[c], i)
  BY <1>2, Zenon DEF Outstanding, OutstandingIn
<1>4. StreakOutsideGrace(results[c], n - 1) <=>
        \E k \in 1..(n - 1) : /\ Run(c, n - 1, n - k, FALSE)
                              /\ k = 1 \/ results[c][k - 1].healthy
                              /\ ~results[c][k].grace
  <2>1. \A k \in 1..(n - 1) : (n - 1) + 1 - k = n - k
    BY <1>1
  <2>2. QED
    BY <1>2, <2>1 DEF StreakOutsideGrace
<1>5. QED
  BY <1>1, <1>3, <1>4, Zenon DEF NoteRight

(***************************************************************************)
(* The counters start true.                                                *)
(***************************************************************************)
LEMMA RunnerStarts == RunnerInit => RunnerInv
<1> SUFFICES ASSUME RunnerInit, NEW c \in Checks PROVE Checked(c, results[c], notified[c], state[c])
  BY DEF RunnerInit, RunnerInv
<1> DEFINE cs == [consecutiveFailures |-> 0, consecutiveHealthy |-> 0, fired |-> FALSE,
                  streakStartedInGrace |-> FALSE]
<1>1. results[c] = <<>> /\ notified[c] = <<>> /\ state[c] = cs
  BY DEF RunnerInit
<1>2. /\ cs \in CheckState /\ cs.consecutiveFailures = 0 /\ cs.consecutiveHealthy = 0 /\ cs.fired = FALSE
  BY DEF CheckState
<1>3. <<>> \in Seq(Result) /\ <<>> \in Seq(Notification) /\ Len(<<>>) = 0
  OBVIOUS
<1>4. ~OutstandingIn(<<>>, 0) /\ RunIn(<<>>, 0, 0, FALSE)
  BY DEF OutstandingIn, RunIn
<1> DEFINE R == <<>>
<1>5. Len(R) = 0 /\ ~OutstandingIn(R, 0) /\ RunIn(R, 0, 0, FALSE)
  BY <1>3, <1>4
<1> HIDE DEF cs, R
<1>6. CheckFacts(R, cs)
  <2>1. ~cs.fired /\ 0 <= 0 /\ ~(0 < 0) /\ ~(0 > 0)
    BY <1>2
  <2>2. QED
    BY <1>2, <1>5, <2>1, Zenon DEF CheckFacts
<1>7. QED
  BY <1>1, <1>2, <1>3, <1>6 DEF Checked, R

(***************************************************************************)
(* For any thresholds, a probe's failure is reported once, when enough     *)
(* consecutive failures make it outstanding, and that of a fatal check is  *)
(* resolved once, when enough healthy results follow; results that could   *)
(* not be obtained change neither (applyUnhealthy, applyHealthy).          *)
(***************************************************************************)
THEOREM ProbeReportsAreEdges == Spec => []ReportsAreEdges
<1>1. Init => RunnerInv
  BY RunnerStarts DEF Init
<1>2. RunnerInv /\ [Next]_vars => RunnerInv'
  BY RunnerStep, StepOfACounterCheck
<1>3. QED
  BY <1>1, <1>2, NotesAreRight, PTL DEF Spec

(***************************************************************************)
(* Failures that end before they are reported leave exactly one summary,   *)
(* unless they began in the grace period (applyHealthy).                   *)
(***************************************************************************)
THEOREM ProbeSummariesEndStreaks == Spec => []SummariesEndShortStreaks
<1>1. Init => RunnerInv
  BY RunnerStarts DEF Init
<1>2. RunnerInv /\ [Next]_vars => RunnerInv'
  BY RunnerStep, StepOfACounterCheck
<1>3. QED
  BY <1>1, <1>2, NotesAreRight, PTL DEF Spec

-----------------------------------------------------------------------------
(* Rules of iptables *)

(***************************************************************************)
(* Induction up to N, on the set of the numbers a claim holds for: the     *)
(* least one that were not in it would have its predecessor in it.         *)
(***************************************************************************)
LEMMA Induction ==
  ASSUME NEW N \in Nat, NEW G, 0 \in G, \A n \in 1..N : n - 1 \in G => n \in G
  PROVE  0..N \subseteq G
<1> SUFFICES ASSUME NEW m \in 0..N, m \notin G PROVE FALSE
  OBVIOUS
<1> DEFINE T == {n \in 0..N : n \notin G}
<1>1. T \subseteq Nat /\ m \in T
  OBVIOUS
<1> HIDE DEF T
<1>2. PICK x \in T : \A y \in T : x <= y
  <2>1. T \in SUBSET Nat /\ T # {}
    BY <1>1
  <2>2. QED
    BY <2>1, MinOfNaturals
<1>3. x \in 0..N /\ x \notin G
  BY DEF T
<1>4. x \in 1..N /\ x - 1 \in 0..N
  BY <1>3
<1>5. x - 1 \notin T
  BY <1>2, <1>3
<1>6. QED
  BY <1>3, <1>4, <1>5 DEF T

\* A step function on S, and a function that takes its steps from base.
IsStep(F, S, N) == F \in [S \X (1..N) -> S]
IsRun(g, F, base, S, N) ==
    g \in [0..N -> S] /\ g[0] = base /\ \A n \in 1..N : g[n] = F[<<g[n - 1], n>>]

(***************************************************************************)
(* Steps from a base value are defined by a function on them: the one up   *)
(* to k - 1 extends to k.                                                  *)
(***************************************************************************)
LEMMA RecursionExists ==
  ASSUME NEW N \in Nat, NEW S, NEW base \in S, NEW F, IsStep(F, S, N)
  PROVE  \E g : IsRun(g, F, base, S, N)
<1>0. F \in [S \X (1..N) -> S]
  BY DEF IsStep
<1> DEFINE Fits(g, k) == g \in [0..k -> S] /\ g[0] = base /\ \A n \in 1..k : g[n] = F[<<g[n - 1], n>>]
           G == {k \in 0..N : \E g : Fits(g, k)}
<1>1. 0 \in G
  <2> DEFINE g == [i \in 0..0 |-> base]
  <2>1. Fits(g, 0)
    OBVIOUS
  <2> HIDE DEF Fits, g
  <2>2. QED
    BY <2>1
<1>2. ASSUME NEW k \in 1..N, k - 1 \in G
      PROVE  k \in G
  <2>1. PICK g : Fits(g, k - 1)
    BY <1>2
  <2> DEFINE h == [i \in 0..k |-> IF i = k THEN F[<<g[k - 1], k>>] ELSE g[i]]
  <2>2. g[k - 1] \in S
    BY <2>1
  <2>3. F[<<g[k - 1], k>>] \in S
    <3>1. <<g[k - 1], k>> \in S \X (1..N)
      BY <2>2
    <3>2. QED
      BY <1>0, <3>1
  <2>4. h \in [0..k -> S] /\ h[0] = base /\ h[k] = F[<<g[k - 1], k>>]
    BY <2>1, <2>3
  <2>5. \A i \in 0..(k - 1) : h[i] = g[i]
    OBVIOUS
  <2> HIDE DEF h
  <2>6. ASSUME NEW n \in 1..k PROVE h[n] = F[<<h[n - 1], n>>]
    <3>1. CASE n = k
      <4>1. h[n - 1] = g[k - 1]
        BY <2>5, <3>1
      <4>2. QED
        BY <2>4, <3>1, <4>1
    <3>2. CASE n # k
      <4>1. n \in 1..(k - 1) /\ n \in 0..(k - 1) /\ n - 1 \in 0..(k - 1)
        BY <3>2
      <4>2. g[n] = F[<<g[n - 1], n>>]
        BY <2>1, <4>1
      <4>3. QED
        BY <2>5, <4>1, <4>2
    <3>3. QED
      BY <3>1, <3>2
  <2>7. Fits(h, k)
    BY <2>4, <2>6
  <2>8. QED
    BY <2>7
<1> HIDE DEF G
<1>3. 0..N \subseteq G
  BY <1>1, <1>2, Induction
<1>4. PICK g : Fits(g, N)
  BY <1>3 DEF G
<1>5. IsRun(g, F, base, S, N)
  BY <1>4, Zenon DEF IsRun
<1>6. QED
  BY <1>5

\* A word of a rule. The provers do not know that a literal is a string.
Word ==
    STRING \cup {"", "!", "-A", "-g", "-j", "-m", "-s", "-d", "-p", "-i", "-o", "--sport", "--dport",
                 "KUBE-FORWARD", "KUBE-SERVICES", "CUSTOM"}
\* The states of the parser.
ParserState == [i : Nat, invert : BOOLEAN, rule : Seq(BOOLEAN \X Word \X Word)]

(***************************************************************************)
(* A segment takes a state of the parser to a state of the parser.         *)
(***************************************************************************)
LEMMA ParsedTyped ==
  ASSUME NEW segs \in Seq(Word), NEW s \in ParserState, NEW j \in 1..Len(segs)
  PROVE  ParseSegment(segs, s, j) \in ParserState
<1> DEFINE e == <<s.invert, NameOf(segs[j]), Seg(segs, j + 1)>>
           v == NextInvert(segs[j], s.invert)
           a == Arity(segs[j])
<1>1. s.i \in Nat /\ s.rule \in Seq(BOOLEAN \X Word \X Word) /\ segs[j] \in Word
  BY DEF ParserState
<1>2. s.invert \in BOOLEAN
  BY Zenon DEF ParserState
<1>3. NameOf(segs[j]) \in Word /\ Seg(segs, j + 1) \in Word
  <2>1. \A w \in Word : NameOf(w) \in Word
    BY Zenon DEF NameOf, Word
  <2>2. CASE j + 1 \in DOMAIN segs
    <3>1. Seg(segs, j + 1) = segs[j + 1] /\ segs[j + 1] \in Word
      BY <2>2, ElementOfSeq, LenProperties DEF Seg
    <3>2. QED
      BY <1>1, <2>1, <3>1
  <2>3. CASE ~(j + 1 \in DOMAIN segs)
    BY <1>1, <2>1, <2>3, Zenon DEF Seg, Word
  <2>4. QED
    BY <2>2, <2>3
<1>4. e \in BOOLEAN \X Word \X Word
  BY <1>2, <1>3, Zenon
<1>5. v \in BOOLEAN
  BY Zenon DEF NextInvert
<1>6. a \in Nat /\ j + 1 + a \in Nat
  BY DEF Arity
<1> DEFINE x == IF Stored(segs[j]) THEN Append(s.rule, e) ELSE s.rule
           k == j + 1 + a
<1>7. x \in Seq(BOOLEAN \X Word \X Word)
  <2> DEFINE E == BOOLEAN \X Word \X Word
             q == s.rule
  <2>1. e \in E /\ q \in Seq(E)
    BY <1>1, <1>4, Zenon
  <2> HIDE DEF e, E, q
  <2>2. Append(q, e) \in Seq(E)
    BY <2>1, AppendProperties
  <2>3. QED
    BY <2>1, <2>2, Zenon DEF E, q
<1>8. ParseSegment(segs, s, j) = IF j # s.i THEN s ELSE [i |-> k, invert |-> v, rule |-> x]
  BY Zenon DEF ParseSegment
<1>9. k \in Nat
  BY <1>6
<1> HIDE DEF x, k, v
<1>10. [i |-> k, invert |-> v, rule |-> x] \in ParserState
  BY <1>5, <1>7, <1>9, Zenon DEF ParserState
<1>11. QED
  BY <1>8, <1>10, Zenon

\* The state the parser starts in.
Start == [i |-> 1, invert |-> FALSE, rule |-> <<>>]

(***************************************************************************)
(* The states of the parser satisfy the recursion that defines them: a     *)
(* function that does exists (RecursionExists), so the definition is one.  *)
(***************************************************************************)
LEMMA ParseEquation ==
  ASSUME NEW segs \in Seq(Word)
  PROVE  /\ Parse(segs) \in [0..Len(segs) -> ParserState]
         /\ Parse(segs)[0] = Start
         /\ \A j \in 1..Len(segs) : Parse(segs)[j] = ParseSegment(segs, Parse(segs)[j - 1], j)
<1> DEFINE N == Len(segs)
           Def(f) == [j \in 0..N |-> IF j = 0 THEN Start ELSE ParseSegment(segs, f[j - 1], j)]
           F == [p \in ParserState \X (1..N) |-> ParseSegment(segs, p[1], p[2])]
<1>1. N \in Nat
  BY LenProperties
<1>2. Start \in ParserState
  <2>1. <<>> \in Seq(BOOLEAN \X Word \X Word) /\ 1 \in Nat /\ FALSE \in BOOLEAN
    BY EmptySeq
  <2>2. QED
    BY <2>1, Zenon DEF Start, ParserState
<1>3. F \in [ParserState \X (1..N) -> ParserState]
  <2>1. \A p \in ParserState \X (1..N) : ParseSegment(segs, p[1], p[2]) \in ParserState
    <3> TAKE p \in ParserState \X (1..N)
    <3>1. p[1] \in ParserState /\ p[2] \in 1..N
      OBVIOUS
    <3>2. QED
      BY <3>1, ParsedTyped, Zenon
  <2>2. QED
    BY <2>1, Zenon
<1>4. \A s \in ParserState : \A j \in 1..N : F[<<s, j>>] = ParseSegment(segs, s, j)
  <2> TAKE s \in ParserState
  <2> TAKE j \in 1..N
  <2>1. <<s, j>> \in ParserState \X (1..N) /\ <<s, j>>[1] = s /\ <<s, j>>[2] = j
    OBVIOUS
  <2>2. QED
    BY <2>1, Zenon
<1> HIDE DEF F
<1>5. PICK g \in [0..N -> ParserState] : g[0] = Start /\ \A n \in 1..N : g[n] = F[<<g[n - 1], n>>]
  <2>1. IsStep(F, ParserState, N)
    BY <1>3, Zenon DEF IsStep
  <2>2. PICK g : IsRun(g, F, Start, ParserState, N)
    BY <1>1, <1>2, <2>1, RecursionExists, Zenon
  <2>3. QED
    BY <2>2, Zenon DEF IsRun
<1>6. g = Def(g)
  <2>1. \A n \in 0..N : g[n] = IF n = 0 THEN Start ELSE ParseSegment(segs, g[n - 1], n)
    <3> TAKE n \in 0..N
    <3>1. CASE n = 0
      BY <1>5, <3>1
    <3>2. CASE n # 0
      <4>1. n \in 1..N /\ n - 1 \in 0..N
        BY <1>1, <3>2
      <4>2. g[n - 1] \in ParserState
        BY <4>1
      <4>3. QED
        BY <1>4, <1>5, <3>2, <4>1, <4>2, Zenon
    <3>3. QED
      BY <3>1, <3>2
  <2>2. g = [n \in 0..N |-> g[n]]
    OBVIOUS
  <2>3. QED
    BY <2>1, <2>2, Zenon
<1>7. Parse(segs) = CHOOSE f : f = Def(f)
  BY Zenon DEF Parse, Start
<1>8. Parse(segs) = Def(Parse(segs))
  BY <1>6, <1>7, Zenon
<1> DEFINE h == Parse(segs)
<1> HIDE DEF h
<1>9. h = [j \in 0..N |-> IF j = 0 THEN Start ELSE ParseSegment(segs, h[j - 1], j)]
  BY <1>8 DEF h
<1>10. h[0] = Start
  <2>1. 0 \in 0..N
    BY <1>1
  <2>2. QED
    BY <1>9, <2>1, Zenon
<1>11. ASSUME NEW j \in 1..N PROVE h[j] = ParseSegment(segs, h[j - 1], j)
  <2>1. j \in 0..N /\ j # 0
    BY <1>1
  <2>2. QED
    BY <1>9, <2>1, Zenon
<1>12. h \in [0..N -> ParserState]
  <2> DEFINE G == {n \in 0..N : h[n] \in ParserState}
  <2>1. 0 \in G
    BY <1>1, <1>2, <1>10
  <2>2. ASSUME NEW n \in 1..N, n - 1 \in G PROVE n \in G
    <3>1. h[n - 1] \in ParserState
      BY <2>2
    <3>2. h[n] \in ParserState
      BY <1>11, <3>1, ParsedTyped, Zenon
    <3>3. n \in 0..N
      BY <1>1
    <3>4. QED
      BY <3>2, <3>3
  <2> HIDE DEF G
  <2>3. 0..N \subseteq G
    BY <1>1, <2>1, <2>2, Induction
  <2>4. \A n \in 0..N : h[n] \in ParserState
    BY <2>3 DEF G
  <2>5. DOMAIN h = 0..N /\ h = [n \in 0..N |-> h[n]]
    BY <1>9, Zenon
  <2>6. QED
    BY <2>4, <2>5, Zenon
<1>13. QED
  BY <1>10, <1>11, <1>12 DEF h

\* The rules it makes.
ParserRule == Seq(BOOLEAN \X Word \X Word)

(***************************************************************************)
(* What is kept has a value, and a negation has none.                      *)
(***************************************************************************)
LEMMA ArityTyped ==
  ASSUME NEW w
  PROVE  /\ Arity(w) \in Nat
         /\ Arity(w) = 0 => ~Stored(w)
         /\ Stored(w) => Arity(w) >= 1
         /\ Arity("!") = 0
<1>1. Arity(w) \in Nat
  BY DEF Arity
<1>2. Arity(w) = 0 => ~Stored(w)
  BY DEF Arity
<1>3. Stored(w) => Arity(w) >= 1
  BY DEF Arity
<1>4. Arity("!") = 0
  BY DEF Arity, Stored
<1>5. QED
  BY <1>1, <1>2, <1>3, <1>4

(***************************************************************************)
(* What the parser does with the segment it is at.                         *)
(***************************************************************************)
LEMMA ParseReads ==
  ASSUME NEW segs, NEW j, NEW invert, NEW rule, NEW w, segs[j] = w
  PROVE  ParseSegment(segs, [i |-> j, invert |-> invert, rule |-> rule], j) =
            [i |-> j + 1 + Arity(w), invert |-> w = "!",
             rule |-> IF Stored(w) THEN Append(rule, <<invert, NameOf(w), Seg(segs, j + 1)>>) ELSE rule]
<1> DEFINE s == [i |-> j, invert |-> invert, rule |-> rule]
<1>1. s.i = j /\ s.rule = rule
  BY Zenon
<1>2. s.invert = invert
  BY Zenon
<1> HIDE DEF s
<1>3. ParseSegment(segs, s, j) =
            [i |-> j + 1 + Arity(w), invert |-> w = "!",
             rule |-> IF Stored(w) THEN Append(rule, <<invert, NameOf(w), Seg(segs, j + 1)>>) ELSE rule]
  BY <1>1, <1>2, Zenon DEF ParseSegment, NextInvert
<1>4. QED
  BY <1>3, Zenon DEF s

\* The segments up to j are whole options and make up this rule.
ParsedUpTo(segs, j, rule) == Parse(segs)[j] = [i |-> j + 1, invert |-> FALSE, rule |-> rule]

\* The parser is about to read option w with its n values at position p.
ReadsAt(segs, p, n, w, invert, rule) ==
    /\ segs \in Seq(Word) /\ p \in 1..Len(segs) /\ n \in Nat /\ p + n <= Len(segs)
    /\ segs[p] = w /\ w # "!" /\ Arity(w) <= n
    /\ \A k \in 1..n : k > Arity(w) => segs[p + k] # "!" /\ Arity(segs[p + k]) = 0
    /\ Parse(segs)[p - 1] = [i |-> p, invert |-> invert, rule |-> rule]

(***************************************************************************)
(* An option is read together with its values, and clears the negation:    *)
(* those it takes are skipped, those it does not take change nothing.      *)
(***************************************************************************)
LEMMA ParseValues ==
  ASSUME NEW segs, NEW p, NEW n, NEW w, NEW invert, NEW rule, ReadsAt(segs, p, n, w, invert, rule)
  PROVE  ParsedUpTo(segs, p + n, IF Stored(w) THEN Append(rule, <<invert, NameOf(w), Seg(segs, p + 1)>>) ELSE rule)
<1>1. /\ segs \in Seq(Word) /\ p \in 1..Len(segs) /\ n \in Nat /\ p + n <= Len(segs)
      /\ segs[p] = w /\ w # "!" /\ Arity(w) <= n
      /\ \A k \in 1..n : k > Arity(w) => segs[p + k] # "!" /\ Arity(segs[p + k]) = 0
  BY DEF ReadsAt
<1>2. Parse(segs)[p - 1] = [i |-> p, invert |-> invert, rule |-> rule]
  BY Zenon DEF ReadsAt
<1> USE <1>1
<1>3. PICK f : f = FALSE
  OBVIOUS
<1> DEFINE h == Parse(segs)
           a == Arity(w)
           R == IF Stored(w) THEN Append(rule, <<invert, NameOf(w), Seg(segs, p + 1)>>) ELSE rule
           At(m) == IF m > a THEN p + m + 1 ELSE p + 1 + a
           G == {m \in 0..n : h[p + m] = [i |-> At(m), invert |-> f, rule |-> R]}
<1>4. a \in Nat /\ Len(segs) \in Nat /\ p \in Nat
  BY ArityTyped, LenProperties
<1>5. \A j \in 1..Len(segs) : h[j] = ParseSegment(segs, h[j - 1], j)
  BY ParseEquation, Zenon
<1>6. 0 \in G
  <2>1. h[p] = ParseSegment(segs, [i |-> p, invert |-> invert, rule |-> rule], p)
    BY <1>5, <1>2, Zenon
  <2>2. (w = "!") = f
    BY <1>3, Zenon
  <2>3. h[p] = [i |-> p + 1 + a, invert |-> w = "!", rule |-> R]
    <3>1. ParseSegment(segs, [i |-> p, invert |-> invert, rule |-> rule], p) =
            [i |-> p + 1 + Arity(w), invert |-> w = "!",
             rule |-> IF Stored(w) THEN Append(rule, <<invert, NameOf(w), Seg(segs, p + 1)>>) ELSE rule]
      BY ONLY segs[p] = w, ParseReads
    <3>2. QED
      BY <2>1, <3>1, Zenon
  <2>4. h[p] = [i |-> p + 1 + a, invert |-> f, rule |-> R]
    BY <2>2, <2>3, Zenon
  <2>5. At(0) = p + 1 + a /\ p + 0 = p /\ 0 \in 0..n
    BY <1>4
  <2>6. QED
    BY <2>4, <2>5, Zenon
<1>7. ASSUME NEW m \in 1..n, m - 1 \in G
      PROVE  m \in G
  <2> DEFINE j == p + m
             x == At(m - 1)
             y == At(m)
  <2>1. j \in 1..Len(segs) /\ m \in 0..n /\ j - 1 = p + (m - 1)
    BY <1>4
  <2>2. h[p + (m - 1)] = [i |-> x, invert |-> f, rule |-> R]
    BY <1>7, Zenon
  <2>3. h[j] = ParseSegment(segs, [i |-> x, invert |-> f, rule |-> R], j)
    <3>1. h[j] = ParseSegment(segs, h[j - 1], j)
      BY <1>5, <2>1, Zenon
    <3>2. QED
      BY <2>1, <2>2, <3>1, Zenon
  <2>4. CASE m > a
    <3>1. x = j /\ y = j + 1 + 0
      BY <1>4, <2>4
    <3>2. segs[j] # "!" /\ Arity(segs[j]) = 0
      BY <2>4
    <3> DEFINE z == segs[j]
    <3>3. (z = "!") = f /\ ~Stored(z)
      BY <1>3, <3>2, ArityTyped, Zenon
    <3>4. h[j] = ParseSegment(segs, [i |-> j, invert |-> f, rule |-> R], j)
      BY <2>3, <3>1, Zenon
    <3> HIDE DEF R, h
    <3>5. h[j] = [i |-> j + 1 + Arity(z), invert |-> z = "!",
                  rule |-> IF Stored(z) THEN Append(R, <<f, NameOf(z), Seg(segs, j + 1)>>) ELSE R]
      <4>1. segs[j] = z
        OBVIOUS
      <4> HIDE DEF z, j
      <4>2. ParseSegment(segs, [i |-> j, invert |-> f, rule |-> R], j) =
                 [i |-> j + 1 + Arity(z), invert |-> z = "!",
                  rule |-> IF Stored(z) THEN Append(R, <<f, NameOf(z), Seg(segs, j + 1)>>) ELSE R]
        BY ONLY <4>1, ParseReads
      <4>3. QED
        BY <3>4, <4>2, Zenon
    <3> HIDE DEF z
    <3>6. h[j] = [i |-> j + 1 + Arity(z), invert |-> f, rule |-> R]
      BY <3>3, <3>5, Zenon
    <3>7. h[j] = [i |-> y, invert |-> f, rule |-> R]
      BY <3>1, <3>2, <3>6, Zenon DEF z
    <3>8. QED
      BY <2>1, <3>7, Zenon
  <2>5. CASE ~(m > a)
    <3>0. x # j
      BY <1>4, <2>5
    <3>1. y = x
      BY <1>4, <2>5
    <3> HIDE DEF x, R, h, j
    <3>2. ParseSegment(segs, [i |-> x, invert |-> f, rule |-> R], j) = [i |-> x, invert |-> f, rule |-> R]
      <4> DEFINE s == [i |-> x, invert |-> f, rule |-> R]
      <4>1. s.i = x
        BY Zenon
      <4> HIDE DEF s
      <4>2. ParseSegment(segs, s, j) = s
        BY <3>0, <4>1, Zenon DEF ParseSegment
      <4>3. QED
        BY <4>2, Zenon DEF s
    <3>3. QED
      BY <2>1, <2>3, <3>1, <3>2, Zenon DEF j
  <2>6. QED
    BY <2>4, <2>5
<1> HIDE DEF G
<1>8. 0..n \subseteq G
  BY <1>6, <1>7, Induction
<1>9. n \in G
  BY <1>8
<1>10. h[p + n] = [i |-> At(n), invert |-> f, rule |-> R]
  BY <1>9, Zenon DEF G
<1>11. At(n) = p + n + 1
  BY <1>4
<1>12. QED
  BY <1>3, <1>10, <1>11, Zenon DEF ParsedUpTo

\* The options whose words the parser tells apart.
Option ==
    {o \in BOOLEAN \X (Word \ {"!"}) \X Seq(Word) :
        /\ Len(o[3]) >= Arity(o[2])
        /\ \A k \in 1..Len(o[3]) : k > Arity(o[2]) => o[3][k] # "!" /\ Arity(o[3][k]) = 0}

(***************************************************************************)
(* The words of an option: its negation if it has one, its name, its       *)
(* values.                                                                 *)
(***************************************************************************)
LEMMA WordsOf ==
  ASSUME NEW o \in Option
  PROVE  /\ Words(o) \in Seq(Word)
         /\ o[3] \in Seq(Word) /\ o[1] \in BOOLEAN /\ o[2] \in Word /\ o[2] # "!"
         /\ \E d \in {0, 1} :
               /\ Len(Words(o)) = d + 1 + Len(o[3])
               /\ Words(o)[d + 1] = o[2]
               /\ \A k \in 1..Len(o[3]) : Words(o)[d + 1 + k] = o[3][k]
               /\ o[1] => d = 1 /\ Words(o)[1] = "!"
               /\ ~o[1] => d = 0
<1>1. o \in BOOLEAN \X (Word \ {"!"}) \X Seq(Word)
  BY Zenon DEF Option
<1>2. o[3] \in Seq(Word) /\ o[2] \in Word /\ o[2] # "!"
  BY <1>1
<1>3. o[1] \in BOOLEAN
  BY <1>1, Zenon
<1> DEFINE v == o[3]
           w == o[2]
           x == Words(o)
<1>4. "!" \in Word
  BY Zenon DEF Word
<1>5. CASE o[1]
  <2>1. x = <<"!">> \o <<w>> \o v
    BY <1>5, Zenon DEF Words
  <2> HIDE DEF v, w, x
  <2>2. v \in Seq(Word) /\ w \in Word
    BY <1>2 DEF v, w
  <2>3. /\ x \in Seq(Word) /\ Len(x) = 1 + 1 + Len(v) /\ x[1 + 1] = w /\ x[1] = "!"
        /\ \A k \in 1..Len(v) : x[1 + 1 + k] = v[k]
    BY <1>4, <2>1, <2>2
  <2>4. QED
    BY <1>2, <1>3, <1>5, <2>3 DEF v, w, x
<1>6. CASE ~o[1]
  <2>1. x = <<>> \o <<w>> \o v
    BY <1>6, Zenon DEF Words
  <2> HIDE DEF v, w, x
  <2>2. v \in Seq(Word) /\ w \in Word
    BY <1>2 DEF v, w
  <2>3. /\ x \in Seq(Word) /\ Len(x) = 0 + 1 + Len(v) /\ x[0 + 1] = w
        /\ \A k \in 1..Len(v) : x[0 + 1 + k] = v[k]
    BY <1>4, <2>1, <2>2
  <2>4. QED
    BY <1>2, <1>3, <1>6, <2>3 DEF v, w, x
<1>7. QED
  BY <1>3, <1>5, <1>6

(***************************************************************************)
(* The segments of the first options satisfy the recursion that defines    *)
(* them.                                                                   *)
(***************************************************************************)
LEMMA SegmentsEquation ==
  ASSUME NEW options \in Seq(Option)
  PROVE  /\ SegmentsUpTo(options) \in [0..Len(options) -> Seq(Word)]
         /\ SegmentsUpTo(options)[0] = <<>>
         /\ \A n \in 1..Len(options) : SegmentsUpTo(options)[n] = SegmentsUpTo(options)[n - 1] \o Words(options[n])
<1> DEFINE N == Len(options)
           S == Seq(Word)
           Def(f) == [n \in 0..N |-> IF n = 0 THEN <<>> ELSE f[n - 1] \o Words(options[n])]
           F == [p \in S \X (1..N) |-> p[1] \o Words(options[p[2]])]
<1>1. N \in Nat
  BY LenProperties
<1>2. <<>> \in S
  BY EmptySeq
<1>3. \A s \in S : \A n \in 1..N : s \o Words(options[n]) \in S
  <2> TAKE s \in S
  <2> TAKE n \in 1..N
  <2>1. options[n] \in Option
    BY ElementOfSeq, <1>1
  <2>2. Words(options[n]) \in Seq(Word)
    BY <2>1, WordsOf, Zenon
  <2>3. QED
    BY <2>2, ConcatProperties
<1>4. F \in [S \X (1..N) -> S]
  <2>1. \A p \in S \X (1..N) : p[1] \o Words(options[p[2]]) \in S
    <3> TAKE p \in S \X (1..N)
    <3> HIDE DEF S, N
    <3>1. p[1] \in S /\ p[2] \in 1..N
      OBVIOUS
    <3>2. QED
      BY <1>3, <3>1, Zenon
  <2> HIDE DEF S, N
  <2>2. QED
    BY <2>1, Zenon
<1>5. \A s \in S : \A j \in 1..N : F[<<s, j>>] = s \o Words(options[j])
  <2> HIDE DEF S, N
  <2> TAKE s \in S
  <2> TAKE j \in 1..N
  <2>1. <<s, j>> \in S \X (1..N) /\ <<s, j>>[1] = s /\ <<s, j>>[2] = j
    BY Zenon
  <2>2. QED
    BY <2>1, Zenon
<1> HIDE DEF F
<1>6. PICK g \in [0..N -> S] : g[0] = <<>> /\ \A n \in 1..N : g[n] = F[<<g[n - 1], n>>]
  <2> HIDE DEF S, N
  <2>1. IsStep(F, S, N)
    BY <1>4, Zenon DEF IsStep
  <2>2. PICK g : IsRun(g, F, <<>>, S, N)
    BY <1>1, <1>2, <2>1, RecursionExists, Zenon
  <2>3. QED
    BY <2>2, Zenon DEF IsRun
<1>7. g = Def(g)
  <2> HIDE DEF S
  <2>1. \A n \in 0..N : g[n] = IF n = 0 THEN <<>> ELSE g[n - 1] \o Words(options[n])
    <3> TAKE n \in 0..N
    <3>1. CASE n = 0
      BY <1>6, <3>1
    <3>2. CASE n # 0
      <4>1. n \in 1..N /\ n - 1 \in 0..N
        BY <1>1, <3>2
      <4>2. g[n - 1] \in S
        BY <4>1
      <4>3. QED
        BY <1>5, <1>6, <3>2, <4>1, <4>2, Zenon
    <3>3. QED
      BY <3>1, <3>2
  <2>2. g = [n \in 0..N |-> g[n]]
    OBVIOUS
  <2>3. QED
    BY <2>1, <2>2, Zenon
<1>8. SegmentsUpTo(options) = CHOOSE f : f = Def(f)
  BY Zenon DEF SegmentsUpTo
<1> DEFINE h == SegmentsUpTo(options)
<1>9. h = Def(h)
  BY <1>7, <1>8, Zenon
<1> HIDE DEF h, S
<1>10. h[0] = <<>>
  <2>1. 0 \in 0..N
    BY <1>1
  <2>2. QED
    BY <1>9, <2>1, Zenon
<1>11. \A n \in 1..N : h[n] = h[n - 1] \o Words(options[n])
  <2> TAKE n \in 1..N
  <2>1. n \in 0..N /\ n # 0
    BY <1>1
  <2>2. QED
    BY <1>9, <2>1, Zenon
<1>12. h \in [0..N -> S]
  <2> DEFINE G == {n \in 0..N : h[n] \in S}
  <2>1. 0 \in G
    BY <1>1, <1>2, <1>10
  <2>2. ASSUME NEW n \in 1..N, n - 1 \in G PROVE n \in G
    <3>1. h[n - 1] \in S
      BY <2>2
    <3>2. h[n] \in S
      BY <1>3, <1>11, <3>1, Zenon
    <3>3. n \in 0..N
      BY <1>1
    <3>4. QED
      BY <3>2, <3>3
  <2> HIDE DEF G
  <2>3. 0..N \subseteq G
    BY <1>1, <2>1, <2>2, Induction
  <2>4. \A n \in 0..N : h[n] \in S
    BY <2>3 DEF G
  <2>5. DOMAIN h = 0..N /\ h = [n \in 0..N |-> h[n]]
    BY <1>9, Zenon
  <2>6. QED
    BY <2>4, <2>5, Zenon
<1>13. QED
  BY <1>10, <1>11, <1>12, Zenon DEF h, S

(***************************************************************************)
(* The words of an option follow, in the segments of the rule, those of    *)
(* the options before it.                                                  *)
(***************************************************************************)
LEMMA SegmentsExtend ==
  ASSUME NEW options \in Seq(Option), NEW n \in 1..Len(options)
  PROVE  LET b == Len(SegmentsUpTo(options)[n - 1])
             w == Words(options[n])
         IN  /\ b \in Nat
             /\ Len(SegmentsUpTo(options)[n]) = b + Len(w)
             /\ b + Len(w) <= Len(Segments(options))
             /\ \A k \in 1..Len(w) : Segments(options)[b + k] = w[k]
<1> DEFINE U == SegmentsUpTo(options)
           N == Len(options)
           Begins(x, y) == \A k \in 1..Len(x) : k <= Len(y) /\ y[k] = x[k]
           G == {m \in 0..N : \A l \in 0..m : Begins(U[l], U[m])}
<1>1. N \in Nat
  BY LenProperties
<1>2. /\ \A m \in 0..N : U[m] \in Seq(Word)
      /\ \A m \in 1..N : U[m] = U[m - 1] \o Words(options[m])
  BY SegmentsEquation
<1>3. \A m \in 1..N : Words(options[m]) \in Seq(Word)
  <2> TAKE m \in 1..N
  <2>1. options[m] \in Option
    BY <1>1, ElementOfSeq
  <2>2. QED
    BY <2>1, WordsOf, Zenon
<1> HIDE DEF U
<1>4. 0 \in G
  <2>1. U[0] \in Seq(Word) /\ 0 \in 0..N /\ \A l \in 0..0 : l = 0
    BY <1>1, <1>2
  <2>2. Begins(U[0], U[0])
    BY <2>1
  <2>3. QED
    BY <2>1, <2>2
<1>5. ASSUME NEW m \in 1..N, m - 1 \in G
      PROVE  m \in G
  <2>1. m \in 0..N /\ m - 1 \in 0..N
    BY <1>1
  <2> DEFINE x == U[m - 1]
             y == Words(options[m])
             z == U[m]
  <2>2. x \in Seq(Word) /\ y \in Seq(Word) /\ z = x \o y
    BY <1>2, <1>3, <2>1
  <2>3. ASSUME NEW l \in 0..m PROVE Begins(U[l], U[m])
    <3>1. CASE l = m
      <4> HIDE DEF x, y, z
      <4>0. z \in Seq(Word) /\ Len(z) \in Nat
        BY <2>2, ConcatProperties, LenProperties
      <4>1. Begins(z, z)
        BY <4>0
      <4>2. QED
        BY <3>1, <4>1 DEF z
    <3>2. CASE l # m
      <4>1. l \in 0..(m - 1) /\ l \in 0..N
        BY <2>1, <3>2
      <4>2. Begins(U[l], x)
        BY <1>5, <4>1
      <4>3. U[l] \in Seq(Word)
        BY <1>2, <4>1
      <4> DEFINE u == U[l]
      <4> HIDE DEF x, y, z, u
      <4>4. Begins(u, z)
        BY <2>2, <4>2, <4>3 DEF u
      <4>5. QED
        BY <4>4 DEF u, z
    <3>3. QED
      BY <3>1, <3>2
  <2>4. QED
    BY <2>1, <2>3
<1> HIDE DEF G
<1>6. 0..N \subseteq G
  BY <1>1, <1>4, <1>5, Induction
<1>7. Begins(U[n], U[N])
  <2>1. N \in G /\ n \in 0..N
    BY <1>1, <1>6
  <2>2. QED
    BY <2>1 DEF G
<1>8. Segments(options) = U[N]
  BY DEF Segments, U
<1> DEFINE x == U[n - 1]
           y == Words(options[n])
           z == U[n]
           s == U[N]
<1>9. x \in Seq(Word) /\ y \in Seq(Word) /\ s \in Seq(Word) /\ z = x \o y
  <2>1. n - 1 \in 0..N /\ N \in 0..N /\ n \in 1..N
    BY <1>1
  <2>2. QED
    BY <1>2, <1>3, <2>1
<1>10. Begins(z, s)
  BY <1>7
<1> HIDE DEF x, y, z, s
<1>11. Len(x) \in Nat /\ Len(y) \in Nat /\ Len(s) \in Nat /\ Len(z) = Len(x) + Len(y)
  BY <1>9
<1>12. \A k \in 1..Len(y) : z[Len(x) + k] = y[k] /\ Len(x) + k \in 1..Len(z)
  BY <1>9
<1>13. Len(x) + Len(y) <= Len(s)
  <2> DEFINE a == Len(x)
             c == Len(y)
             e == Len(s)
             t == Len(z)
  <2>1. a \in Nat /\ c \in Nat /\ e \in Nat /\ t = a + c
    BY <1>11
  <2>2. t \in 1..t => t <= e
    BY <1>10
  <2> HIDE DEF a, c, e, t
  <2>3. a + c <= e
    BY <2>1, <2>2
  <2>4. QED
    BY <2>3 DEF a, c, e
<1>14. \A k \in 1..Len(y) : s[Len(x) + k] = y[k]
  BY <1>10, <1>12
<1>15. QED
  BY <1>8, <1>11, <1>13, <1>14 DEF x, y, z, s, U

\* What the parser makes of a rule that continues with an option.
Read(rule, o) == IF Stored(o[2]) THEN Append(rule, <<o[1], NameOf(o[2]), o[3][1]>>) ELSE rule

(***************************************************************************)
(* An option after whole options is read as one: negated or not, its       *)
(* values with it.                                                         *)
(***************************************************************************)
LEMMA ParseOption ==
  ASSUME NEW segs \in Seq(Word), NEW o \in Option, NEW b \in Nat, b + Len(Words(o)) <= Len(segs),
         \A k \in 1..Len(Words(o)) : segs[b + k] = Words(o)[k],
         NEW rule, ParsedUpTo(segs, b, rule)
  PROVE  ParsedUpTo(segs, b + Len(Words(o)), Read(rule, o))
<1> DEFINE v == o[3]
           w == o[2]
           x == Words(o)
           n == Len(v)
<1>1. /\ x \in Seq(Word) /\ v \in Seq(Word) /\ w \in Word /\ w # "!"
      /\ o[1] \in BOOLEAN
  BY WordsOf, Zenon
<1>2. PICK d \in {0, 1} :
               /\ Len(x) = d + 1 + n
               /\ x[d + 1] = w
               /\ \A k \in 1..n : x[d + 1 + k] = v[k]
               /\ o[1] => d = 1 /\ x[1] = "!"
               /\ ~o[1] => d = 0
  BY WordsOf, Zenon
<1>3. Arity(w) <= n /\ \A k \in 1..n : k > Arity(w) => v[k] # "!" /\ Arity(v[k]) = 0
  BY DEF Option
<1> HIDE DEF v, w, x
<1>4. n \in Nat /\ Len(x) \in Nat /\ Len(segs) \in Nat
  BY <1>1, LenProperties
<1> DEFINE p == b + d + 1
<1>5. /\ p \in 1..Len(segs) /\ p + n <= Len(segs) /\ p + n = b + Len(x)
      /\ segs[p] = w /\ \A k \in 1..n : segs[p + k] = v[k]
  <2>1. b + Len(x) <= Len(segs) /\ \A k \in 1..Len(x) : segs[b + k] = x[k]
    BY DEF x
  <2>2. p \in 1..Len(segs) /\ p + n <= Len(segs) /\ p + n = b + Len(x)
    BY <1>2, <1>4, <2>1
  <2>3. segs[p] = w
    <3>1. d + 1 \in 1..Len(x) /\ b + (d + 1) = p
      BY <1>2, <1>4
    <3>2. QED
      BY <1>2, <2>1, <3>1
  <2>4. ASSUME NEW k \in 1..n PROVE segs[p + k] = v[k]
    <3> HIDE DEF n
    <3>0. k \in Nat /\ 1 <= k /\ k <= n
      BY <1>4
    <3>1. d + 1 + k \in 1..Len(x) /\ b + (d + 1 + k) = p + k
      BY <1>2, <1>4, <3>0
    <3>2. QED
      BY <1>2, <2>1, <3>1
  <2>5. QED
    BY <2>2, <2>3, <2>4
<1>6. \A k \in 1..n : k > Arity(w) => segs[p + k] # "!" /\ Arity(segs[p + k]) = 0
  BY <1>3, <1>5
<1> DEFINE neg == o[1]
<1>7. Parse(segs)[p - 1] = [i |-> p, invert |-> neg, rule |-> rule]
  <2>1. CASE o[1]
    <3>1. d = 1 /\ x[1] = "!" /\ b + 1 \in 1..Len(segs) /\ 1 \in 1..Len(x)
      BY <1>2, <1>4, <1>5, <2>1
    <3>2. segs[b + 1] = "!"
      BY <3>1 DEF x
    <3> DEFINE j == b + 1
    <3>3. j - 1 = b /\ p = j + 1 + 0 /\ p - 1 = j
      BY <3>1
    <3>4. Parse(segs)[j] = ParseSegment(segs, Parse(segs)[j - 1], j)
      BY <3>1, ParseEquation, Zenon
    <3>5. PICK f : f = FALSE
      OBVIOUS
    <3>6. Parse(segs)[j] = ParseSegment(segs, [i |-> j, invert |-> f, rule |-> rule], j)
      BY <3>3, <3>4, <3>5, Zenon DEF ParsedUpTo
    <3>7. PICK e : e = "!"
      OBVIOUS
    <3>8. segs[j] = e
      BY <3>2, <3>7
    <3> HIDE DEF j
    <3>9. ParseSegment(segs, [i |-> j, invert |-> f, rule |-> rule], j) =
            [i |-> j + 1 + Arity(e), invert |-> e = "!",
             rule |-> IF Stored(e) THEN Append(rule, <<f, NameOf(e), Seg(segs, j + 1)>>) ELSE rule]
      BY <3>8, ParseReads
    <3>10. Arity(e) = 0 /\ ~Stored(e)
      BY <3>7, ArityTyped
    <3>11. (e = "!") = neg
      BY <1>1, <2>1, <3>7, Zenon
    <3> HIDE DEF neg
    <3>12. Parse(segs)[j] = [i |-> j + 1 + 0, invert |-> neg, rule |-> rule]
      BY <3>6, <3>9, <3>10, <3>11, Zenon
    <3>13. QED
      BY <3>3, <3>12, Zenon
  <2>2. CASE ~o[1]
    <3>1. p - 1 = b /\ p = b + 1
      BY <1>2, <2>2
    <3>2. neg = FALSE
      BY <1>1, <2>2, Zenon
    <3> HIDE DEF p, neg
    <3>3. QED
      BY <3>1, <3>2, Zenon DEF ParsedUpTo
  <2>3. QED
    BY <2>1, <2>2
<1> HIDE DEF p, n, neg
<1>8. ParsedUpTo(segs, p + n, IF Stored(w) THEN Append(rule, <<neg, NameOf(w), Seg(segs, p + 1)>>) ELSE rule)
  <2>1. p \in 1..Len(segs) /\ n \in Nat
    BY <1>4, <1>5, Zenon
  <2>2. p + n <= Len(segs)
    BY <1>5, Zenon
  <2>3. segs[p] = w /\ w # "!" /\ Arity(w) <= n
    BY <1>1, <1>3, <1>5, Zenon
  <2>4. ReadsAt(segs, p, n, w, neg, rule)
    BY <2>1, <2>2, <2>3, <1>6, <1>7, Zenon DEF ReadsAt
  <2>5. QED
    BY <2>4, ParseValues, Zenon
<1>9. Stored(w) => Seg(segs, p + 1) = v[1]
  <2> SUFFICES ASSUME Stored(w) PROVE Seg(segs, p + 1) = v[1]
    OBVIOUS
  <2>1. 1 \in 1..n
    BY <1>3, <1>4, ArityTyped
  <2>2. p + 1 \in DOMAIN segs
    BY <1>4, <1>5, <2>1
  <2>3. QED
    BY <1>5, <2>1, <2>2 DEF Seg
<1>10. (IF Stored(w) THEN Append(rule, <<neg, NameOf(w), Seg(segs, p + 1)>>) ELSE rule) = Read(rule, o)
  BY <1>9, Zenon DEF Read, v, w, neg
<1>11. QED
  BY <1>5, <1>8, <1>10, Zenon DEF x

\* rule is what the first n options say, in their order.
Known(options, n) == {i \in 1..n : Stored(options[i][2])}
PlaceOf(options, n, i) == Cardinality({j \in Known(options, n) : j <= i})
Entry(o) == <<o[1], NameOf(o[2]), o[3][1]>>
Says(options, n, rule) ==
    /\ rule \in ParserRule
    /\ Len(rule) = Cardinality(Known(options, n))
    /\ \A i \in Known(options, n) : rule[PlaceOf(options, n, i)] = Entry(options[i])

(***************************************************************************)
(* The entry of an option that is kept.                                    *)
(***************************************************************************)
LEMMA EntryTyped ==
  ASSUME NEW o \in Option, Stored(o[2])
  PROVE  Entry(o) \in BOOLEAN \X Word \X Word
<1>1. o[3] \in Seq(Word) /\ o[2] \in Word
  BY WordsOf, Zenon
<1>2. o[1] \in BOOLEAN
  BY WordsOf, Zenon
<1>3. Len(o[3]) >= Arity(o[2])
  BY DEF Option
<1>4. Arity(o[2]) >= 1 /\ Arity(o[2]) \in Nat
  BY ArityTyped
<1>5. o[3][1] \in Word
  <2>1. 1 \in 1..Len(o[3])
    BY <1>1, <1>3, <1>4, LenProperties
  <2>2. QED
    BY <1>1, <2>1, ElementOfSeq
<1>6. NameOf(o[2]) \in Word
  <2>1. \A w \in Word : NameOf(w) \in Word
    BY Zenon DEF NameOf, Word
  <2>2. QED
    BY <1>1, <2>1
<1>7. QED
  BY <1>2, <1>5, <1>6, Zenon DEF Entry

(***************************************************************************)
(* The options that are kept can be counted.                               *)
(***************************************************************************)
LEMMA KnownFinite ==
  ASSUME NEW options, NEW n \in Nat
  PROVE  IsFiniteSet(Known(options, n)) /\ Cardinality(Known(options, n)) \in Nat
<1>1. IsFiniteSet(1..n)
  BY FS_Interval
<1>2. Known(options, n) \subseteq 1..n
  BY DEF Known
<1>3. IsFiniteSet(Known(options, n))
  BY <1>1, <1>2, FS_Subset
<1>4. QED
  BY <1>3, FS_CardinalityType

(***************************************************************************)
(* If the rule is what the options before say, it is so with the next one: *)
(* its place is after theirs, and their places stay.                       *)
(***************************************************************************)
LEMMA SaysExtends ==
  ASSUME NEW options \in Seq(Option), NEW n \in 1..Len(options), NEW rule, Says(options, n - 1, rule)
  PROVE  Says(options, n, Read(rule, options[n]))
<1> DEFINE o == options[n]
           K == Known(options, n - 1)
           L == Known(options, n)
<1>1. o \in Option /\ n \in Nat /\ n - 1 \in Nat
  BY ElementOfSeq, LenProperties
<1>2. rule \in ParserRule /\ Len(rule) = Cardinality(K)
  BY DEF Says
<1>3. \A i \in K : rule[PlaceOf(options, n - 1, i)] = Entry(options[i])
  BY Zenon DEF Says
<1>4. IsFiniteSet(K) /\ Cardinality(K) \in Nat
  BY <1>1, KnownFinite
<1>5. CASE ~Stored(o[2])
  <2>1. L = K
    BY <1>1, <1>5 DEF Known
  <2>2. Read(rule, o) = rule
    BY <1>5, Zenon DEF Read
  <2>3. \A i \in L : PlaceOf(options, n, i) = PlaceOf(options, n - 1, i)
    BY <2>1, Zenon DEF PlaceOf
  <2>4. \A i \in L : rule[PlaceOf(options, n, i)] = Entry(options[i])
    BY <1>3, <2>1, <2>3, Zenon
  <2>5. Says(options, n, rule)
    BY <1>2, <2>1, <2>4, Zenon DEF Says
  <2>6. QED
    BY <2>2, <2>5, Zenon
<1>6. CASE Stored(o[2])
  <2> DEFINE e == Entry(o)
             c == Len(rule)
             E == BOOLEAN \X Word \X Word
             r == Append(rule, e)
  <2>1. L = K \cup {n} /\ n \notin K /\ \A i \in K : i < n /\ i \in Nat
    BY <1>1, <1>6 DEF Known
  <2>2. Read(rule, o) = r
    BY <1>6, Zenon DEF Read, Entry
  <2>3. e \in E /\ rule \in Seq(E)
    BY <1>1, <1>2, <1>6, EntryTyped, Zenon DEF ParserRule
  <2> HIDE DEF e, E
  <2>4. /\ r \in Seq(E) /\ Len(r) = c + 1 /\ r[c + 1] = e /\ c \in Nat
        /\ \A k \in 1..c : r[k] = rule[k]
    BY <2>3, AppendProperties, LenProperties
  <2> HIDE DEF K, L, r, c, o
  <2>5. Cardinality(L) = c + 1
    <3>1. Cardinality(K \cup {n}) = Cardinality(K) + 1
      BY <1>4, <2>1, FS_AddElement
    <3>2. QED
      BY <1>2, <2>1, <3>1 DEF c
  <2>6. ASSUME NEW i \in L PROVE r[PlaceOf(options, n, i)] = Entry(options[i])
    <3>1. CASE i = n
      <4>0. \A j \in L : j <= i
        BY <1>1, <2>1, <3>1
      <4>1. {j \in L : j <= i} = L
        BY <4>0, Zenon
      <4>2. PlaceOf(options, n, i) = c + 1
        BY <2>5, <4>1, Zenon DEF PlaceOf, L
      <4>3. QED
        BY <2>4, <3>1, <4>2 DEF e, o
    <3>2. CASE i # n
      <4> DEFINE P == {j \in K : j <= i}
                 k == PlaceOf(options, n - 1, i)
      <4>1. i \in K /\ i \in P
        BY <2>1, <3>2
      <4>2. {j \in L : j <= i} = P
        BY <1>1, <2>1, <4>1
      <4>3. k = Cardinality(P)
        BY Zenon DEF PlaceOf, K
      <4>4. PlaceOf(options, n, i) = k
        BY <4>2, <4>3, Zenon DEF PlaceOf, L
      <4> HIDE DEF P, k
      <4>5. P \subseteq K
        BY DEF P
      <4>6. IsFiniteSet(P) /\ Cardinality(P) \in Nat /\ Cardinality(P) <= Cardinality(K)
        BY <1>4, <4>5, FS_Subset, FS_CardinalityType
      <4>7. Cardinality(P) # 0
        BY <4>1, <4>6, FS_EmptySet
      <4>8. k \in 1..c
        BY <1>2, <2>4, <4>3, <4>6, <4>7 DEF c
      <4>9. rule[k] = Entry(options[i])
        BY <1>3, <4>1, Zenon DEF k
      <4>10. QED
        BY <2>4, <4>4, <4>8, <4>9
    <3>3. QED
      BY <3>1, <3>2
  <2>7. Says(options, n, r)
    BY <2>4, <2>5, <2>6, Zenon DEF Says, ParserRule, E, L
  <2>8. QED
    BY <2>2, <2>7, Zenon DEF o
<1>7. QED
  BY <1>5, <1>6

(***************************************************************************)
(* The parser makes of the segments of a rule what its options say, by     *)
(* induction over the options.                                             *)
(***************************************************************************)
LEMMA RuleSaysOptions ==
  ASSUME NEW options \in Seq(Option)
  PROVE  Says(options, Len(options), ParseIPTablesRule(Segments(options)))
<1> DEFINE N == Len(options)
           U == SegmentsUpTo(options)
           segs == Segments(options)
           G == {n \in 0..N : \E rule : ParsedUpTo(segs, Len(U[n]), rule) /\ Says(options, n, rule)}
<1>1. N \in Nat
  BY LenProperties
<1>2. U[0] = <<>> /\ segs = U[N] /\ \A n \in 0..N : U[n] \in Seq(Word)
  <2>1. U[0] = <<>> /\ \A n \in 0..N : U[n] \in Seq(Word)
    BY SegmentsEquation
  <2>2. QED
    BY <2>1, Zenon DEF Segments
<1>3. segs \in Seq(Word)
  BY <1>1, <1>2
<1>4. 0 \in G
  <2>1. Len(U[0]) = 0 /\ 0 + 1 = 1 /\ 0 \in 0..N
    BY <1>1, <1>2
  <2>2. Parse(segs)[0] = Start
    BY <1>3, ParseEquation, Zenon
  <2>3. ParsedUpTo(segs, Len(U[0]), <<>>)
    BY <2>1, <2>2, Zenon DEF ParsedUpTo, Start
  <2>4. Known(options, 0) = {}
    BY DEF Known
  <2>5. <<>> \in ParserRule /\ Len(<<>>) = Cardinality({})
    <3>1. <<>> \in ParserRule
      BY EmptySeq, Zenon DEF ParserRule
    <3>2. Len(<<>>) = 0 /\ Cardinality({}) = 0
      BY FS_EmptySet
    <3>3. QED
      BY <3>1, <3>2, Zenon
  <2>6. Says(options, 0, <<>>)
    BY <2>4, <2>5, Zenon DEF Says
  <2>7. QED
    BY <2>1, <2>3, <2>6, Zenon
<1>5. ASSUME NEW n \in 1..N, n - 1 \in G
      PROVE  n \in G
  <2> DEFINE b == Len(U[n - 1])
             o == options[n]
  <2>1. PICK rule : ParsedUpTo(segs, b, rule) /\ Says(options, n - 1, rule)
    BY <1>5, Zenon
  <2>2. o \in Option /\ n \in 0..N
    BY <1>1, ElementOfSeq
  <2>3. /\ b \in Nat /\ Len(U[n]) = b + Len(Words(o)) /\ b + Len(Words(o)) <= Len(segs)
        /\ \A k \in 1..Len(Words(o)) : segs[b + k] = Words(o)[k]
    BY SegmentsExtend, Zenon
  <2>4. Says(options, n, Read(rule, o))
    BY <2>1, SaysExtends, Zenon
  <2> HIDE DEF b, o, segs
  <2>5. ParsedUpTo(segs, b + Len(Words(o)), Read(rule, o))
    BY <1>3, <2>1, <2>2, <2>3, ParseOption, Zenon
  <2>6. ParsedUpTo(segs, Len(U[n]), Read(rule, o))
    BY <2>3, <2>5, Zenon
  <2>7. QED
    BY <2>2, <2>4, <2>6, Zenon
<1> HIDE DEF G
<1>6. 0..N \subseteq G
  BY <1>1, <1>4, <1>5, Induction
<1>7. N \in G
  BY <1>1, <1>6
<1>8. PICK rule : ParsedUpTo(segs, Len(U[N]), rule) /\ Says(options, N, rule)
  BY <1>7, Zenon DEF G
<1>9. ParseIPTablesRule(segs) = rule
  <2>1. Parse(segs)[Len(segs)] = [i |-> Len(segs) + 1, invert |-> FALSE, rule |-> rule]
    BY <1>2, <1>8, Zenon DEF ParsedUpTo
  <2> HIDE DEF segs
  <2> DEFINE k == Len(segs) + 1
             x == [i |-> k, invert |-> FALSE, rule |-> rule]
  <2>2. x.rule = rule
    BY Zenon
  <2>3. ParseIPTablesRule(segs) = x.rule
    <3> HIDE DEF k
    <3>1. Parse(segs)[Len(segs)] = x
      BY <2>1 DEF k
    <3> HIDE DEF x
    <3>2. QED
      BY <3>1, Zenon DEF ParseIPTablesRule
  <2>4. QED
    BY <2>2, <2>3, Zenon
<1>10. QED
  BY <1>8, <1>9, Zenon

(***************************************************************************)
(* The empty rule.                                                         *)
(***************************************************************************)
LEMMA NoOptions == DOMAIN <<>> = {} /\ Len(<<>>) = 0 /\ Cardinality({}) = 0
<1>1. DOMAIN <<>> = {} /\ Len(<<>>) = 0
  OBVIOUS
<1>2. QED
  BY <1>1, FS_EmptySet

(***************************************************************************)
(* The options of the rules are of this kind, and so is their chain.       *)
(***************************************************************************)
LEMMA OptionsAreOptions == Options \subseteq Option
<1> SUFFICES ASSUME NEW o \in Options PROVE o \in Option
  OBVIOUS
<1>1. /\ o \in BOOLEAN \X (STRING \ {"!"}) \X Seq(STRING)
      /\ Len(o[3]) >= Arity(o[2])
      /\ \A k \in DOMAIN o[3] : k > Arity(o[2]) => o[3][k] # "!" /\ Arity(o[3][k]) = 0
  BY OptionsAssumption
<1> DEFINE A == STRING \ {"!"}
           B == Seq(STRING)
           C == Word \ {"!"}
           D == Seq(Word)
<1>2. STRING \subseteq Word
  BY Zenon DEF Word
<1>3. A \subseteq C
  BY <1>2
<1>4. B \subseteq D
  <2> SUFFICES ASSUME NEW s \in B PROVE s \in D
    OBVIOUS
  <2>1. Len(s) \in Nat /\ s \in [1..Len(s) -> STRING]
    BY LenProperties
  <2>2. s \in [1..Len(s) -> Word]
    BY <1>2, <2>1
  <2>3. QED
    BY <2>1, <2>2, SeqDef
<1>5. o[3] \in B
  BY <1>1
<1>6. DOMAIN o[3] = 1..Len(o[3])
  BY <1>5, LenProperties
<1> HIDE DEF A, B, C, D
<1>7. o \in BOOLEAN \X A \X B
  BY <1>1, Zenon DEF A, B
<1>8. o \in BOOLEAN \X C \X D
  BY <1>3, <1>4, <1>7, Zenon
<1>9. QED
  BY <1>1, <1>6, <1>8, Zenon DEF Option, C, D

LEMMA ChainIsOption ==
  ASSUME NEW chain \in {"KUBE-FORWARD", "KUBE-SERVICES", "CUSTOM"}
  PROVE  <<FALSE, "-A", <<chain>>>> \in Option
<1> DEFINE v == <<chain>>
           w == "-A"
           o == <<FALSE, w, v>>
           C == Word \ {"!"}
           D == Seq(Word)
<1>1. chain \in Word /\ w \in Word
  BY Zenon DEF Word
<1>2. w # "!"
  OBVIOUS
<1>3. v \in D /\ Len(v) = 1
  BY <1>1
<1>4. Arity(w) = 1
  BY DEF Arity, Stored
<1>5. w \in C
  BY <1>1, <1>2, Zenon
<1> HIDE DEF v, w, C, D
<1>6. o \in BOOLEAN \X C \X D
  BY <1>3, <1>5, Zenon
<1>7. o[2] = w /\ o[3] = v
  BY Zenon
<1>8. /\ Len(o[3]) >= Arity(o[2])
      /\ \A k \in 1..Len(o[3]) : k > Arity(o[2]) => o[3][k] # "!" /\ Arity(o[3][k]) = 0
  <2> HIDE DEF o
  <2>1. Len(o[3]) = 1 /\ Arity(o[2]) = 1
    BY <1>3, <1>4, <1>7, Zenon
  <2>2. \A k \in 1..1 : ~(k > 1)
    OBVIOUS
  <2>3. 1 >= 1
    OBVIOUS
  <2>4. QED
    BY <2>1, <2>2, <2>3, Zenon
<1> HIDE DEF o
<1>9. o \in Option
  BY <1>6, <1>8, Zenon DEF Option, C, D
<1>10. QED
  BY <1>9, Zenon DEF o, v, w

(***************************************************************************)
(* A rule that iptables-save prints is a sequence of them.                 *)
(***************************************************************************)
LEMMA RulesAreOptions ==
  ASSUME NEW options \in Rules, NEW chain \in {"KUBE-FORWARD", "KUBE-SERVICES", "CUSTOM"}
  PROVE  <<<<FALSE, "-A", <<chain>>>>>> \o options \in Seq(Option)
<1> DEFINE o == <<FALSE, "-A", <<chain>>>>
<1>1. o \in Option
  BY ChainIsOption, Zenon
<1>2. options \in Seq(Option)
  <2>1. CASE options = <<>>
    BY <2>1
  <2>2. ASSUME NEW n \in 1..MaxOptions, options \in [1..n -> Options]
        PROVE  options \in Seq(Option)
    <3>1. n \in Nat
      BY OptionsAssumption
    <3>2. options \in [1..n -> Option]
      BY <2>2, OptionsAreOptions
    <3>3. QED
      BY <3>1, <3>2, SeqDef
  <2>3. QED
    BY <2>1, <2>2 DEF Rules
<1> HIDE DEF o
<1>3. <<o>> \in Seq(Option)
  BY <1>1
<1>4. <<o>> \o options \in Seq(Option)
  BY <1>2, <1>3, ConcatProperties
<1>5. QED
  BY <1>4 DEF o

(***************************************************************************)
(* Every rule that is read is parsed right.                                *)
(***************************************************************************)
LEMMA RuleStep == RulesParsed /\ [RuleNext]_ruleVars => RulesParsed'
<1> SUFFICES ASSUME RulesParsed, [RuleNext]_ruleVars
             PROVE  RulesParsed'
  OBVIOUS
<1>1. CASE handleIPTables
  <2>1. PICK options \in Rules, chain \in {"KUBE-FORWARD", "KUBE-SERVICES", "CUSTOM"} :
           /\ written' = <<<<FALSE, "-A", <<chain>>>>>> \o options
           /\ parsed' = ParseIPTablesRule(Segments(<<<<FALSE, "-A", <<chain>>>>>> \o options))
    BY <1>1, Zenon DEF handleIPTables
  <2> DEFINE w == <<<<FALSE, "-A", <<chain>>>>>> \o options
             r == ParseIPTablesRule(Segments(w))
             known == {i \in DOMAIN w : Stored(w[i][2])}
  <2>2. w \in Seq(Option)
    BY RulesAreOptions, Zenon
  <2>3. written' = w /\ parsed' = r
    BY <2>1, Zenon
  <2> HIDE DEF w
  <2>4. Says(w, Len(w), r)
    BY <2>2, RuleSaysOptions, Zenon
  <2>5. Known(w, Len(w)) = known
    BY <2>2, LenProperties, Zenon DEF Known
  <2>6. /\ Len(r) = Cardinality(known)
        /\ \A i \in known : r[Cardinality({j \in known : j <= i})] = <<w[i][1], NameOf(w[i][2]), w[i][3][1]>>
    BY <2>4, <2>5, Zenon DEF Says, PlaceOf, Entry
  <2> HIDE DEF r
  <2>7. QED
    BY <2>3, <2>6, Zenon DEF RulesParsed
<1>2. CASE NextRule
  <2>1. written' = <<>> /\ parsed' = <<>>
    BY <1>2 DEF NextRule
  <2>2. QED
    BY <2>1, NoOptions DEF RulesParsed
<1>3. CASE UNCHANGED ruleVars
  BY <1>3, Zenon DEF ruleVars, RulesParsed
<1>4. QED
  BY <1>1, <1>2, <1>3 DEF RuleNext

(***************************************************************************)
(* Every option of a rule but match sets is read with its value and with   *)
(* its own negation, whatever stands before it (ParseIPTablesRule), for    *)
(* any options of any length and rules with any number of them.            *)
(***************************************************************************)
THEOREM RulesAreParsed == Spec => []RulesParsed
<1>1. Init => RulesParsed
  BY NoOptions DEF Init, RuleInit, RulesParsed
<1>2. RulesParsed /\ [Next]_vars => RulesParsed'
  BY RuleStep, StepOfARuntimeOrNetworkCheck
<1>3. QED
  BY <1>1, <1>2, PTL DEF Spec
=============================================================================
