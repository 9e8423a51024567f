# Verification of the EKS node monitoring agent

TLA+ models of the parts of the agent that keep state and talk to others, TLC
runs that check them on small instances, and TLAPS proofs for every instance.
Paths are relative to the root of the repository; `PROJECT.json` ties each
definition to the source lines it models, and lists runs, mutants, findings,
hazards and theorems.

## 1. The system

The agent runs on every node. Monitors look at the node and report conditions;
the manager debounces and routes them; the exporter shows the fatal ones as
conditions of the Node object. Beside this pipeline a controller serves
`NodeDiagnostic` objects: it collects logs and captures packets on request.

| Component | State | Operations | Talks to |
|---|---|---|---|
| Node exporter, `pkg/manager/node_exporter.go` | local conditions, dirty flag, unresolved fatal reasons per type, one mutex | `Fatal`, `Resolve`, heartbeat, report (Get + Patch) | API server; called by the manager |
| Monitor manager, `pkg/manager/manager.go` | bounded channel, occurrence counts per reason, gauge | `Notify`, poll, `exportCondition`, `SendCondition` | monitors (channel), exporter (calls) |
| NodeDiagnostic controller, `pkg/controllers/nodediagnostic.go` | informer cache, work queue, cancel function, slot of the log collection, support file and its timers | `Reconcile` (log capture, packet capture), cancellation handlers | API server, informer, packet capture, log collector |
| Packet capture, `pkg/packet_capture` | tcpdump process, capture directory, watcher goroutine, three channels | `CaptureAndUpload`, `startFileWatcher`, `uploadFile` | tcpdump, igzip, S3; called by the controller |
| Probe runner, `pkg/probe/runner.go` | per check: failure and recovery counters, reported flag, grace flag | `runOnce`, `apply*` | transports (HTTP, D-Bus), manager (`Notify`) |
| NVML reader, `monitors/nvidia/nvml` | calls outstanding in the driver, stall and escalation windows, baselines of counters, XID event set | `run`, `Reconcile`, `escalate`, `Poll`, `Wait` | NVIDIA driver through cgo, manager |
| DCGM client, `monitors/nvidia/dcgm` | connection, watches, shutdown handlers | `Reconcile`, policy and field watches, health checks | host engine, manager |
| GPU classification, `monitors/nvidia/classify` | none | pure functions of codes | NVML, DCGM |
| Observers, `pkg/observer`, `pkg/util/subscription.go` | file and journal positions, subscriber buffers | open, reopen, `Broadcast`, handler group | host logs, monitors |
| Networking monitor, `monitors/networking` | caches of interfaces, counters of the last poll, debounce state | periodic checks | host network, IPAMD, probes |
| Kernel, runtime, storage, neuron monitors | cron times, counters of the last poll | log handlers, periodic checks | observers, host files, manager |
| Startup and configuration, `cmd`, `pkg/config`, `pkg/monitor/registry` | registry of plugins, readiness gate | bootstrap, registration | everything |
| Log collector, `pkg/log_collector` | temporary directory | collectors, archive | host files and commands |
| Diagnostic logger, `pkg/diagnostic` | none that others read | console output | serial console |

What is hard here:

* **Concurrency.** Monitors, the manager's loop, the exporter's tickers and the
  API server interleave; the cancellation handler of the controller runs
  outside the work queue; tcpdump, igzip, the watcher and the shutdown sequence
  share a directory; calls into the GPU driver cannot be cancelled.
* **Failure.** API calls fail before or after taking effect; the agent
  restarts and forgets its reasons, timers and captures; uploads, compressions
  and collections fail one by one.
* **Ordering and staleness.** Decisions are taken on informer copies, on
  objects a patch has silently refreshed and on Node objects read earlier.
* **Timeouts.** Collections and driver calls are abandoned and come back late.

What makes each part correct: a reader of the Node sees what the monitors
concluded (exporter, manager); every request is answered, once, for the spec
that asked for it and within its limits (controller); nothing captured is lost
and a failed upload is never called a success (packet capture); one report per
episode with hysteresis on both edges (probe runner); one outstanding call per
check and no escalation while calls are answered in time (NVML reader); a fault
that can get a node repaired is reported only when it was seen (GPU checks), for
a grace period (DCGM) or by two observations (networking; a missing loopback by
one); counters and rates are compared with the right earlier value (GPU checks,
storage, networking); log lines reach the monitors in order, once, and all of
them for those who keep up (observers). How far the code keeps these promises
is what the properties say; section 3 lists where it does not.

The hazards that follow from this are listed, each at its line, in
`PROJECT.json`.

## 2. Modules

```
NodeHealth                 abstract promise to the readers of a Node
NodeExporter               the exporter            implements NodeHealth
  MonitorManager           EXTENDS NodeExporter: manager and exporter composed
    MonitorManagerProofs   exporter, its refinement of NodeHealth, the agent
NodeDiagnostic             the controller with API server and informer
  NodeDiagnosticProofs     the collection slot, results and answers
PacketCapture              one packet capture with tcpdump, igzip, watcher
  PacketCaptureProofs      no file is lost, success is complete
NvmlReader                 bounded driver calls, stalls, probe, escalation
  NvmlReaderProofs         calls, stamps and the escalation
GpuClassify                readings of GPUs to conditions, as operators
  GpuChecks                the four NVML checks on GPUs that fail
    GpuChecksProofs        counters, healthy GPUs, XID registrations
  DcgmClient               connection, setup and policy events of DCGM
    DcgmClientProofs       the grace period
LogHandlers                what each monitor makes of a log line, as operators
  LogPipeline              observers, buffers and handlers
    LogPipelineProofs      streams and the followed file
HostMonitors               one of the periodic checks or the probe runner:
  KernelMonitor  StorageMonitor  RuntimeMonitor
  NetworkingMonitor  NetworkingCounters  IPTables  ProbeRunner
  Pacing                   ages, rate limiters and renotify trackers they share
  HostMonitorsProofs       all of their safety properties
MC*                        instances for TLC
```

### NodeExporter, NodeHealth

`managedConditions`, `managedConditionsDirty`, `fatalEntries` and `reportSeq`
are the fields of `nodeExporter`. All operations take one mutex. `Fatal`,
`Resolve` and `updateHeartbeatTimes` do no I/O and are one step each, enabled
while the lock is free; `reportManagedConditions` holds the lock over two API
calls, so it is `ReportStart`, `ReportGet`, `ReportPatch` (or `ReportError`),
between which only the environment moves. A patch may be applied and its answer
lost, and a restart may come while a patch is in flight. A request that has
ended is assumed to have taken effect by then or never. The exporter's client
reads the API server directly (`client.New` in `main.go`), so there is no cache
in this module.

The aggregated message is the sequence of the entries' messages with repetitions
blanked, which is what the code's set of seen messages does. Left out: Events
and logs of `Info` and `Warning`, the message of a healthy condition (a function
of its reason), the order of the conditions in the list.

`NodeHealth` says what readers may rely on: a write publishes, for all types the
agent tracks and at one instant, whether a fatal reason is unresolved; anything
else a reader sees is due to another client or to a restart.

### MonitorManager

A monitor's `Notify` blocks until the channel has room or its context ends; the
loop takes a notification, or polls all monitors, and runs `exportCondition` on
each. A resolution resets the count and lowers the gauge if the type recovered;
other conditions are counted until `MinOccurrences`, then sent. `SendCondition`
raises the gauge before `exporter.Fatal` waits for the exporter's lock, so that
is a phase of its own. No monitor of the repository returns anything from
`Conditions()`; the poll is exercised by a plugin in the instance. The error for
a monitor without a condition type cannot occur after `Register` and is left out.

### NodeDiagnostic

One object, one worker. The API server keeps `cr`; its versions travel through
`watch` to the informer (`Observe`), whose predicates queue the object and whose
other handler (`HandleEvent`) cancels. Each status patch of the code is one
step with a success and a failure branch. Three facts about the client matter
and are modelled: the worker's object comes from the informer's cache; a merge
patch of the status replaces the list of capture statuses; the answer of a patch
is decoded into the worker's object, so later steps use the spec the server
holds by then (a capture that was removed keeps its old value).

`collectLogsBounded` claims the slot (`CollectStart`), and then either receives
the result (`CollectDone`) or gives up (`CollectTimeout`), in which case the
collection returns later or never (`AbandonedReturn`). Saving to the node starts
a timer (`DeleteFile`). All log captures share one path, so the timer of an
earlier capture may remove the file of a later one (nodediagnostic.go:268-271);
the model has that behaviour and no property forbids it.

The object may be deleted and created again under its name at any time. The
status patch carries neither uid nor resource version (nodediagnostic.go:479),
so one meant for the old object lands on the new one; the history `misdirected`
has the objects this happened to, `captured` the requests a packet capture
succeeded for.

Left out: messages, times and capture IDs; other objects than the node's own;
relists of the informer that merge versions. The branch of
`handlePacketCapture` that cancels a previous capture is modelled but cannot be
taken while reconciles are sequential.

`PromptSpec` adds the assumption that the informer keeps up: the worker reads a
current copy and the cancellation handler runs before the worker goes on.

### PacketCapture

Files are numbers. tcpdump opens file `written`, and `Rotate` hands the full one
to igzip, which keeps the raw file and may finish at once or later
(`IgzipDone`). Failing uploads, compressions and directory listings, a full
disk, cancellation and a tcpdump that ends by itself, fails or is killed are
always possible. Three history variables name what the code does not guard
against, so that the properties say exactly how far its promises reach: `cut`
(files the watcher uploaded while igzip was still writing them: it takes every
`*.gz` of the directory, tcpdump.go:116, where the comment at :70 speaks of
completed files), `passedOver` (files the shutdown sequence left behind because
of an error that is only logged: of compressing one, tcpdump.go:264, or of
listing the raw or the compressed files, :258 and :271) and `quietExit` (tcpdump
ended unasked with status 0, see `capture_hang`). Left out: errors of starting
tcpdump, after which nothing runs, and of deleting an uploaded file, which is
then uploaded again under its name.

### NvmlReader

Each check owns a slot for the call it has in the driver. `run` starts a
goroutine, waits under a deadline and gives up (`TimeOut`); the call comes back
later or never, and on its way out clears the stamp and leaves the slot in two
steps. `Reconcile` loads and initializes the library, then asks `stalledFor`
over all checks, probes the driver and opens or closes the escalation window.
Time is counted in the 30 s of `Reconcile`; stamps are ages, capped where they
are compared. Host memory pressure may be low, high or unreadable whenever it
is read. The external driver holds or answers any call at any time.

### GpuClassify, GpuChecks

`GpuClassify` translates `classify.Classify` with its tables, the fabric masks
and the rules of `health.go` and `policy.go` by which a counter has grown and a
bit error rate is too high. `GpuChecks` runs one of the four checks (health,
policy, devices, XID) against two GPUs that develop faults, reset their
counters, are lost and come back, with reads that fail and polls that get
stuck; baselines, repeat intervals, the slow InfoROM validation and the XID
event set with its retries are its state. The checks share nothing, so a
behaviour follows one of them. Left out: messages beyond what tells two
conditions apart; of the NVLink error counters two stand for all.

### DcgmClient

`Reconcile` is one step per call to the engine: `Introspect`, shutdown, `Init`
with its grace period, then the setup of the configured features in order. The
engine crashes, is started again and fails calls. go-dcgm's listeners read one
static channel; a cancelled listener may still take an event, and the
forwarder of its connection hands on what it took. A feature that is set up
by several calls (fields: dcgm_client.go:191-211) is one step at the last of
them, the only one after which the engine watches and the client has an undo; an
error of any is the error of the feature. The polls of health, fields and device
count and the active diagnostics only read the connection. All they keep are two
trackers of repeated warnings (dcgm.go:42-46), which nothing here shares, and
they are left out; such trackers are in `Pacing`, checked where the networking
monitor uses them.

### LogHandlers, LogPipeline

A line is the set of patterns it matches; `LogHandlers` gives the conditions
each monitor's handler makes of it. `LogPipeline` follows one source: its
writer (half lines included), the rotation of the file, the file observer with
its directory watch, or the journal observer with its refresh, `Broadcast` into
bounded buffers that drop, and the handler loop of each monitor. A create event
is an event of the watched directory, seen after the file is there; opening the
file may then fail for any reason, which is logged and not tried again until
another file is created (`unopened`). A file counts as `announced` when the
watcher has passed its creation on: what the kernel drops when its event queue
overflows, and the errors the watcher reports (file.go only logs them), leave it
unannounced. A line that is being written when the reader gets to the end of
the file is `cut`: `readAll` drops the half it has read and broadcasts the rest
as a line (file.go:97-107). The dmesg observer is the file observer on
`/dev/kmsg`.

### HostMonitors

The periodic checks run on goroutines and tickers of their own and share no
state, so a behaviour picks one in its initial state and follows it: the host
changes and the check polls, in any order. Every check keeps beside the code's
state a history of what the host did, and the properties compare the reports
with that history.

* `KernelMonitor`: cron lines (the cache per user: it is keyed by the sixth
  word of a line, kernel/monitor.go:306, which is `(root)` in the line of
  monitor_test.go:151; times without a year),
  zombies with the manager's count of occurrences, and the levels of files,
  PIDs, zram, environment and clock.
* `StorageMonitor`: I/O delays per process against a cache that expires while
  process IDs are used again; EBS throttling counters; XFS free extents. The
  stat line of a process is split at spaces (storage/monitor.go:315), so one
  whose name has spaces is judged by another column; the model has only others.
* `RuntimeMonitor`: unit restarts with the early return after a report;
  deprecated manifests and the node annotation; the limiter of probe failures.
* `NetworkingMonitor`: IPAMD with its window per CNI pod and the cross-check
  with the container runtime; interfaces against the cached sighting; IP rules
  and routes, whose three reads are three steps.
* `NetworkingCounters`: ENA allowances, the network policy agent, the Corefile
  agent, EFA counters.
* `IPTables`: the rule parser, expected rejects, port conflicts, MAC address
  policy, sysctls. A rule is a list of options, laid out as segments; the parser
  walks over the segments with its index, the pending negation and the rule so
  far. Its options are those of the switch in `ParseIPTablesRule`, long names
  included; the fields of a rule are the entries with their short names.

### ProbeRunner

`applyHealthy` and `applyUnhealthy` compute a check's new state and its
notification; `runOnce` applies them to liveness and, when that is healthy, to
readiness. The grace period is a flag that ends between two cycles. The runs
compare the counters with definitions over the whole history of results.

## 3. Runs

Passing runs:

| Run | Checks | Shows |
|---|---|---|
| `exporter` | `ExporterTypeOK`, `ConditionReflectsEntries`, `CleanIsPublished`, `TransitionFollowsStatus`, `RecoveryMeansResolved`, `ImplementsNodeHealth` | the local condition is a function of the unresolved reasons, newest first, and its transition time moves only with its status; with foreign writers, failures, lost answers and a restart nothing unpublished is marked clean and no false recovery is visible |
| `manager` | `GaugeFollowsEntries`, `VerdictsKeptWhenQuiet`, `NotifyReturns`, `FatalReachesNode`, `RemovedConditionReturns` | debouncing, queueing and waiting for the lock neither lose nor revive a verdict; monitors are not blocked for ever, fatal conditions arrive end to end because reports are retried, and heartbeats repair removed conditions |
| `diagnostic` | `OneCollection`, `SuccessIsForItsSpec`, `RequestsAnswered` | timeouts never run two collections; an object shows Success for a generation only if that generation of that object was captured, but for objects recreated under the worker's hands; when the informer keeps up, the controller comes to rest only with every request answered, despite a failing call and a restart |
| `capture` | `NothingLost`, `SuccessMeansUploaded`, `CaptureReturnsWhenAsked` | files are deleted only after their upload; success leaves no file behind but those a logged error made it pass over and those cut short; and every reason to stop but a quiet exit leads to a return |
| `nvml_reader` | `OneCallPerCheck`, `StampIsTruthful`, `UnresponsiveMeansSilent`, `HungDriverIsReported` | late answers disturb neither slot nor stamp of the next call; the fatal report comes only after a window in which no check got an answer and the probes got none in time (a probe answered after its deadline does not restart the window), and comes if the driver hangs for good |
| `gpu_checks` | `CountersExact`, `HealthyGpuIsQuiet`, `XidsAccounted` | across failed reads, stuck polls, resets and lost devices a counter is reported if and only if it grew, sound GPUs stay unreported, and no GPU that has XID events drops out of their registration |
| `logs` | `StreamsAreFaithful`, `FollowedFileReadCompletely`, `RotationFollowed`, `LinesReachMonitors` | slow subscribers lose only lines of their own; no line of the followed file is passed over, and only lines that were half written at an end of the file are cut; rotation is followed unless opening the new file fails; pending lines arrive |
| `host` | `CronExact`, `StorageDeltasExact`, `RestartsNotForgotten`, `FatalFaultsConfirmed`, `RoutesJudgedByState`, `WarningsPaced`, `RulesParsed`, `ReportsAreEdges`, `SummariesEndShortStreaks` | each periodic check reports what the history of the host defines |
| `dcgm` | `ErrorsAreSustained`, `ViolationsReported`, `ConnectionReturns` | a quick restart of the engine is no error, violations survive a reconnect, the client finds an engine that stays |

Runs that end in a counterexample, each a disagreement between the code and
what a comment or a document says (details in `PROJECT.json`, "findings"):

| Run | Property | What happens |
|---|---|---|
| `diagnostic_late` | `RequestsAnswered` | a late handler cancels the capture of the new generation |
| `capture_hang` | `CaptureReturns` | the only exit status is received twice |
| `dcgm_setup` | `SetupCompletes` | a setup call that fails once is never repeated while the engine answers |

`SuccessIsForItsSpec` does not cover a generation that asks for no packet
capture: there the old value is kept in the worker's object and recorded under
the new generation, which no reader of the spec is waiting for.

### Known deviations without a run of their own

Stated in the modules, and refuted by TLC when put into the INVARIANTS or
PROPERTIES of the run's cfg; the model has the behaviour, and no checked
property contradicts it:

* `ForeignConditionsKept` (NodeExporter): the report reads the Node and sends a
  merge patch with the whole list of conditions, which undoes a kubelet update
  made since the Get, where the comment at node_exporter.go:308 speaks of an
  upsert of the managed conditions.
* `CaptureWithinLimit` (NodeDiagnostic): the answer of the Running patch brings
  in a spec that was changed after the duration was validated
  (nodediagnostic.go:410).
* `NoReexecution` (NodeDiagnostic, without `PromptSpec`): the check for a
  completed capture reads the informer's copy, so an object that is queued
  again at once may be captured twice (nodediagnostic.go:345).
* `SuccessIsForTheObject` (NodeDiagnostic): the result of a capture is written
  to an object that was deleted and created again meanwhile
  (nodediagnostic.go:479). If the generations agree, the new object counts as
  captured, and its spec is never looked at.
* `SuccessMeansAllUploaded` (PacketCapture): "Capture finished and all files
  uploaded" (docs/packet-capture.adoc:57) fails for `passedOver` and `cut`
  files; an error of listing the directory leads to Success without any upload
  (tcpdump.go:271-273).
* `NothingLeftRunning` (NodeDiagnostic): removing `packetCapture` during a
  capture leaves the status Running (nodediagnostic.go:429).
* `ZombiesProlonged` (KernelMonitor): occurrences are counted, not consecutive
  ones, where kernel/monitor.go:270 concludes 25 minutes of exposure.
* `RapidJobsOnly` (KernelMonitor): two different jobs of one user within five
  minutes are reported, where docs/node-health-issues.adoc:226 and
  reasons.yaml:15 say that a job runs more often than every five minutes.
* `FatalOnlyIfAdjacent` (NetworkingMonitor): a missing loopback is Fatal
  (reasons.yaml:156-158) after one poll (networking/monitor.go:521-528), where
  the comment of `checkInterfaces` asks for the same issue in adjacent periods.
* `NPARestartsAreReal` (NetworkingCounters): when systemd starts the count of
  restarts over, the unsigned difference wraps and is reported as a crash loop.
* `RefreshKeepsBacklog` (LogPipeline): the refreshed journal handle starts at
  "now", so entries not read yet are lost, not only those of the window between
  close and reopen that journald.go:100 names.

Seen while translating and kept as the code has it:

* A cron job that runs in the first minutes after the turn of the year is
  compared with a time a year away and reported, whatever its interval
  (`CronExact` excepts it). The first readings of EBS, EFA and NPA counters are
  compared with 0, so what an EFA counter held when the agent started may be
  reported as a burst (efa.go:207).
* The observer cuts lines that are half written when it reads (file.go:97-107):
  a handler gets the rest of such a line and may miss its pattern. A rotated
  file that cannot be opened at its Create event is not followed (file.go:72).
* A poll that finds IPAMD running does not clear the stamp of an earlier one
  that did not (networking/monitor.go:389-403), so down, up, down within the
  window is reported.
* A GPU whose driver says that critical XID events are not supported is neither
  registered nor tried again (xid.go:166), as the comment there intends.
* The poll of units and of interfaces returns at the first report, so a unit or
  an interface that is reported in every poll hides those behind it.
* The IPAMD window is stamped again when it has passed, so of the polls that see
  a lasting fault one per window reports nothing. Either of the two rules of an
  address satisfies the check of the rules.
* The iptables parser adds a `--match-set` to a copy of its match, which is
  dropped (parser.go:201-205).
  After a `Notify` that fails, the ethtool check has already taken the new
  baseline, so the next tick does not retry (monitor.go:693 says it does).
* `effectiveBERExceeded` reports a mantissa of 0 with an exponent below 12. A
  failed read of the MIG mode counts as off, so links that are down may be
  reported as code 14 (`HealthyGpuIsQuiet` excepts it), where returncode.go:31
  says that a failed read is never classified as a fault.
* The repeat floor of XID events is per GPU: a different XID of the same GPU
  within it is dropped. An error of the DCGM shutdown is reported without grace.

### Bounds

* Exporter: two reasons are enough for an addition, an update and a partial
  resolution, three reports per life of the agent for a reason that comes back
  after another; two types, one configured, for conditions created on first
  report; two instants of the clock for transition times; one restart because a
  fresh exporter forgets everything but the Node. All messages are equal
  there; the proofs of section 4 cover any set of messages.
* Manager: a channel of one slot makes senders wait; a minimum of one
  occurrence makes debouncing visible; three sends let a reason be reported,
  resolved and reported again; one restart.
* Controller: two edits after which the object may be deleted (a request and
  its change, or a request and its successor under the same name), both
  destinations, an allowed and an excessive duration, one failing call, one
  restart.
* Capture: three files: one uploaded, one waiting, one being written.
* NVML reader: two checks beside Init and the probe, stall and escalation of
  two ticks, grace and repeat intervals of one; nothing else is bounded, ages
  are capped.
* GPU checks: two GPUs, two changes of the hardware, values on both sides of
  every threshold, a counter width (`MaxUint32`) of two bits, one tick of
  repeat and retry intervals.
* Logs: three lines, two rotations, one refresh, buffers of one line, a source
  with one and two sources with two subscribers.
* Host: two of each (users, commands, processes, volumes, units, pods, interfaces
  beside `lo` and an excluded one, addresses, statistics), the shortest windows
  that tell early from late, counters that wrap at 8, iptables rules of three
  options out of eleven that cover every arity and negation. Probe: a failure
  threshold of three, so that a streak can begin in the grace period, leave it
  and still end unreported; a recovery threshold of two; seven cycles, in which
  a full episode with an interrupted recovery fits.
* DCGM: two engines (one restart), two failing calls, five connections (as many
  as these can cause), two violations, a grace period of two reconciles.

### Fairness

* Exporter: tickers keep firing and `select` picks among ready cases at random,
  so heartbeat and report are strongly fair; the API server does not fail every
  call for ever. Nothing is assumed of the monitors or of other clients.
* Manager: a Go channel serves waiting senders in order and `sync.Mutex` does
  not starve a waiter, hence strong fairness of sending, receiving and of the
  two steps that need the exporter's lock.
* Capture: goroutines run, the duration elapses, a tcpdump that got SIGTERM
  ends, and the watcher's `select` does not ignore a closed channel for ever.
  tcpdump is not assumed to end by itself.
* NVML reader: tickers fire, and goroutines run (checks are run again, give up
  at their deadline, receive results). Nothing is assumed of the driver.
* Logs: the observer's loop and each monitor's handler loop run; `Broadcast`
  does not block, and a handler's `Notify` returns (`NotifyReturns`). Nothing
  is assumed of the writer or of rotation.
* DCGM: the ticker fires, the reconcile loop, the forwarders and the policies
  loop run. Nothing is assumed of the engine; `ConnectionReturns` and
  `SetupCompletes` speak of the behaviours in which it stays up.

Deadlock is checked for the exporter, the manager, the NVML reader, the GPU
checks and the DCGM client, whose loops never end. It is not for captures,
which end, nor for the controller, the logs and the host checks, which come to
rest when the bounds on requests, lines and cycles are used up.

## 4. Proofs

TLAPS proves the following for all values of the constants: any sets of types,
reasons, monitors, GPUs, files, addresses and checks, and any thresholds,
windows and bounds. Each theorem rests on an inductive invariant, because none
of the properties (but `OneCollection` and `RulesParsed`) is inductive alone; TLC has found no
violation of these invariants on the instances of the runs.

* `MonitorManagerProofs`, the exporter. `ExporterInv` adds to
  `ConditionReflectsEntries` and `CleanIsPublished` the types, that the entries
  of a type have distinct reasons with distinct increasing report numbers
  (`EntriesAreDistinct`, which makes "the latest entry" unique), and
  `ReportIsCurrent`: between Get and Patch the object about to be written is
  the one read plus the current local conditions. That is what the lock buys,
  and what makes the patch publish exactly the state whose dirty flag it
  clears. From it: `ExporterTypeCorrect`, `ConditionsAreFaithful`,
  `CleanMeansPublished`, and the action properties `NoFalseRecovery` and
  `TransitionsAreChanges`. `ExporterImplementsNodeHealth` is the refinement: the
  reasons of the entries are `unresolved`, the non-absent conditions `tracked`,
  the statuses on the Node `published`; a landing patch is `PublishNow`, a
  restart `Forget`, every other step of the report a stutter.
* `MonitorManagerProofs`, the agent. `AgentImplementsExporter`: each step of the
  manager is an operation of the exporter or leaves its variables alone, so the
  exporter's theorems hold of the composition (`AgentConditionsFaithful`,
  `AgentImplementsNodeHealth`). `GaugeIsExact` needs `AgentInv`, which adds the
  types of the manager to `ExporterInv`: a reason whose report waits for the
  exporter's lock is counted before it has an entry. `VerdictsAreKept` compares
  what monitors were heard to say with what the exporter holds, between which
  lies the queue. `VerdictInv` states the difference with a witness, a count of
  the reason's occurrences at each position of the channel, that starts at the
  verdict and ends at what was heard: taking a notification shifts it and
  sending one extends it. It also says where notifications come from
  (`SourcesKnown`), because polls overtake the channel.
* `NodeDiagnosticProofs`. `AtMostOneCollection`: `OneCollection` with its types.
  `ResultsAreForTheirSpec`: by `RequestInv`, every object on the server, in the
  watch or in the cache holds a request that was made, and the packet spec a
  worker carries is the one of its generation, or that generation asks for none.
  By `ResultInv`, every such copy that shows Success has a capture behind it
  (`Honest`), unless a patch for another object landed on it: a patch keeps the
  uid of the object it lands on and takes the result from the worker's.
  `NothingUnanswered`, over `PromptSpec`: by `AnswerInv`, the cache followed by
  the watch leads to the object on the server; unless something is pending that
  will run Reconcile again, a worker at rest has answered that object and a
  worker that is busy has its request; and after a cancellation something is
  pending or the object is gone.
* `PacketCaptureProofs`. `CaptureInv`: when the capture stops or tcpdump's end
  is known, tcpdump does not run; the final upload starts only after the watcher
  returned, when every raw file has a compressed copy or was passed over; a
  capture without upload errors leaves no file behind but those. From it `NoFileIsLost` and `SuccessIsComplete`.
* `NvmlReaderProofs`. `StampsAreTruthful` and `AtMostOneCallPerCheck`: a run
  waits for the pending call, and a result channel has a value only after its
  call left the driver, so a run that receives a value may forget its call.
  `EscalationIsJustified`: by `EscalationInv`, a check that answered since the
  window opened has no call, or one of this tick, or one of the last tick that
  `stalledFor`, which loads the stamps one after the other, has not come to yet
  and will find young.
* `DcgmClientProofs`: `ConnectionErrorsAreSustained`. The invariant adds that
  Reconcile connects only a client that is not initialized, and that such a
  client was shut down no earlier than it was last seen connected.
* `GpuChecksProofs`. `ChecksInv` ties, counter by counter, the remembered value
  to the reading of the last poll that completed, and what Policies read and has
  not evaluated yet to what the hardware says: `CountersAreExact`, `HealthyGpusAreQuiet`.
  `XidInv`: once the event set exists, a GPU that is not missing is registered
  or said that it has no such events:
  `NoGpuForgotten`.
* `LogPipelineProofs`. `PipelineInv`: the finished lines of a file are ordered
  (`LinesInOrder`), what is left to read comes after all that was read
  (`ReadInOrder`), and both outlive rotation; a piece that was read is whole
  unless its line is in `cut`. With it `StreamsStayFaithful` and
  `NoLineIsSkipped`.
* `HostMonitorsProofs`. One of the checks runs in each behaviour, so there is an
  invariant per check, and the properties follow from all of them.
  `RapidCronIsFound` (`CronInv`: what is remembered of a user is the time of
  year of the last line about it, no earlier than the last run of each job). `StorageReportsExact` (`IoInv`: the cache holds the
  delay at which a process was last seen; `EbsInv`: the statistics of a volume
  that stayed are those recorded plus what it was throttled since).
  `NoRestartForgotten` (`UnitInv`: what is recorded of a unit is at most what
  systemd counts). `RoutesJudgedFairly` (`RouteInv`: addresses that were
  complete all along had a rule when rules were read and have a route).
  `FatalFaultsAreConfirmed` (`IpamdInv`, `NpaInv`, `InterfaceInv`: an open window began
  with the observation it is counted from). `WarningsWellPaced` (`ProbeInv`,
  `EthtoolInv`, `EfaInv`: a limiter holds its burst less what passed it, and an EFA
  counter exceeds its baseline by no more than it grew since the last reading
  and, before the first, held at the start;
  `CorefileInv`: the tracker holds what was last told). `ProbeReportsAreEdges`
  and `ProbeSummariesEndStreaks` (`RunnerInv`: the state of a check is what its
  whole history of results makes it). `RulesAreParsed` (`RulesParsed` is
  inductive, since each rule is parsed in one step; the work is in what the
  parser computes). It takes induction over data: `Induction` is on a set of
  numbers and rests on a least counterexample (`MinOfNaturals`), and
  `RecursionExists` gives a function that satisfies a recursion, so that `Parse`
  and `SegmentsUpTo` satisfy theirs (`ParseEquation`, `SegmentsEquation`). Over
  the segments of one option: the values it takes are skipped and the others
  change nothing (`ParseValues`). Over the options of a rule: each is read as
  one (`ParseOption`), and adds its entry after those before it (`SaysExtends`).

The theorems assume what the modules assume of their constants, no more:
`ConfiguredAssumption`, `BoundsAssumption`, `ValuesAssumption`,
`AbsentAssumption`, `AbsentNodeAssumption`, `ManagerAssumption` and
`CatalogAssumption` of the condition pipeline, `DiagnosticAssumption`, `NothingAssumption`, `CaptureAssumption`,
`ReaderAssumption`, `DcgmAssumption`, `BufferSizeAssumption`, the `Names`,
`Counters` and `Healthy` assumptions of the GPU checks, and one assumption for
each of the host checks. TLC evaluates all of them in the runs. One is about the
input: by `OptionsAssumption` an option has the values the parser takes, and a
value it does not take (of an option it does not know) does not look like an
option with a value or like a negation; one that does is read as such by the
code. The one that says something of the program's other parts is
`CatalogAssumption`: the fatal
conditions of a reason go to one type with one `MinOccurrences`, only a reason
that is fatal at once may also be a warning (`DCGMHealthCode`,
`FabricManagerNotRunning`), and what is notified as fatal is not polled; so it
is in `pkg/reasons` and the monitors, whose polls return nothing.

Only model-checked are:

* Liveness, which is out of the prover's reach: `NotifyReturns`,
  `FatalReachesNode`, `RemovedConditionReturns`, `CaptureReturnsWhenAsked`,
  `HungDriverIsReported`, `RotationFollowed`, `LinesReachMonitors`,
  `ViolationsReported`, `ConnectionReturns`.

## 5. Plan

Done: the condition pipeline (exporter, manager), the diagnostic controller, the
packet capture, the NVML reader and checks, the DCGM client, the observers, the
periodic checks of all monitors with the probe runner, and the proofs above.

No safety property of the runs is left without a theorem.

## 6. Not modelled

* Startup, configuration and registry: sequential setup that ends before any
  component starts. The restart is an action of the exporter and the controller.
* Log collector and archive: copies files and the output of commands; its one
  decision that matters, how long it may take, is in NodeDiagnostic.
* Diagnostic logger: prints to the console; nothing reads what it does.
* Process and file system helpers: wrappers of the operating system; their
  results are the inputs of the models.
* Probe transports and the validation of the probe table: a transport is the
  outcome of a check, and the table is a constant of the program.
* DCGM polls and active diagnostics: readings of the connection, with trackers
  of repeated warnings as in `Pacing`.
* Generated code, charts, tools and tests.

## 7. Running

```
tlc -config MCNodeExporter.cfg MCNodeExporter     # one run
tlapm MonitorManagerProofs.tla                    # one module of proofs
```
