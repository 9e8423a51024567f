------------------------------ MODULE GpuChecks ------------------------------
(***************************************************************************)
(* The four NVML checks (nvml/health.go, policy.go, devices.go, xid.go),   *)
(* run against GPUs that develop faults, reset their counters, fall off    *)
(* the bus and come back, with reads that fail and calls that get stuck.   *)
(* The checks share nothing but the GPUs and the reader, so a behaviour    *)
(* follows one of them, chosen in its initial state.  How a run of a check *)
(* gets stuck is NvmlReader's matter: here it is a poll without a result.  *)
(***************************************************************************)
EXTENDS GpuClassify

CONSTANTS
    GPUs,               \* the GPUs' indices
    NvlinkErrorCounters, \* the fields of nvlinkErrorCounters
    NvlinkErrorTotals,  \* the fields of nvlinkErrorTotals, in their order
    Healthy,            \* the value of every field on a healthy GPU
    Values,             \* the values each field takes
    Failing,            \* sets of reads that fail on one GPU in one poll
    MaxUint32,          \* math.MaxUint32, scaled down
    Renotify,           \* WarningReNotifyInterval, in polls
    InforomInterval,    \* inforomInterval, in polls
    RetryInterval,      \* xidRetryInterval, in Waits
    Xids,               \* XIDs that events carry
    MaxChanges          \* how many changes of the hardware are explored

Nvlink5 == {"effectiveBER", "symbolBER", "recoverySucceeded", "recoveryFailed", "symbolErrors"}
HealthCounters == {"thermal", "power"} \cup NvlinkErrorCounters
HealthStates ==
    {"dbeVolatile", "retiredPending", "retiredSBE", "retiredDBE", "remapFailure", "remapUncorrectable",
     "recoveryAction", "unrepairable", "computeMajor", "mig", "linksDown", "inforom", "powerUnreadable"}
        \cup (Nvlink5 \ {"symbolErrors"})
HealthFields == HealthStates \cup Nvlink5 \cup HealthCounters
TotalsOf == {NvlinkErrorTotals[i] : i \in 1..Len(NvlinkErrorTotals)}
PolicyCounters == {"dbeDevice", "pcieReplays"} \cup TotalsOf
PolicyStates == {"retiredSBE", "retiredDBE", "temperature", "powerMW", "powerLimitMW"}
PolicyFields == PolicyStates \cup PolicyCounters
DeviceFields == {"fabricState", "fabricStatus", "healthMask"}

\* The fields of the two tables are fields of their own, each once; 0 stands
\* for the node.
ASSUME NamesAssumption ==
    /\ 0 \notin GPUs
    /\ NvlinkErrorTotals \in Seq(STRING)
    /\ \A i, j \in 1..Len(NvlinkErrorTotals) : NvlinkErrorTotals[i] = NvlinkErrorTotals[j] => i = j
    /\ TotalsOf \cap ({"dbeDevice", "pcieReplays"} \cup PolicyStates \cup HealthCounters) = {}
    /\ NvlinkErrorCounters \cap ({"thermal", "power", "dbeDevice", "pcieReplays", "recovery"} \cup HealthStates) = {}

\* Counters count, and intervals are numbers of polls.
ASSUME CountersAssumption ==
    /\ \A f \in HealthCounters \cup PolicyCounters : Values[f] \subseteq Nat /\ Healthy[f] \in Nat
    /\ MaxUint32 \in Nat /\ Renotify \in Nat

\* The values of a healthy GPU are within the limits of every rule.
ASSUME HealthyAssumption ==
    /\ \A f \in {"dbeVolatile", "retiredPending", "retiredSBE", "retiredDBE", "remapFailure", "remapUncorrectable",
                 "recoveryAction", "unrepairable", "linksDown", "powerUnreadable", "recoverySucceeded", "recoveryFailed"} :
           Healthy[f] = 0
    /\ ~effectiveBERExceeded(berParts(Healthy["effectiveBER"]))
    /\ \A floor \in {238, 255} : ~symbolBERExceeded(berParts(Healthy["symbolBER"]), floor)
    /\ Healthy["temperature"] \in 0..100
    /\ Healthy["powerMW"] \in Nat /\ Healthy["powerLimitMW"] \in Nat
    /\ Healthy["powerMW"] \div 1000 <= 250 /\ Healthy["powerMW"] \div 1000 <= Healthy["powerLimitMW"] \div 1000
    /\ Healthy["fabricState"] = "COMPLETED" /\ Healthy["fabricStatus"] = "SUCCESS"
    /\ fabricHealthMaskFaults(Healthy["healthMask"]) = {}

\* What the checks read, and their counters.
FieldsOf == [health |-> HealthFields, policies |-> PolicyFields, devices |-> DeviceFields, xid |-> {"registers"}]
CountersOf == [health |-> HealthCounters, policies |-> PolicyCounters, devices |-> {}, xid |-> {}]

PolicySignals == {"NvidiaPageRetirement", "NvidiaThermalError", "NvidiaPowerError"}
KeysOf == [health |-> WarnCodes, policies |-> PolicySignals, devices |-> {}, xid |-> {}]

VARIABLES
    check,      \* the check this behaviour follows
    hw, lost,   \* the GPUs: the values of their fields, and which fell off the bus
    changes,    \* how often the hardware has changed
    baselines,  \* Health.baselines, Policies.baselines
    notified,   \* levelReports: the age of the last report, or None
    inforomAt, inforom,
    sampled,    \* the readings of a poll of Policies, between read and evaluate
    threshold,  \* Policies.powerThresholdWatts
    fabricWarnings, \* the tracked set of statuses and its age
    xset,       \* XIDs: whether set, missing, the age of the last registration
    registered, \* the GPUs registered with the event set in the driver
    unsupported, \* history: the GPUs that answered a registration with NOT_SUPPORTED
    lastSent,   \* XIDs.lastSent: the GPUs reported within policyRepeatFloor
    out,        \* the conditions of the last poll per GPU (0: the node), with what is
                \* known of the counters and of MIG mode at that moment
    fresh,      \* history: per counter, it grew since the last completed poll
    steady      \* history: the last completed poll read it, and no reset since

healthVars == <<inforomAt, inforom>>
policyVars == <<sampled, threshold>>
xidVars == <<xset, registered, unsupported, lastSent>>
histVars == <<fresh, steady>>
hwVars == <<check, hw, lost, changes>>
vars == <<hwVars, baselines, notified, healthVars, policyVars, fabricWarnings, xidVars, out, histVars>>

Older(age, cap) == IF age = None \/ age = cap THEN age ELSE age + 1
Quiet ==
    [conds |-> [g \in GPUs \cup {0} |-> {}], real |-> [g \in GPUs |-> {}], owed |-> [g \in GPUs |-> {}], blind |-> FALSE]

-----------------------------------------------------------------------------
(* Readings *)

\* A run of a check reads every GPU.  Reads may fail, and the GPUs' handles; a
\* GPU that turns out to be lost has no readings at all.
Handle == "handle"
Ret(g, f, failed) == IF {f, Handle} \cap failed # {} THEN "NOT_SUPPORTED" ELSE "SUCCESS"
Read(g, f, failed) == observe(hw[g][f], Ret(g, f, failed))

\* readGPUHealth: the NVLink5 fields need the compute capability, links are
\* not read on a GPU in MIG mode, power that cannot be read is a reading, the
\* InfoROM is only validated when that is due.
readGPUHealth(g, failed, validate) ==
    [f \in HealthFields |->
        LET mig == Read(g, "mig", failed)
            r == Read(g, f, failed)
        IN  CASE f \in Nvlink5 /\ "computeMajor" \in failed -> [ok |-> FALSE, value |-> 0]
              [] f = "linksDown" /\ mig.ok /\ mig.value = 1 -> [ok |-> FALSE, value |-> 0]
              [] f = "powerUnreadable" -> [r EXCEPT !.ok = Handle \notin failed]
              [] f = "inforom" /\ ~validate -> [ok |-> FALSE, value |-> 0]
              [] OTHER -> r]

\* readGPU of policy.go: the enforced limit only when no threshold is set.
readPolicyGPU(g, failed, readLimit) ==
    [f \in PolicyFields |->
        IF f = "powerLimitMW" /\ ~readLimit THEN [ok |-> FALSE, value |-> 0] ELSE Read(g, f, failed)]

\* levelReports.report
Over(l) == l.observed /\ l.over
report(age, l) == Over(l) /\ (age = None \/ age >= Renotify)
Tracked(age, l) ==
    IF ~l.observed THEN age ELSE IF ~l.over THEN None ELSE IF report(age, l) THEN 0 ELSE age

\* A poll is completed with these conditions; readable[g] are the counters it
\* read of a GPU.  A counter that grew since the last completed poll is real,
\* and is owed a report if both polls read it with no reset in between.
Completed(conds, readable, blind) ==
    LET real(g) == {f \in CountersOf[check] : fresh[g][f]}
        owed(g) == {f \in real(g) : f \in readable[g] /\ steady[g][f]}
    IN  /\ out' = [conds |-> conds, real |-> [g \in GPUs |-> real(g)], owed |-> [g \in GPUs |-> owed(g)], blind |-> blind]
        /\ fresh' = [g \in GPUs |-> [f \in CountersOf[check] |-> FALSE]]
        /\ steady' = [g \in GPUs |-> [f \in CountersOf[check] |-> f \in readable[g]]]

-----------------------------------------------------------------------------
(* The polls *)

\* Health.evaluate: the conditions of a sample, with the latest result of the
\* InfoROM check, how the counters grew and the levels of the warnings.
HealthReport(sample, rom, grown, levels) ==
    LET anyMIG == \E g \in GPUs \ lost : sample[g].mig.ok /\ sample[g].mig.value = 1
        fatals(g) == HealthFatals(sample[g], anyMIG, {f \in NvlinkErrorCounters : grown[g][f].n > 0})
        warnings(g) == {Cond("DCGMHealthCodeWarning", c, "") : c \in {k \in WarnCodes : report(notified[g][k], levels[g][k])}}
    IN  /\ inforom' = rom
        /\ baselines' = [g \in GPUs |-> [f \in HealthCounters |-> IF g \in lost THEN None ELSE grown[g][f].base]]
        /\ notified' = [g \in GPUs |-> [k \in WarnCodes |->
               IF g \in lost THEN notified[g][k] ELSE Tracked(notified[g][k], levels[g][k])]]
        /\ Completed([g \in GPUs \cup {0} |->
                          IF g = 0 THEN {} ELSE IF g \in lost THEN lostGPU ELSE fatals(g) \cup warnings(g)],
                     [g \in GPUs |-> {f \in HealthCounters : g \notin lost /\ sample[g][f].ok}],
                     \E g \in GPUs : g \in lost \/ ~sample[g].mig.ok)
        /\ UNCHANGED <<hwVars, policyVars, fabricWarnings, xidVars>>
HealthEvaluate(sample, rom) ==
    \E grown \in {[g \in GPUs |-> [f \in HealthCounters |-> grew(baselines[g][f], sample[g][f])]]} :
    \E levels \in {[g \in GPUs |-> HealthLevels(sample[g], grown[g].thermal, grown[g].power, rom[g])]} :
        HealthReport(sample, rom, grown, levels)

\* Health.Poll reads every GPU, the InfoROMs when that is due.
ValidateInforom == inforomAt = None \/ inforomAt >= InforomInterval
HealthPoll(failed) ==
    /\ check = "health"
    /\ \E sample \in {[g \in GPUs |-> readGPUHealth(g, failed[g], ValidateInforom)]} :
           HealthEvaluate(sample, [g \in GPUs |->
               IF ~ValidateInforom THEN inforom[g]
               ELSE IF g \in lost THEN [ok |-> FALSE, value |-> 0] ELSE sample[g].inforom])
    /\ inforomAt' = IF ValidateInforom THEN 0 ELSE inforomAt

\* Policies.Poll reads the signals ...
PolicyRead(failed) ==
    /\ check = "policies" /\ sampled = {}
    /\ sampled' = {[gpus |-> [g \in GPUs |-> readPolicyGPU(g, failed[g], threshold = 0)], lost |-> lost]}
    /\ out' = Quiet
    /\ UNCHANGED <<hwVars, baselines, notified, healthVars, threshold, fabricWarnings, xidVars, histVars>>

\* Mutant: an enforced limit that was not read counts as zero.
power_NoLimit(s) ==
    LET limit == IF threshold = 0 THEN s.powerLimitMW.value \div 1000 ELSE threshold
    IN  [observed |-> s.powerMW.ok, over |-> s.powerMW.value \div 1000 > limit]
\* Policies.power: whole watts against the threshold in force, or the enforced
\* limit, if that was read.
power(s) ==
    LET limit == IF threshold = 0 THEN s.powerLimitMW.value \div 1000 ELSE threshold
    IN  [observed |-> s.powerMW.ok /\ (threshold # 0 \/ s.powerLimitMW.ok),
         over |-> s.powerMW.value \div 1000 > limit]

PolicyLevels(s) ==
    [NvidiaPageRetirement |-> [observed |-> s.retiredSBE.ok /\ s.retiredDBE.ok,
                               over |-> s.retiredSBE.value + s.retiredDBE.value > 10],
     NvidiaThermalError |-> [observed |-> s.temperature.ok, over |-> s.temperature.value > 100],
     NvidiaPowerError |-> power(s)]

\* ... and evaluates them: a counter that grew is reported, of the NVLink
\* totals only the first.
PolicyEvaluate ==
    \E s \in sampled :
      LET grown == [g \in GPUs |-> [f \in PolicyCounters |-> policyGrew(baselines[g][f], s.gpus[g][f], MaxUint32)]]
          levels == [g \in GPUs |-> PolicyLevels(s.gpus[g])]
          nvlink(g) == {i \in 1..Len(NvlinkErrorTotals) : grown[g][NvlinkErrorTotals[i]].n > 0}
          conds(g) ==
              When(grown[g].dbeDevice.n > 0, Cond("NvidiaDoubleBitError", 0, ""))
              \cup {Cond("NvidiaNVLinkError", i, "") : i \in {k \in nvlink(g) : \A j \in nvlink(g) : k <= j}}
              \cup {Cond(k, 0, "") : k \in {p \in PolicySignals : report(notified[g][p], levels[g][p])}}
              \cup When(grown[g].pcieReplays.n > 0, Cond("NvidiaPCIeError", 0, ""))
      IN  /\ sampled' = {}
          /\ baselines' = [g \in GPUs |-> [f \in PolicyCounters |-> IF g \in s.lost THEN None ELSE grown[g][f].base]]
          /\ notified' = [g \in GPUs |-> [k \in PolicySignals |->
                 IF g \in s.lost THEN notified[g][k] ELSE Tracked(notified[g][k], levels[g][k])]]
          /\ Completed([g \in GPUs \cup {0} |-> IF g = 0 THEN {} ELSE IF g \in s.lost THEN lostGPU ELSE conds(g)],
                       [g \in GPUs |-> {f \in PolicyCounters :
                            g \notin s.lost /\ s.gpus[g][f].ok /\ s.gpus[g][f].value <= MaxUint32}],
                       FALSE)
          /\ UNCHANGED <<hwVars, healthVars, threshold, fabricWarnings, xidVars>>

\* SetPowerThresholdWatts, at any time.
SetPowerThreshold ==
    /\ check = "policies"
    /\ threshold' \in {0, 250} \ {threshold}
    /\ out' = Quiet
    /\ UNCHANGED <<hwVars, baselines, notified, healthVars, sampled, fabricWarnings, xidVars, histVars>>

\* SuppressRepeatedWarnings: the selected warnings are kept when their set
\* changed or the interval has passed; everything else passes.
Selected(conds) == {c \in conds : c[1] = "FabricManagerNotRunningWarning"}
SuppressRepeatedWarnings(conds) ==
    LET key == Selected(conds)
        keep == key # fabricWarnings.key \/ fabricWarnings.age >= Renotify
    IN  IF key = {} THEN [out |-> conds, tracker |-> [key |-> {}, age |-> None]]
        ELSE IF keep THEN [out |-> conds, tracker |-> [key |-> key, age |-> 0]]
        ELSE [out |-> conds \ key, tracker |-> fabricWarnings]

\* Devices.readGPU and Classify.  A driver without the fabric call reads as
\* NvmlTooOld; a handle or a fabric that cannot be read says nothing.
GpuFabric(g, failed, fabricCall) ==
    IF g \in lost THEN lostGPU
    ELSE IF failed # {} THEN {}
    ELSE IF ~fabricCall THEN ClassifyFabric({NvmlTooOld}, {})
    ELSE ClassifyFabric({fabricManagerStatus(hw[g].fabricState, hw[g].fabricStatus)}, {hw[g].healthMask})

\* Devices.evaluate: the counts are compared unless a GPU is lost; the number
\* of device files, and of GPUs expected, may be unknown.
DevicesPoll(failed, fabricCall, files, expected) ==
    LET count == Cardinality(GPUs)
        node == IF lost # {} THEN {} ELSE ClassifyCounts(count, files, expected)
        fabric == UNION {Selected(GpuFabric(g, failed[g], fabricCall)) : g \in GPUs}
        s == SuppressRepeatedWarnings(fabric)
    IN  /\ check = "devices"
        /\ fabricWarnings' = s.tracker
        /\ Completed([g \in GPUs \cup {0} |->
                          IF g = 0 THEN node \cup s.out ELSE GpuFabric(g, failed[g], fabricCall) \ fabric],
                     [g \in GPUs |-> {}], FALSE)
        /\ UNCHANGED <<hwVars, baselines, notified, healthVars, policyVars, xidVars>>

\* A poll whose run is stuck, or that cannot count the GPUs, changes nothing.
PollFails ==
    /\ check \in {"health", "policies", "devices"}
    /\ out' = Quiet
    /\ sampled' = {}
    /\ UNCHANGED <<hwVars, baselines, notified, healthVars, threshold, fabricWarnings, xidVars, histVars>>

-----------------------------------------------------------------------------
(* XID events *)

\* registerXIDEvents with the GPUs to try: hw says what a registration returns.
Registering == IF xset.set THEN xset.missing ELSE GPUs
Returning(ret) == {g \in Registering : hw[g].registers = ret}
NeedsRegister == ~xset.set \/ (xset.missing # {} /\ xset.age >= RetryInterval)

\* Mutant: a GPU that failed to register is taken for one without XID events.
Missing_None == {}
\* A GPU is tried again unless it was registered or has no critical XID events.
Missing == Registering \ (Returning("SUCCESS") \cup Returning("NOT_SUPPORTED"))

\* register: a run that ends in time, or that gets stuck, is dropped, and may
\* still register GPUs with the set it was given behind the check's back.
XidRegister ==
    /\ check = "xid" /\ NeedsRegister
    /\ \/ /\ xset' = [set |-> TRUE, missing |-> Missing, age |-> 0]
          /\ registered' = registered \cup Returning("SUCCESS")
          /\ unsupported' = unsupported \cup Returning("NOT_SUPPORTED")
       \/ /\ UNCHANGED <<xset, unsupported>>
          /\ \E late \in SUBSET (IF xset.set THEN Returning("SUCCESS") ELSE {}) : registered' = registered \cup late
    /\ out' = Quiet
    /\ UNCHANGED <<hwVars, baselines, notified, healthVars, policyVars, fabricWarnings, lastSent, histVars>>

\* Wait: a critical XID of a registered GPU, unless that GPU was reported
\* within policyRepeatFloor.
XidEvent(g, xid) ==
    /\ check = "xid" /\ xset.set /\ ~NeedsRegister /\ g \in registered
    /\ out' = IF g \in lastSent THEN Quiet ELSE [Quiet EXCEPT !.conds[g] = ClassifyXid(xid)]
    /\ lastSent' = lastSent \cup {g}
    /\ UNCHANGED <<hwVars, baselines, notified, healthVars, policyVars, fabricWarnings, xset, registered, unsupported, histVars>>

-----------------------------------------------------------------------------
(* Time and the hardware *)

\* The time between two polls passes.
Tick ==
    /\ sampled = {}
    /\ inforomAt' = Older(inforomAt, InforomInterval)
    /\ notified' = [g \in GPUs |-> [k \in KeysOf[check] |-> Older(notified[g][k], Renotify)]]
    /\ fabricWarnings' = [fabricWarnings EXCEPT !.age = Older(@, Renotify)]
    /\ xset' = [xset EXCEPT !.age = Older(@, RetryInterval)]
    /\ lastSent' = {}
    /\ out' = Quiet
    /\ UNCHANGED <<hwVars, baselines, inforom, policyVars, registered, unsupported, histVars>>

\* A field of a GPU changes; a counter that drops has been reset.
HardwareChange(g, f, v) ==
    /\ changes < MaxChanges /\ sampled = {} /\ v # hw[g][f]
    /\ hw' = [hw EXCEPT ![g][f] = v]
    /\ changes' = changes + 1
    /\ fresh' = IF f \in CountersOf[check] /\ v > hw[g][f] THEN [fresh EXCEPT ![g][f] = TRUE] ELSE fresh
    /\ steady' = IF f \in CountersOf[check] /\ v < hw[g][f] THEN [steady EXCEPT ![g][f] = FALSE] ELSE steady
    /\ out' = Quiet
    /\ UNCHANGED <<check, lost, baselines, notified, healthVars, policyVars, fabricWarnings, xidVars>>

\* A GPU falls off the bus, or comes back.
HardwareLost(g) ==
    /\ changes < MaxChanges /\ sampled = {}
    /\ lost' = IF g \in lost THEN lost \ {g} ELSE lost \cup {g}
    /\ changes' = changes + 1
    /\ out' = Quiet
    /\ UNCHANGED <<check, hw, baselines, notified, healthVars, policyVars, fabricWarnings, xidVars, histVars>>

ChecksInit ==
    /\ check \in {"health", "policies", "devices", "xid"}
    /\ hw = [g \in GPUs |-> [f \in FieldsOf[check] |-> Healthy[f]]]
    /\ lost = {} /\ changes = 0
    /\ baselines = [g \in GPUs |-> [f \in CountersOf[check] |-> None]]
    /\ notified = [g \in GPUs |-> [k \in KeysOf[check] |-> None]]
    /\ inforomAt = None /\ inforom = [g \in GPUs |-> [ok |-> FALSE, value |-> 0]]
    /\ sampled = {} /\ threshold = 0
    /\ fabricWarnings = [key |-> {}, age |-> None]
    /\ xset = [set |-> FALSE, missing |-> {}, age |-> None] /\ registered = {} /\ unsupported = {} /\ lastSent = {}
    /\ out = Quiet
    /\ fresh = [g \in GPUs |-> [f \in CountersOf[check] |-> FALSE]]
    /\ steady = [g \in GPUs |-> [f \in CountersOf[check] |-> FALSE]]

\* The reads that fail in one poll, of the check's fields or of handles.
FailedReads == [GPUs -> {F \in Failing : F \subseteq {Handle} \cup FieldsOf[check]}]

Counts == {{}, {Cardinality(GPUs)}, {Cardinality(GPUs) + 1}}
ChecksNext ==
    \/ \E failed \in FailedReads :
           \/ HealthPoll(failed)
           \/ PolicyRead(failed)
           \/ \E fabricCall \in BOOLEAN, files, expected \in Counts : DevicesPoll(failed, fabricCall, files, expected)
    \/ PolicyEvaluate \/ SetPowerThreshold
    \/ PollFails
    \/ XidRegister
    \/ \E g \in GPUs, xid \in Xids : XidEvent(g, xid)
    \/ Tick
    \/ \E g \in GPUs : HardwareLost(g) \/ \E f \in FieldsOf[check] : \E v \in Values[f] : HardwareChange(g, f, v)

ChecksSpec == ChecksInit /\ [][ChecksNext]_vars

-----------------------------------------------------------------------------
(* Properties *)

Reading == [ok : BOOLEAN, value : Nat]
ChecksTypeOK ==
    /\ check \in DOMAIN FieldsOf /\ lost \subseteq GPUs /\ changes \in 0..MaxChanges
    /\ \A g \in GPUs : \A f \in FieldsOf[check] : hw[g][f] \in Values[f] \cup {Healthy[f]}
    /\ \A g \in GPUs : \A f \in CountersOf[check] : baselines[g][f] \in Values[f] \cup {Healthy[f], None}
    /\ notified \in [GPUs -> [KeysOf[check] -> None..Renotify]]
    /\ inforomAt \in None..InforomInterval /\ \A g \in GPUs : inforom[g] \in Reading
    /\ fabricWarnings.age \in None..Renotify
    /\ xset.missing \subseteq GPUs /\ xset.age \in None..RetryInterval
    /\ registered \subseteq GPUs /\ lastSent \subseteq GPUs

\* What the conditions c of a GPU say of the growth of counter f.
Reports(c, f) ==
    CASE f = "thermal" -> Cond("DCGMHealthCodeWarning", 10, "") \in c
      [] f = "power" -> Cond("DCGMHealthCodeWarning", 12, "") \in c
      [] f = "dbeDevice" -> Cond("NvidiaDoubleBitError", 0, "") \in c
      [] f = "pcieReplays" -> Cond("NvidiaPCIeError", 0, "") \in c
      [] f \in TotalsOf -> \E i \in 1..Len(NvlinkErrorTotals) :
             NvlinkErrorTotals[i] = f /\ Cond("NvidiaNVLinkError", i, "") \in c
      [] OTHER -> HealthFatal(71, f) \in c

\* Growth of f on g has been reported: in this poll, for a warning within the
\* re-notification interval, for an NVLink total by any of them.
Answered(g, f) ==
    \/ Reports(out.conds[g], f)
    \/ f \in TotalsOf /\ \E t \in TotalsOf : Reports(out.conds[g], t)
    \/ f = "thermal" /\ check = "health" /\ notified[g][10] # None
    \/ f = "power" /\ check = "health" /\ notified[g][12] # None

\* The counter rules of health.go and policy.go: across failed reads, stuck
\* polls, resets, GPUs that are lost and come back, and values that do not fit,
\* a counter is reported only if it really grew since the last completed poll,
\* and growth that two polls in a row could read is never missed.
CountersExact ==
    \A g \in GPUs : \A f \in CountersOf[check] :
        /\ Reports(out.conds[g], f) => f \in out.real[g]
        /\ f \in out.owed[g] => Answered(g, f)

\* No fault but perhaps the growth of a counter.
Sound(g) ==
    /\ g \notin lost /\ inforom[g].value = 0
    /\ \A f \in FieldsOf[check] \ CountersOf[check] : hw[g][f] = Healthy[f]

\* A GPU with no fault is never reported, whatever other reads fail or other
\* GPUs do; and links that are down are not a fault while some GPU is known to
\* be in MIG mode (health.go, evaluate).
HealthyGpuIsQuiet ==
    /\ \A g \in GPUs : check # "xid" /\ Sound(g) /\ out.real[g] = {} => out.conds[g] = {}
    /\ (check = "health" /\ ~out.blind /\ \E g \in GPUs : hw[g].mig = 1)
           => \A g \in GPUs : HealthFatal(14, "") \notin out.conds[g]

\* Every GPU is registered for XID events, is remembered for another attempt, or
\* has told that it has no critical XID events, also when a registration fails or
\* gets stuck (xid.go, register and registerXIDEvents).
XidsAccounted == (check = "xid" /\ xset.set) => GPUs = registered \cup xset.missing \cup unsupported
=============================================================================
