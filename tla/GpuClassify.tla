---------------------------- MODULE GpuClassify ----------------------------
(***************************************************************************)
(* How readings of the GPUs become conditions: package classify, which     *)
(* both readers share, and the rules of nvml/health.go and nvml/policy.go. *)
(* Conditions are tuples <<reason, code, severity, detail>>; of a message  *)
(* only what distinguishes two conditions of one reason is kept.           *)
(***************************************************************************)
EXTENDS Integers, Sequences, FiniteSets

\* x when b holds.
When(b, x) == IF b THEN {x} ELSE {}

\* The reasons of pkg/reasons whose default severity is Fatal.
FatalReasons ==
    {"NvidiaXIDError", "NvidiaFabricError", "FabricManagerNotRunning", "NvidiaDoubleBitError",
     "NvidiaNVLinkError", "NvidiaDeviceCountMismatch", "DCGMError", "DCGMHealthCodeFatal",
     "DCGMDiagnosticFailure", "NvidiaDriverUnresponsive"}
Severity(reason) == IF reason \in FatalReasons THEN "Fatal" ELSE "Warning"
Cond(reason, code, detail) == <<reason, code, Severity(reason), detail>>

WellKnownXidCodes ==
    {46, 48, 54, 62, 63, 64, 74, 79, 95, 109, 110, 119, 120, 136, 140, 142, 143, 151, 155, 156, 158}

\* dcgmFabricManagerStatus_t, DCGM_ST_BADPARAM and the lowest blank value,
\* scaled down to a number no status reaches.
NotSupported == 0
NotStarted == 1
InProgress == 2
Success == 3
Failure == 4
Unrecognized == 5
NvmlTooOld == 6
dcgmStatusBadParam == -1
dcgmInt64Blank == 2 ^ 20
isInt64Blank(v) == v >= dcgmInt64Blank

\* (mask >> shift) & widthMask
SubField(mask, shift, width) == (mask \div 2 ^ shift) % (width + 1)

\* The shifts of the sub-fields in a fault state: the boolean ones when True,
\* the configuration one from 2 on.
fabricHealthMaskFaults(mask) ==
    {shift \in {0, 2, 4, 6} : SubField(mask, shift, 3) = 1}
        \cup {shift \in {8} : SubField(mask, shift, 15) >= 2}

\* The fabric part of NormalizedSignals; an optional value is a set of at most one.
FabricHealth(m) == When(~isInt64Blank(m) /\ fabricHealthMaskFaults(m) # {}, Cond("NvidiaFabricError", m, ""))
FabricStatus(st) ==
    CASE isInt64Blank(st) \/ st \in {Success, NotSupported, InProgress, NotStarted} -> {}
      [] st \in {Unrecognized, NvmlTooOld, dcgmStatusBadParam} -> {Cond("FabricManagerNotRunningWarning", st, "")}
      [] OTHER -> {Cond("FabricManagerNotRunning", st, "")}
ClassifyFabric(status, mask) == UNION ({FabricHealth(m) : m \in mask} \cup {FabricStatus(st) : st \in status})

\* One XID.
ClassifyXid(xid) ==
    {Cond(IF xid \in WellKnownXidCodes THEN "NvidiaXIDError" ELSE "NvidiaXIDWarning", xid, "")}

\* The GPU counts: readers' GPUs, device files, and what the instance type has.
ClassifyCounts(count, files, expected) ==
    {Cond("NvidiaDeviceCountMismatch", f, "files") : f \in {x \in files : x # count}}
        \cup {Cond("NvidiaDeviceCountMismatch", e, "expected") : e \in {x \in expected : count < x}}

\* The policy signals, each a reason of its own.
ClassifyPolicy(signal) == {Cond(signal, 0, "")}

\* A GPU that has fallen off the bus is XID 79.
lostGPU == ClassifyXid(79)

-----------------------------------------------------------------------------
(* Readings (nvml/policy.go, nvml/returncode.go) *)

\* outcome: what a check does with a return code.
Outcome(ret) ==
    CASE ret = "SUCCESS" -> "Observed"
      [] ret = "NOT_SUPPORTED" -> "NotObserved"
      [] ret = "FUNCTION_NOT_FOUND" -> "FunctionMissing"
      [] ret = "GPU_IS_LOST" -> "GPULost"
      [] OTHER -> "Unexpected"

\* gpuReader.observe: a reading that failed is zero and not observed.
observe(value, ret) == [ok |-> Outcome(ret) = "Observed", value |-> IF Outcome(ret) = "Observed" THEN value ELSE 0]

None == -1

\* Mutant: any change of a counter is growth.
grew_Changed(base, r) ==
    [n |-> IF r.ok /\ base # None /\ r.value # base THEN 1 ELSE 0,
     observed |-> r.ok /\ base # None, base |-> IF r.ok THEN r.value ELSE None]
\* Health.grew: the first reading is a baseline, a failed read clears it, a
\* drop is a counter reset.
grew(base, r) ==
    [n |-> IF r.ok /\ base # None /\ r.value > base THEN r.value - base ELSE 0,
     observed |-> r.ok /\ base # None,
     base |-> IF r.ok THEN r.value ELSE None]

\* Policies.grew: values above MaxUint32 clear the baseline, too.
policyGrew(base, r, maxUint32) == grew(base, [r EXCEPT !.ok = @ /\ r.value <= maxUint32])

\* fabricManagerStatus: NVML's state and status in DCGM's terms.
fabricManagerStatus(state, status) ==
    CASE state = "NOT_SUPPORTED" -> NotSupported
      [] state = "NOT_STARTED" -> NotStarted
      [] state = "IN_PROGRESS" -> InProgress
      [] state = "COMPLETED" -> IF status = "SUCCESS" THEN Success ELSE Failure
      [] OTHER -> Unrecognized

-----------------------------------------------------------------------------
(* Bit error rates (nvml/health.go) *)

\* NVLINK_BER packs the exponent in 8 bits and the mantissa in 4 above them.
berParts(v) == [m |-> (v \div 256) % 16, e |-> v % 256]

effectiveBERExceeded(b) ==
    /\ ~(b.m = 15 /\ b.e = 255)
    /\ CASE b.e = 12 -> b.m > 1
         [] b.e = 13 -> b.m > 10
         [] OTHER -> b.e < 12
symbolBERExceeded(b, floor) == b.m # 0 /\ b.e < floor

-----------------------------------------------------------------------------
(* Health.evaluate *)

Blackwell(s) == s.computeMajor.ok /\ s.computeMajor.value >= 10
HealthFatal(code, detail) == Cond("DCGMHealthCodeFatal", code, detail)

\* The fatal rules for the sample s of a GPU; errors are the NVLink error
\* counters that grew.
HealthFatals(s, anyMIG, errors) ==
    LET over(r, limit) == r.ok /\ r.value > limit
        total == s.retiredSBE.value + s.retiredDBE.value
        action == IF s.recoveryAction.ok THEN s.recoveryAction.value ELSE 0
    IN  When(over(s.dbeVolatile, 0), HealthFatal(4, ""))
        \cup (IF total >= 63 THEN {HealthFatal(7, "")}
              ELSE When(over(s.retiredDBE, 15), HealthFatal(8, "")))
        \cup When(~anyMIG /\ over(s.linksDown, 0), HealthFatal(14, ""))
        \cup {HealthFatal(71, f) : f \in errors}
        \cup When(Blackwell(s) /\ over(s.recoveryFailed, 0), HealthFatal(71, "recovery"))
        \cup When(s.effectiveBER.ok /\ effectiveBERExceeded(berParts(s.effectiveBER.value)), HealthFatal(119, ""))
        \cup When(s.symbolBER.ok /\ symbolBERExceeded(berParts(s.symbolBER.value), IF Blackwell(s) THEN 238 ELSE 255),
                  HealthFatal(121, ""))
        \cup When(over(s.remapFailure, 0), HealthFatal(80, ""))
        \cup When(over(s.unrepairable, 0), HealthFatal(52, ""))
        \cup When(action = 1, HealthFatal(125, ""))
        \cup When(action = 2, HealthFatal(126, ""))
        \cup When(action = 4, HealthFatal(128, ""))

WarnCodes == {6, 9, 10, 11, 12, 71, 127, 132}

\* The warning rules: whether the signal was observed, and is over its limit.
HealthLevels(s, thermal, power, inforom) ==
    [code \in WarnCodes |->
        CASE code = 6 -> [observed |-> s.retiredPending.ok, over |-> s.retiredPending.value # 0]
          [] code = 9 -> [observed |-> inforom.ok, over |-> inforom.value # 0]
          [] code = 10 -> [observed |-> thermal.observed, over |-> thermal.n > 0]
          [] code = 11 -> [observed |-> s.powerUnreadable.ok, over |-> s.powerUnreadable.value # 0]
          [] code = 12 -> [observed |-> power.observed, over |-> power.n > 0]
          [] code = 71 -> [observed |-> Blackwell(s) /\ s.recoverySucceeded.ok, over |-> s.recoverySucceeded.value > 0]
          [] code = 127 -> [observed |-> s.recoveryAction.ok, over |-> s.recoveryAction.value = 3]
          [] code = 132 -> [observed |-> s.remapUncorrectable.ok /\ s.computeMajor.ok,
                            over |-> s.computeMajor.value >= 8 /\ s.remapUncorrectable.value >= 512]]

=============================================================================
