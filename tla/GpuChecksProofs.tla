-------------------------- MODULE GpuChecksProofs --------------------------
(***************************************************************************)
(* For any GPUs, tables of counters, values and numbers of changes: the    *)
(* checks report growth of a counter exactly when it grew, and no GPU is   *)
(* forgotten by the registration for XID events.                           *)
(***************************************************************************)
EXTENDS GpuChecks, TLAPS, WellFoundedInduction

\* A table that has a member with a property has a first one.
LEMMA FirstOfSome ==
  ASSUME NEW T \in SUBSET Nat, T # {}
  PROVE  \E k \in T : \A j \in T : k <= j
<1> DEFINE R == {ss \in Nat \X Nat : ss[1] < ss[2]}
<1>1. IsWellFoundedOn(R, Nat)
  BY NatLessThanWellFounded DEF OpToRel
<1> HIDE DEF R
<1>2. PICK k \in T : \A j \in T : ~(<<j, k>> \in R)
  BY <1>1, WFMin, Zenon
<1>3. \A j \in T : ~(j < k)
  BY <1>2 DEF R
<1> QED
  BY <1>3

-----------------------------------------------------------------------------
(* XID events *)

XidInv ==
    /\ DOMAIN hw = GPUs
    /\ xset = [set |-> xset.set, missing |-> xset.missing, age |-> xset.age]
    /\ xset.missing \subseteq GPUs /\ registered \subseteq GPUs /\ unsupported \subseteq GPUs
    /\ xset.set => GPUs \subseteq registered \cup xset.missing \cup unsupported

\* Once the event set exists, a GPU that is not missing is registered or has no
\* XID events: a registration that ends removes just those from missing, a
\* stuck one leaves missing alone and can only register more.
LEMMA StepXid == XidInv /\ [ChecksNext]_vars => XidInv'
<1> SUFFICES ASSUME XidInv, [ChecksNext]_vars PROVE XidInv'
  OBVIOUS
<1>1. CASE XidRegister
  BY <1>1 DEF XidInv, XidRegister, Missing, Registering, Returning, hwVars
<1>2. CASE Tick
  BY <1>2 DEF XidInv, Tick, hwVars
<1>3. ASSUME NEW g \in GPUs, NEW f \in FieldsOf[check], NEW v \in Values[f], HardwareChange(g, f, v)
      PROVE  XidInv'
  BY <1>3 DEF XidInv, HardwareChange, xidVars
<1>4. ASSUME UNCHANGED <<hw, xset, registered, unsupported>> PROVE XidInv'
  BY <1>4 DEF XidInv
<1> QED
  BY <1>1, <1>2, <1>3, <1>4
  DEF ChecksNext, vars, hwVars, xidVars, HealthPoll, HealthEvaluate, HealthReport, PolicyRead, DevicesPoll, PolicyEvaluate,
      SetPowerThreshold, PollFails, XidEvent, HardwareLost

\* No event set exists when the check is made (NewXIDs).
LEMMA InitXid == ChecksInit => XidInv
  BY DEF ChecksInit, XidInv

\* Every GPU is registered for XID events, remembered for another attempt, or
\* has said that it has none, for any GPUs and any interval, also when
\* registrations fail or get stuck (register of xid.go).
THEOREM NoGpuForgotten == ChecksSpec => []XidsAccounted
<1>1. XidInv => XidsAccounted
  BY DEF XidInv, XidsAccounted
<1> QED
  BY <1>1, InitXid, StepXid, PTL DEF ChecksSpec

-----------------------------------------------------------------------------
(* What a poll says of the counters *)

\* Growth is what a reading adds to the baseline it is compared with.
LEMMA GrewMeansGrowth ==
  ASSUME NEW base \in Nat \cup {None}, NEW r \in Reading
  PROVE  /\ grew(base, r).n > 0 <=> r.ok /\ base # None /\ r.value > base
         /\ grew(base, r).observed <=> r.ok /\ base # None
         /\ grew(base, r).base = IF r.ok THEN r.value ELSE None
<1>1. r.ok \in BOOLEAN /\ r.value \in Nat
  BY DEF Reading
<1>2. grew(base, r).observed = (r.ok /\ base # None)
  BY DEF grew
<1>3. grew(base, r).n = IF r.ok /\ base # None /\ r.value > base THEN r.value - base ELSE 0
  BY DEF grew
<1>4. grew(base, r).base = IF r.ok THEN r.value ELSE None
  BY DEF grew
<1>5. grew(base, r).n > 0 <=> r.ok /\ base # None /\ r.value > base
  BY <1>1, <1>3 DEF None
<1>6. grew(base, r).observed <=> r.ok /\ base # None
  BY <1>2, Zenon
<1> QED
  BY <1>4, <1>5, <1>6

\* The same of Policies.grew, which takes a reading above its limit for none.
LEMMA PolicyGrewMeansGrowth ==
  ASSUME NEW base \in Nat \cup {None}, NEW r \in Reading, NEW limit \in Nat
  PROVE  /\ policyGrew(base, r, limit).n > 0 <=> r.ok /\ r.value <= limit /\ base # None /\ r.value > base
         /\ policyGrew(base, r, limit).base = IF r.ok /\ r.value <= limit THEN r.value ELSE None
<1> DEFINE q == [r EXCEPT !.ok = @ /\ r.value <= limit]
<1>1. q \in Reading /\ q.value = r.value /\ (q.ok <=> r.ok /\ r.value <= limit)
  BY DEF Reading
<1>2. policyGrew(base, r, limit) = grew(base, q)
  BY DEF policyGrew
<1> HIDE DEF q
<1> QED
  BY <1>1, <1>2, GrewMeansGrowth

\* The conditions of the warning codes that are due.
Warnings(ages, levels) ==
    {Cond("DCGMHealthCodeWarning", c, "") : c \in {k \in WarnCodes : report(ages[k], levels[k])}}

\* The fatal conditions: code 71 with the names of the counters that grew, and
\* others.
FatalsFor(fatals, errors) ==
    /\ \A e \in errors : HealthFatal(71, e) \in fatals
    /\ \A y \in fatals :
           \/ \E e \in errors : y = HealthFatal(71, e)
           \/ y = HealthFatal(71, "recovery")
           \/ \E code \in {4, 7, 8, 14, 119, 121, 80, 52, 125, 126, 128} : y = HealthFatal(code, "")

\* Of the health conditions, code 71 with the name of a counter says that it
\* grew, and a warning that its level is to be reported.
LEMMA HealthReports ==
  ASSUME NEW fatals, NEW errors \in SUBSET NvlinkErrorCounters, FatalsFor(fatals, errors),
         NEW ages, NEW levels, NEW f \in HealthCounters
  PROVE  LET c == fatals \cup Warnings(ages, levels) IN
         /\ f = "thermal" => (Reports(c, f) <=> report(ages[10], levels[10]))
         /\ f = "power" => (Reports(c, f) <=> report(ages[12], levels[12]))
         /\ f \in NvlinkErrorCounters => (Reports(c, f) <=> f \in errors)
<1> DEFINE c == fatals \cup Warnings(ages, levels)
           Codes == {4, 7, 8, 14, 119, 121, 80, 52, 125, 126, 128}
<1>a. ASSUME NEW y \in fatals
      PROVE  \/ \E e \in errors : y = HealthFatal(71, e)
             \/ y = HealthFatal(71, "recovery")
             \/ \E code \in Codes : y = HealthFatal(code, "")
  BY <1>a DEF FatalsFor
<1>b. ASSUME NEW e \in errors PROVE HealthFatal(71, e) \in fatals
  BY <1>b, Zenon DEF FatalsFor
<1>1. \A code \in Int : Cond("DCGMHealthCodeWarning", code, "") \notin fatals
  BY <1>a DEF HealthFatal, Cond
<1>2. \A code \in WarnCodes :
        Cond("DCGMHealthCodeWarning", code, "") \in Warnings(ages, levels) <=> report(ages[code], levels[code])
  BY DEF Warnings, Cond
<1>3. ASSUME NEW d \in NvlinkErrorCounters
      PROVE  HealthFatal(71, d) \in c <=> d \in errors
  <2>1. HealthFatal(71, d) \notin Warnings(ages, levels)
    BY DEF Warnings, HealthFatal, Cond
  <2>2. d # "recovery"
    BY NamesAssumption
  <2>3. HealthFatal(71, d) \in fatals => d \in errors
    <3>1. \A e : HealthFatal(71, d) = HealthFatal(71, e) => d = e
      BY DEF HealthFatal, Cond
    <3>2. ASSUME NEW code \in Codes PROVE HealthFatal(71, d) # HealthFatal(code, "")
      <4>1. HealthFatal(71, d)[2] = 71
        BY DEF HealthFatal, Cond
      <4>2. HealthFatal(code, "")[2] = code
        BY DEF HealthFatal, Cond
      <4>3. code # 71
        OBVIOUS
      <4> QED
        BY <4>1, <4>2, <4>3, Zenon
    <3> HIDE DEF Codes
    <3> QED
      BY <1>a, <2>2, <3>1, <3>2, Zenon
  <2> QED
    BY <1>b, <2>1, <2>3
<1>4. ASSUME f = "thermal" PROVE Reports(c, f) <=> report(ages[10], levels[10])
  <2>1. 10 \in WarnCodes /\ 10 \in Int
    BY DEF WarnCodes
  <2>2. Cond("DCGMHealthCodeWarning", 10, "") \in c <=> report(ages[10], levels[10])
    BY <1>1, <1>2, <2>1, Zenon
  <2> HIDE DEF c
  <2>3. f \notin TotalsOf
    BY NamesAssumption
  <2>4. Reports(c, f) <=> Cond("DCGMHealthCodeWarning", 10, "") \in c
    BY <1>4, <2>3 DEF Reports
  <2> QED
    BY <2>2, <2>4
<1>5. ASSUME f = "power" PROVE Reports(c, f) <=> report(ages[12], levels[12])
  <2>1. 12 \in WarnCodes /\ 12 \in Int
    BY DEF WarnCodes
  <2>2. Cond("DCGMHealthCodeWarning", 12, "") \in c <=> report(ages[12], levels[12])
    BY <1>1, <1>2, <2>1, Zenon
  <2> HIDE DEF c
  <2>3. f \notin TotalsOf
    BY NamesAssumption
  <2>4. Reports(c, f) <=> Cond("DCGMHealthCodeWarning", 12, "") \in c
    BY <1>5, <2>3 DEF Reports
  <2> QED
    BY <2>2, <2>4
<1>6. ASSUME f \in NvlinkErrorCounters PROVE Reports(c, f) <=> f \in errors
  <2>1. f \notin {"thermal", "power", "dbeDevice", "pcieReplays"} /\ f \notin TotalsOf
    BY <1>6, NamesAssumption DEF HealthCounters
  <2> HIDE DEF c
  <2>2. Reports(c, f) <=> HealthFatal(71, f) \in c
    BY <2>1 DEF Reports
  <2> QED
    BY <1>3, <1>6, <2>1, <2>2
<1> QED
  BY <1>4, <1>5, <1>6

\* Of the policy conditions, each reason is of one signal, and the code of an
\* NVLink error the place of its counter in the table.
LEMMA PolicyReports ==
  ASSUME NEW D \in SUBSET {Cond("NvidiaDoubleBitError", 0, "")},
         NEW first \in SUBSET (1..Len(NvlinkErrorTotals)),
         NEW signals \in SUBSET PolicySignals,
         NEW P \in SUBSET {Cond("NvidiaPCIeError", 0, "")}
  PROVE  LET c == D \cup {Cond("NvidiaNVLinkError", i, "") : i \in first} \cup {Cond(k, 0, "") : k \in signals} \cup P IN
         /\ Reports(c, "dbeDevice") <=> D # {}
         /\ Reports(c, "pcieReplays") <=> P # {}
         /\ \A i \in 1..Len(NvlinkErrorTotals) : Reports(c, NvlinkErrorTotals[i]) <=> i \in first
<1> DEFINE N == {Cond("NvidiaNVLinkError", i, "") : i \in first}
           S == {Cond(k, 0, "") : k \in signals}
           c == D \cup N \cup S \cup P
<1>1. \A k, i : Cond(k, i, "")[1] = k
  BY DEF Cond
<1>2. /\ \A x \in D : x[1] = "NvidiaDoubleBitError"
      /\ \A x \in P : x[1] = "NvidiaPCIeError"
      /\ \A x \in N : x[1] = "NvidiaNVLinkError"
      /\ \A x \in S : x[1] \in PolicySignals
  <2>1. (\A x \in D : x[1] = "NvidiaDoubleBitError") /\ (\A x \in P : x[1] = "NvidiaPCIeError")
    BY <1>1
  <2>2. \A x \in N : x[1] = "NvidiaNVLinkError"
    BY <1>1, Zenon
  <2>3. ASSUME NEW x \in S PROVE x[1] \in PolicySignals
    <3>1. PICK k \in signals : x = Cond(k, 0, "")
      BY <2>3, Zenon
    <3> QED
      BY <1>1, <3>1, k \in PolicySignals, Zenon
  <2> QED
    BY <2>1, <2>2, <2>3
<1>3. "dbeDevice" \notin TotalsOf /\ "pcieReplays" \notin TotalsOf
  BY NamesAssumption
<1>4. \A i, j : Cond("NvidiaNVLinkError", i, "") = Cond("NvidiaNVLinkError", j, "") => i = j
  BY DEF Cond
<1>5. ASSUME NEW i PROVE Cond("NvidiaNVLinkError", i, "") \in N <=> i \in first
  BY <1>4, Zenon
<1> HIDE DEF N, S
<1>6. PolicySignals \cap {"NvidiaDoubleBitError", "NvidiaPCIeError", "NvidiaNVLinkError"} = {}
  BY DEF PolicySignals
<1>7. Cond("NvidiaDoubleBitError", 0, "") \in c <=> D # {}
  BY <1>1, <1>2, <1>6
<1>8. Cond("NvidiaPCIeError", 0, "") \in c <=> P # {}
  BY <1>1, <1>2, <1>6
<1>9. ASSUME NEW i PROVE Cond("NvidiaNVLinkError", i, "") \in c <=> i \in first
  <2> DEFINE x == Cond("NvidiaNVLinkError", i, "")
  <2>1. x[1] = "NvidiaNVLinkError" /\ (x \in N <=> i \in first)
    BY <1>1, <1>5, Zenon
  <2> HIDE DEF x
  <2>2. x \notin D /\ x \notin P /\ x \notin S
    BY <1>2, <1>6, <2>1
  <2>3. x \in c <=> i \in first
    BY <2>1, <2>2
  <2> QED
    BY <2>3 DEF x
<1> HIDE DEF c
<1>10. Reports(c, "dbeDevice") <=> D # {}
  BY <1>3, <1>7 DEF Reports
<1>11. Reports(c, "pcieReplays") <=> P # {}
  BY <1>3, <1>8 DEF Reports
<1>12. ASSUME NEW i \in 1..Len(NvlinkErrorTotals) PROVE Reports(c, NvlinkErrorTotals[i]) <=> i \in first
  <2> DEFINE t == NvlinkErrorTotals[i]
  <2>1. t \in TotalsOf
    BY DEF TotalsOf
  <2>2. t \notin {"thermal", "power", "dbeDevice", "pcieReplays"}
    BY <2>1, NamesAssumption DEF HealthCounters
  <2>3. \A j \in 1..Len(NvlinkErrorTotals) : NvlinkErrorTotals[j] = t => j = i
    BY NamesAssumption
  <2>4. Reports(c, t) <=> \E j \in 1..Len(NvlinkErrorTotals) : NvlinkErrorTotals[j] = t /\ Cond("NvidiaNVLinkError", j, "") \in c
    <3> HIDE DEF t
    <3> QED
      BY <2>1, <2>2 DEF Reports
  <2> QED
    BY <1>9, <2>3, <2>4
<1> QED
  BY <1>10, <1>11, <1>12 DEF c, N, S

\* What is to hold of the conditions of a poll.
PollsRight == CountersExact /\ HealthyGpuIsQuiet

\* A poll without a result says nothing.
LEMMA QuietIsRight == out = Quiet => PollsRight
<1> SUFFICES ASSUME out = Quiet PROVE CountersExact /\ HealthyGpuIsQuiet
  BY DEF PollsRight
<1>1. \A g \in GPUs : out.conds[g] = {} /\ out.owed[g] = {}
  BY DEF Quiet
<1>2. \A f : ~Reports({}, f)
  BY DEF Reports
<1>3. CountersExact
  BY <1>1, <1>2 DEF CountersExact
<1>4. HealthyGpuIsQuiet
  BY <1>1 DEF HealthyGpuIsQuiet
<1> QED
  BY <1>3, <1>4

-----------------------------------------------------------------------------
(* What a poll says of a healthy GPU *)

\* A field that is not a counter is read as it is, or as zero.
StateReading(r, v) == r.ok \in BOOLEAN /\ r.value \in {0, v} /\ (r.ok => r.value = v)

\* readGPUHealth reads every state so, but for the power it only tries to read.
LEMMA HealthStateReading ==
  ASSUME NEW g \in GPUs, NEW f \in HealthStates \ {"powerUnreadable"}, NEW failed, NEW validate
  PROVE  StateReading(readGPUHealth(g, failed, validate)[f], hw[g][f])
<1> DEFINE nothing == [ok |-> FALSE, value |-> 0]
           r == Read(g, f, failed)
<1>1. StateReading(r, hw[g][f])
  BY DEF Read, observe, Outcome, Ret, StateReading
<1>2. StateReading(nothing, hw[g][f])
  BY DEF StateReading
<1>3. f \in HealthFields
  BY DEF HealthFields
<1>4. readGPUHealth(g, failed, validate)[f] \in {r, nothing}
  BY <1>3 DEF readGPUHealth
<1> HIDE DEF r, nothing
<1> QED
  BY <1>1, <1>2, <1>4

\* Of the power it keeps whether the call failed.
LEMMA PowerReading ==
  ASSUME NEW g \in GPUs, NEW failed, NEW validate
  PROVE  readGPUHealth(g, failed, validate)["powerUnreadable"].value \in {0, hw[g]["powerUnreadable"]}
<1> DEFINE r == Read(g, "powerUnreadable", failed)
<1>1. r = [ok |-> r.ok, value |-> r.value] /\ r.value \in {0, hw[g]["powerUnreadable"]}
  BY DEF Read, observe, Outcome, Ret
<1>2. "powerUnreadable" \in HealthFields
  BY DEF HealthFields, HealthStates
<1>3. readGPUHealth(g, failed, validate)["powerUnreadable"] = [r EXCEPT !.ok = Handle \notin failed]
  BY <1>2 DEF readGPUHealth, Nvlink5
<1> HIDE DEF r
<1> QED
  BY <1>1, <1>3

\* readGPU of the policies reads every state as it is, or as zero.
LEMMA PolicyStateReading ==
  ASSUME NEW g \in GPUs, NEW f \in PolicyStates, NEW failed, NEW limit
  PROVE  StateReading(readPolicyGPU(g, failed, limit)[f], hw[g][f])
<1> DEFINE nothing == [ok |-> FALSE, value |-> 0]
           r == Read(g, f, failed)
<1>1. StateReading(r, hw[g][f])
  BY DEF Read, observe, Outcome, Ret, StateReading
<1>2. StateReading(nothing, hw[g][f])
  BY DEF StateReading
<1>3. f \in PolicyFields
  BY DEF PolicyFields
<1>4. readPolicyGPU(g, failed, limit)[f] \in {r, nothing}
  BY <1>3 DEF readPolicyGPU
<1> HIDE DEF r, nothing
<1> QED
  BY <1>1, <1>2, <1>4

\* The sample of a GPU whose fields have healthy values.
HealthySample(s) ==
    /\ \A f \in HealthStates \ {"inforom", "powerUnreadable"} : StateReading(s[f], Healthy[f])
    /\ s["powerUnreadable"].value = 0

\* No fatal rule applies to a healthy sample, if no counter grew.
LEMMA HealthySampleIsNotFatal ==
  ASSUME NEW s, NEW mig, HealthySample(s)
  PROVE  HealthFatals(s, mig, {}) = {}
<1>1. ASSUME NEW f \in {"dbeVolatile", "retiredPending", "retiredSBE", "retiredDBE", "remapFailure", "remapUncorrectable",
                 "recoveryAction", "unrepairable", "linksDown", "recoverySucceeded", "recoveryFailed"}
      PROVE  s[f].value = 0
  <2>1. f \in HealthStates \ {"inforom", "powerUnreadable"} /\ Healthy[f] = 0
    BY HealthyAssumption DEF HealthStates, Nvlink5
  <2> QED
    BY <2>1 DEF HealthySample, StateReading
<1>2. /\ s.dbeVolatile.value = 0 /\ s.retiredSBE.value = 0 /\ s.retiredDBE.value = 0 /\ s.remapFailure.value = 0
      /\ s.recoveryAction.value = 0 /\ s.unrepairable.value = 0 /\ s.linksDown.value = 0 /\ s.recoveryFailed.value = 0
  BY <1>1
<1>3. ~(s.effectiveBER.ok /\ effectiveBERExceeded(berParts(s.effectiveBER.value)))
  <2>1. StateReading(s["effectiveBER"], Healthy["effectiveBER"])
    BY DEF HealthySample, HealthStates, Nvlink5
  <2> QED
    BY <2>1, HealthyAssumption DEF StateReading
<1>4. ~(s.symbolBER.ok /\ symbolBERExceeded(berParts(s.symbolBER.value), IF Blackwell(s) THEN 238 ELSE 255))
  <2>1. StateReading(s["symbolBER"], Healthy["symbolBER"])
    BY DEF HealthySample, HealthStates, Nvlink5
  <2> QED
    BY <2>1, HealthyAssumption DEF StateReading
<1>5. /\ ~(s.dbeVolatile.ok /\ s.dbeVolatile.value > 0)
      /\ ~(s.retiredSBE.value + s.retiredDBE.value >= 63)
      /\ ~(s.retiredDBE.ok /\ s.retiredDBE.value > 15)
      /\ ~(s.linksDown.ok /\ s.linksDown.value > 0)
      /\ ~(s.recoveryFailed.ok /\ s.recoveryFailed.value > 0)
      /\ ~(s.remapFailure.ok /\ s.remapFailure.value > 0)
      /\ ~(s.unrepairable.ok /\ s.unrepairable.value > 0)
      /\ ~((IF s.recoveryAction.ok THEN s.recoveryAction.value ELSE 0) = 1)
      /\ ~((IF s.recoveryAction.ok THEN s.recoveryAction.value ELSE 0) = 2)
      /\ ~((IF s.recoveryAction.ok THEN s.recoveryAction.value ELSE 0) = 4)
  BY <1>2
<1>6. ASSUME NEW y \in HealthFatals(s, mig, {}) PROVE FALSE
  BY <1>3, <1>4, <1>5, <1>6, ZenonT(60) DEF HealthFatals, When
<1> QED
  BY <1>6

\* No warning rule applies to it, if the InfoROM is valid and the warnings on
\* counters are not to be reported.
LEMMA HealthySampleHasNoWarnings ==
  ASSUME NEW s, HealthySample(s), NEW thermal, NEW pwr, NEW rom, rom.value = 0, NEW ages, NEW levels,
         levels = HealthLevels(s, thermal, pwr, rom),
         ~report(ages[10], levels[10]), ~report(ages[12], levels[12])
  PROVE  Warnings(ages, levels) = {}
<1>1. ASSUME NEW f \in {"retiredPending", "remapUncorrectable", "recoveryAction", "recoverySucceeded"}
      PROVE  s[f].value = 0
  <2>1. f \in HealthStates \ {"inforom", "powerUnreadable"} /\ Healthy[f] = 0
    BY HealthyAssumption DEF HealthStates, Nvlink5
  <2> QED
    BY <2>1 DEF HealthySample, StateReading
<1>2. /\ s.retiredPending.value = 0 /\ s.remapUncorrectable.value = 0 /\ s.recoveryAction.value = 0
      /\ s.recoverySucceeded.value = 0 /\ s.powerUnreadable.value = 0
  BY <1>1 DEF HealthySample
<1>3. /\ ~(s.retiredPending.value # 0) /\ ~(rom.value # 0) /\ ~(s.powerUnreadable.value # 0)
      /\ ~(s.recoverySucceeded.value > 0) /\ ~(s.recoveryAction.value = 3)
      /\ ~(s.computeMajor.value >= 8 /\ s.remapUncorrectable.value >= 512)
  BY <1>2
<1>4. /\ levels[6].over = (s.retiredPending.value # 0)
      /\ levels[9].over = (rom.value # 0)
      /\ levels[11].over = (s.powerUnreadable.value # 0)
  BY DEF HealthLevels, WarnCodes
<1>5. /\ levels[71].over = (s.recoverySucceeded.value > 0)
      /\ levels[127].over = (s.recoveryAction.value = 3)
      /\ levels[132].over = (s.computeMajor.value >= 8 /\ s.remapUncorrectable.value >= 512)
  BY DEF HealthLevels, WarnCodes
<1>6. ASSUME NEW k \in {6, 9, 11, 71, 127, 132} PROVE ~levels[k].over
  <2>1. ~levels[6].over /\ ~levels[9].over /\ ~levels[11].over
    BY <1>3, <1>4, Zenon
  <2>2. ~levels[71].over /\ ~levels[127].over /\ ~levels[132].over
    BY <1>3, <1>5, Zenon
  <2> QED
    BY <2>1, <2>2
<1>7. \A k \in WarnCodes : ~report(ages[k], levels[k])
  BY <1>6 DEF WarnCodes, report, Over
<1> QED
  BY <1>7 DEF Warnings

\* No policy is violated by healthy readings, whether a threshold is set or not.
LEMMA HealthySampleIsWithinLimits ==
  ASSUME NEW s, threshold \in {0, 250}, \A f \in PolicyStates : StateReading(s[f], Healthy[f])
  PROVE  \A p \in PolicySignals : ~Over(PolicyLevels(s)[p])
<1>1. s.retiredSBE.value = 0 /\ s.retiredDBE.value = 0
  <2>1. StateReading(s["retiredSBE"], 0) /\ StateReading(s["retiredDBE"], 0)
    BY HealthyAssumption DEF PolicyStates
  <2> QED
    BY <2>1 DEF StateReading
<1>2. ~(s.retiredSBE.value + s.retiredDBE.value > 10)
  BY <1>1
<1>3. ~(s.temperature.value > 100)
  <2>1. s["temperature"].value \in {0, Healthy["temperature"]}
    BY DEF StateReading, PolicyStates
  <2> QED
    BY <2>1, HealthyAssumption
<1>4. ~Over(power(s))
  <2> DEFINE w == Healthy["powerMW"] \div 1000
             m == Healthy["powerLimitMW"] \div 1000
  <2>1. w \in Nat /\ m \in Nat /\ w <= 250 /\ w <= m
    BY HealthyAssumption
  <2>2. StateReading(s["powerMW"], Healthy["powerMW"]) /\ StateReading(s["powerLimitMW"], Healthy["powerLimitMW"])
    BY DEF PolicyStates
  <2>3. s.powerMW.ok => s.powerMW.value \div 1000 = w
    BY <2>2 DEF StateReading
  <2>4. s.powerLimitMW.ok => s.powerLimitMW.value \div 1000 = m
    BY <2>2 DEF StateReading
  <2> HIDE DEF w, m
  <2> DEFINE limit == IF threshold = 0 THEN s.powerLimitMW.value \div 1000 ELSE threshold
  <2> DEFINE l == power(s)
             read == s.powerMW.ok /\ (threshold # 0 \/ s.powerLimitMW.ok)
             above == s.powerMW.value \div 1000 > limit
  <2>5. l.observed = read /\ l.over = above
    BY Zenon DEF power
  <2>6. read => ~above
    BY <2>1, <2>3, <2>4
  <2> HIDE DEF l, read, above
  <2>7. ~Over(l)
    BY <2>5, <2>6, Zenon DEF Over
  <2> QED
    BY <2>7 DEF l
<1>5. /\ PolicyLevels(s)["NvidiaPageRetirement"].over = (s.retiredSBE.value + s.retiredDBE.value > 10)
      /\ PolicyLevels(s)["NvidiaThermalError"].over = (s.temperature.value > 100)
      /\ PolicyLevels(s)["NvidiaPowerError"] = power(s)
  BY DEF PolicyLevels
<1>6. ~Over(PolicyLevels(s)["NvidiaPageRetirement"]) /\ ~Over(PolicyLevels(s)["NvidiaThermalError"])
  BY <1>2, <1>3, <1>5, Zenon DEF Over
<1> QED
  BY <1>4, <1>5, <1>6 DEF PolicySignals

\* Of a healthy fabric at most the warning on a driver without the fabric call
\* is reported, which is one of the node.
LEMMA HealthyFabric ==
  ASSUME NEW g \in GPUs \ lost, NEW failed, NEW call \in BOOLEAN,
         \A f \in DeviceFields : hw[g][f] = Healthy[f]
  PROVE  \A c \in GpuFabric(g, failed, call) : c[1] = "FabricManagerNotRunningWarning"
<1>1. ClassifyFabric({Success}, {Healthy["healthMask"]}) = {}
  <2>1. FabricHealth(Healthy["healthMask"]) = {}
    BY HealthyAssumption DEF FabricHealth, When
  <2>2. FabricStatus(Success) = {}
    BY DEF FabricStatus, Success, NotSupported, InProgress, NotStarted, Unrecognized, NvmlTooOld, dcgmStatusBadParam
  <2> QED
    BY <2>1, <2>2 DEF ClassifyFabric
<1>2. \A c \in ClassifyFabric({NvmlTooOld}, {}) : c[1] = "FabricManagerNotRunningWarning"
  <2>1. Cond("FabricManagerNotRunningWarning", NvmlTooOld, "")[1] = "FabricManagerNotRunningWarning"
    BY DEF Cond
  <2>2. \A c \in ClassifyFabric({NvmlTooOld}, {}) : c \in FabricStatus(NvmlTooOld)
    BY DEF ClassifyFabric
  <2>3. FabricStatus(NvmlTooOld) \in {{}, {Cond("FabricManagerNotRunningWarning", NvmlTooOld, "")}}
    BY DEF FabricStatus
  <2> QED
    BY <2>1, <2>2, <2>3
<1>3. fabricManagerStatus(hw[g]["fabricState"], hw[g]["fabricStatus"]) = Success
  BY HealthyAssumption DEF DeviceFields, fabricManagerStatus
<1>4. hw[g]["healthMask"] = Healthy["healthMask"]
  BY DEF DeviceFields
<1>5. GpuFabric(g, failed, call) \in
          {{}, ClassifyFabric({NvmlTooOld}, {}),
           ClassifyFabric({fabricManagerStatus(hw[g]["fabricState"], hw[g]["fabricStatus"])}, {hw[g]["healthMask"]})}
  BY Zenon DEF GpuFabric
<1> QED
  BY <1>1, <1>2, <1>3, <1>4, <1>5, Zenon

-----------------------------------------------------------------------------
(* The counters *)

Checks == {"health", "policies", "devices", "xid"}

\* The baseline of a counter against its value: a counter above its baseline
\* grew since the last completed poll; one that is steady has a baseline, is
\* not below it, and is above it if it grew.
CounterInv(g, f) ==
    /\ hw[g][f] \in Nat /\ baselines[g][f] \in Nat \cup {None}
    /\ baselines[g][f] # None /\ hw[g][f] > baselines[g][f] => fresh[g][f]
    /\ steady[g][f] => /\ baselines[g][f] # None /\ hw[g][f] >= baselines[g][f]
                       /\ fresh[g][f] => hw[g][f] > baselines[g][f]

\* What Policies read and has not evaluated is still what the hardware says.
SampleInv ==
    \A s \in sampled :
        /\ check = "policies" /\ s.lost = lost
        /\ \A g \in GPUs : \A f \in PolicyCounters :
               s.gpus[g][f] \in Reading /\ (s.gpus[g][f].ok => s.gpus[g][f].value = hw[g][f])
        /\ \A g \in GPUs : \A f \in PolicyStates : StateReading(s.gpus[g][f], hw[g][f])

ChecksTyped ==
    /\ check \in Checks /\ threshold \in {0, 250}
    /\ DOMAIN hw = GPUs /\ \A g \in GPUs : DOMAIN hw[g] = FieldsOf[check]
    /\ fresh \in [GPUs -> [CountersOf[check] -> BOOLEAN]]
    /\ steady \in [GPUs -> [CountersOf[check] -> BOOLEAN]]

ChecksInv ==
    /\ ChecksTyped
    /\ \A g \in GPUs : \A f \in CountersOf[check] : CounterInv(g, f)
    /\ SampleInv

\* The counters of the checks are fields of theirs, and count.
LEMMA CountersAreFields ==
  ASSUME NEW c \in Checks
  PROVE  /\ CountersOf[c] \subseteq FieldsOf[c]
         /\ \A f \in CountersOf[c] : Values[f] \subseteq Nat /\ Healthy[f] \in Nat
<1>1. CASE c = "health"
  BY <1>1, CountersAssumption DEF CountersOf, FieldsOf, HealthFields
<1>2. CASE c = "policies"
  BY <1>2, CountersAssumption DEF CountersOf, FieldsOf, PolicyFields
<1>3. CASE c \in {"devices", "xid"}
  BY <1>3 DEF CountersOf, FieldsOf
<1> QED
  BY <1>1, <1>2, <1>3 DEF Checks

\* Nothing is baselined when the checks are made (NewHealth, NewPolicies).
LEMMA InitChecks == ChecksInit => ChecksInv /\ PollsRight
<1> SUFFICES ASSUME ChecksInit PROVE ChecksInv /\ PollsRight
  OBVIOUS
<1>1. check \in Checks /\ hw = [g \in GPUs |-> [f \in FieldsOf[check] |-> Healthy[f]]]
  BY DEF ChecksInit, Checks
<1>2. /\ fresh = [g \in GPUs |-> [f \in CountersOf[check] |-> FALSE]]
      /\ steady = [g \in GPUs |-> [f \in CountersOf[check] |-> FALSE]]
      /\ baselines = [g \in GPUs |-> [f \in CountersOf[check] |-> None]]
  BY DEF ChecksInit
<1>3. ChecksTyped
  <2>1. threshold = 0
    BY DEF ChecksInit
  <2> QED
    BY <1>1, <1>2, <2>1 DEF ChecksTyped
<1>4. ASSUME NEW g \in GPUs, NEW f \in CountersOf[check] PROVE CounterInv(g, f)
  <2>1. hw[g][f] = Healthy[f] /\ Healthy[f] \in Nat
    BY <1>1, CountersAreFields
  <2>2. baselines[g][f] = None /\ ~fresh[g][f] /\ ~steady[g][f]
    BY <1>2
  <2> QED
    BY <2>1, <2>2 DEF CounterInv
<1>5. SampleInv
  BY DEF ChecksInit, SampleInv
<1>6. out = Quiet
  BY DEF ChecksInit
<1>7. PollsRight
  BY <1>6, QuietIsRight
<1> QED
  BY <1>3, <1>4, <1>5, <1>7 DEF ChecksInv

\* A poll that takes what it read as the new baselines, and reports a counter
\* if it is above its baseline, is exact: for the growth it owes a report the
\* baseline is the value of the last completed poll.
LEMMA CompletedPoll ==
  ASSUME ChecksInv, UNCHANGED <<check, hw, lost, threshold>>, sampled' \subseteq sampled,
         NEW readable \in [GPUs -> SUBSET CountersOf[check]],
         out'.real = [g \in GPUs |-> {f \in CountersOf[check] : fresh[g][f]}],
         out'.owed = [g \in GPUs |-> {f \in CountersOf[check] : fresh[g][f] /\ f \in readable[g] /\ steady[g][f]}],
         fresh' = [g \in GPUs |-> [f \in CountersOf[check] |-> FALSE]],
         steady' = [g \in GPUs |-> [f \in CountersOf[check] |-> f \in readable[g]]],
         \A g \in GPUs : \A f \in CountersOf[check] :
             /\ baselines'[g][f] = IF f \in readable[g] THEN hw[g][f] ELSE None
             /\ Reports(out'.conds[g], f) => baselines[g][f] # None /\ hw[g][f] > baselines[g][f]
             /\ f \in readable[g] /\ baselines[g][f] # None /\ hw[g][f] > baselines[g][f] => Answered(g, f)'
  PROVE  ChecksInv' /\ CountersExact'
<1>1. ChecksTyped'
  BY DEF ChecksInv, ChecksTyped
<1>2. ASSUME NEW g \in GPUs, NEW f \in CountersOf[check] PROVE CounterInv(g, f)'
  <2>1. hw[g][f] \in Nat
    BY DEF ChecksInv, CounterInv
  <2>2. ~fresh'[g][f] /\ (steady'[g][f] => f \in readable[g]) /\ hw'[g][f] = hw[g][f]
    BY Zenon
  <2>3. CASE f \in readable[g]
    <3>1. baselines'[g][f] = hw[g][f]
      BY <2>3
    <3> QED
      BY <2>1, <2>2, <3>1 DEF CounterInv, None
  <2>4. CASE f \notin readable[g]
    <3>1. baselines'[g][f] = None
      BY <2>4
    <3> QED
      BY <2>1, <2>2, <2>4, <3>1 DEF CounterInv, None
  <2> QED
    BY <2>3, <2>4
<1>3. SampleInv'
  BY DEF ChecksInv, SampleInv
<1>4. ASSUME NEW g \in GPUs, NEW f \in CountersOf[check]
      PROVE  /\ Reports(out'.conds[g], f) => f \in out'.real[g]
             /\ f \in out'.owed[g] => Answered(g, f)'
  <2>1. CounterInv(g, f)
    BY DEF ChecksInv
  <2>2. f \in out'.real[g] <=> fresh[g][f]
    OBVIOUS
  <2>3. f \in out'.owed[g] <=> fresh[g][f] /\ f \in readable[g] /\ steady[g][f]
    OBVIOUS
  <2>4. Reports(out'.conds[g], f) => f \in out'.real[g]
    BY <2>1, <2>2 DEF CounterInv
  <2>5. f \in out'.owed[g] => Answered(g, f)'
    BY <2>1, <2>3 DEF CounterInv
  <2> QED
    BY <2>4, <2>5
<1>5. CountersExact'
  BY <1>4 DEF CountersExact
<1> QED
  BY <1>1, <1>2, <1>3, <1>5 DEF ChecksInv

\* What a poll of health.go reads of a counter is its value, or not ok.
LEMMA HealthReading ==
  ASSUME NEW g \in GPUs, NEW f \in HealthCounters, NEW failed, NEW validate, hw[g][f] \in Nat
  PROVE  LET r == readGPUHealth(g, failed, validate)[f] IN r \in Reading /\ (r.ok => r.value = hw[g][f])
<1> DEFINE nothing == [ok |-> FALSE, value |-> 0]
           r == Read(g, f, failed)
<1>1. r \in Reading /\ (r.ok => r.value = hw[g][f])
  BY DEF Read, observe, Reading, Outcome, Ret
<1>2. nothing \in Reading /\ ~nothing.ok
  BY DEF Reading
<1>3. f \in HealthFields /\ f \notin {"linksDown", "powerUnreadable", "inforom"}
  BY NamesAssumption DEF HealthFields, HealthStates, HealthCounters
<1>4. readGPUHealth(g, failed, validate)[f] \in {r, nothing}
  BY <1>3 DEF readGPUHealth
<1> HIDE DEF r, nothing
<1> QED
  BY <1>1, <1>2, <1>4

\* The levels of the two warnings on the growth of a counter.
LEMMA CounterLevels ==
  ASSUME NEW s, NEW thermal, NEW pwr, NEW rom
  PROVE  LET levels == HealthLevels(s, thermal, pwr, rom) IN
         /\ Over(levels[10]) <=> thermal.observed /\ thermal.n > 0
         /\ Over(levels[12]) <=> pwr.observed /\ pwr.n > 0
<1>1. HealthLevels(s, thermal, pwr, rom)[10] = [observed |-> thermal.observed, over |-> thermal.n > 0]
  BY DEF HealthLevels, WarnCodes
<1>2. HealthLevels(s, thermal, pwr, rom)[12] = [observed |-> pwr.observed, over |-> pwr.n > 0]
  BY DEF HealthLevels, WarnCodes
<1> DEFINE l == HealthLevels(s, thermal, pwr, rom)[10]
           m == HealthLevels(s, thermal, pwr, rom)[12]
<1>3. l.observed = thermal.observed /\ l.over = (thermal.n > 0)
  BY <1>1
<1>4. m.observed = pwr.observed /\ m.over = (pwr.n > 0)
  BY <1>2
<1> HIDE DEF l, m
<1>5. (Over(l) <=> thermal.observed /\ thermal.n > 0) /\ (Over(m) <=> pwr.observed /\ pwr.n > 0)
  BY <1>3, <1>4, Zenon DEF Over
<1> QED
  BY <1>5 DEF l, m

\* levelReports.report: a level that is over is reported or was, and is tracked.
LEMMA OverIsTracked ==
  ASSUME NEW age, NEW l, Over(l)
  PROVE  report(age, l) \/ Tracked(age, l) # None
  BY Zenon DEF report, Tracked, Over

\* Health.Poll: each counter is compared with its baseline and leads to code
\* 71, or to its warning when that is due.
LEMMA StepHealth ==
  ASSUME ChecksInv, NEW failed, HealthPoll(failed)
  PROVE  ChecksInv' /\ PollsRight'
<1> DEFINE sample == [g \in GPUs |-> readGPUHealth(g, failed[g], ValidateInforom)]
           rom == [g \in GPUs |-> IF ~ValidateInforom THEN inforom[g]
                                  ELSE IF g \in lost THEN [ok |-> FALSE, value |-> 0] ELSE sample[g].inforom]
           grown == [g \in GPUs |-> [f \in HealthCounters |-> grew(baselines[g][f], sample[g][f])]]
           levels == [g \in GPUs |-> HealthLevels(sample[g], grown[g].thermal, grown[g].power, rom[g])]
           anyMIG == \E g \in GPUs \ lost : sample[g].mig.ok /\ sample[g].mig.value = 1
           errors(g) == {f \in NvlinkErrorCounters : grown[g][f].n > 0}
           conds == [g \in GPUs \cup {0} |->
                        IF g = 0 THEN {} ELSE IF g \in lost THEN lostGPU
                        ELSE HealthFatals(sample[g], anyMIG, errors(g)) \cup Warnings(notified[g], levels[g])]
           readable == [g \in GPUs |-> {f \in HealthCounters : g \notin lost /\ sample[g][f].ok}]
           blind == \E g \in GPUs : g \in lost \/ ~sample[g].mig.ok
<1>1. check = "health" /\ HealthEvaluate(sample, rom)
  BY Zenon DEF HealthPoll
<1>2. CountersOf[check] = HealthCounters
  BY <1>1 DEF CountersOf
<1> HIDE DEF sample, rom
<1>3. /\ inforom' = rom
      /\ baselines' = [g \in GPUs |-> [f \in HealthCounters |-> IF g \in lost THEN None ELSE grown[g][f].base]]
      /\ notified' = [g \in GPUs |-> [k \in WarnCodes |->
             IF g \in lost THEN notified[g][k] ELSE Tracked(notified[g][k], levels[g][k])]]
      /\ Completed(conds, readable, blind)
      /\ UNCHANGED <<check, hw, lost, sampled, threshold>>
  <2>1. PICK gr \in {grown} :
            \E ls \in {[g \in GPUs |-> HealthLevels(sample[g], gr[g].thermal, gr[g].power, rom[g])]} :
                HealthReport(sample, rom, gr, ls)
    BY <1>1, Zenon DEF HealthEvaluate
  <2>2. gr = grown
    BY <2>1, Zenon
  <2> HIDE DEF grown
  <2>3. HealthReport(sample, rom, grown, levels)
    BY <2>1, <2>2, Zenon
  <2> HIDE DEF levels
  <2>4. Completed(conds, readable, blind)
    BY <2>3, Zenon DEF HealthReport, Warnings
  <2>5. UNCHANGED <<check, hw, lost, sampled, threshold>>
    BY <2>3, Zenon DEF HealthReport, hwVars, policyVars
  <2> QED
    BY <2>3, <2>4, <2>5, Zenon DEF HealthReport
<1> HIDE DEF grown, levels, conds, readable, blind
<1>4. /\ out'.conds = conds
      /\ out'.real = [g \in GPUs |-> {f \in CountersOf[check] : fresh[g][f]}]
      /\ out'.owed = [g \in GPUs |-> {f \in CountersOf[check] : fresh[g][f] /\ f \in readable[g] /\ steady[g][f]}]
  BY <1>3 DEF Completed
<1>5. /\ fresh' = [g \in GPUs |-> [f \in CountersOf[check] |-> FALSE]]
      /\ steady' = [g \in GPUs |-> [f \in CountersOf[check] |-> f \in readable[g]]]
  BY <1>3 DEF Completed
<1>6. readable \in [GPUs -> SUBSET CountersOf[check]]
  BY <1>2 DEF readable
<1>a. ASSUME NEW g \in GPUs \ lost
      PROVE  /\ conds[g] = HealthFatals(sample[g], anyMIG, errors(g)) \cup Warnings(notified[g], levels[g])
             /\ errors(g) \in SUBSET NvlinkErrorCounters
             /\ \A f \in NvlinkErrorCounters : f \in errors(g) <=> grown[g][f].n > 0
  <2>1. g # 0
    BY NamesAssumption
  <2> QED
    BY <1>a, <2>1 DEF conds
<1>b. anyMIG \in BOOLEAN
  OBVIOUS
<1> HIDE DEF anyMIG, errors
<1>c. ASSUME NEW g \in GPUs \ lost, NEW f \in HealthCounters
      PROVE  /\ f = "thermal" => (Reports(conds[g], f) <=> report(notified[g][10], levels[g][10]))
             /\ f = "power" => (Reports(conds[g], f) <=> report(notified[g][12], levels[g][12]))
             /\ f \in NvlinkErrorCounters => (Reports(conds[g], f) <=> f \in errors(g))
  <2> DEFINE E == errors(g)
             F == HealthFatals(sample[g], anyMIG, E)
             c == F \cup Warnings(notified[g], levels[g])
  <2>1. E \in SUBSET NvlinkErrorCounters /\ conds[g] = c
    BY <1>a
  <2> HIDE DEF E
  <2>2. ASSUME NEW y \in F
        PROVE  \/ \E e \in E : y = HealthFatal(71, e)
               \/ y = HealthFatal(71, "recovery")
               \/ \E code \in {4, 7, 8, 14, 119, 121, 80, 52, 125, 126, 128} : y = HealthFatal(code, "")
    BY <1>b, <2>2 DEF HealthFatals, When
  <2>3. ASSUME NEW e \in E PROVE HealthFatal(71, e) \in F
    BY <2>3, Zenon DEF HealthFatals
  <2> HIDE DEF F
  <2>4. FatalsFor(F, E)
    BY <2>2, <2>3 DEF FatalsFor
  <2>5. /\ f = "thermal" => (Reports(c, f) <=> report(notified[g][10], levels[g][10]))
        /\ f = "power" => (Reports(c, f) <=> report(notified[g][12], levels[g][12]))
        /\ f \in NvlinkErrorCounters => (Reports(c, f) <=> f \in E)
    BY <2>1, <2>4, HealthReports, Zenon
  <2> HIDE DEF c
  <2>6. f \in E <=> f \in errors(g)
    BY DEF E
  <2> QED
    BY <2>1, <2>5, <2>6, Zenon
<1>7. ASSUME NEW g \in GPUs, NEW f \in HealthCounters
      PROVE  /\ baselines'[g][f] = IF f \in readable[g] THEN hw[g][f] ELSE None
             /\ Reports(conds[g], f) => baselines[g][f] # None /\ hw[g][f] > baselines[g][f]
             /\ f \in readable[g] /\ baselines[g][f] # None /\ hw[g][f] > baselines[g][f] => Answered(g, f)'
  <2>1. CounterInv(g, f)
    BY <1>2 DEF ChecksInv
  <2>2. sample[g][f] \in Reading /\ (sample[g][f].ok => sample[g][f].value = hw[g][f])
    BY <2>1, HealthReading DEF sample, CounterInv
  <2>3. grown[g][f] = grew(baselines[g][f], sample[g][f])
    BY DEF grown
  <2>4. /\ grew(baselines[g][f], sample[g][f]).n > 0
             <=> sample[g][f].ok /\ baselines[g][f] # None /\ sample[g][f].value > baselines[g][f]
        /\ grew(baselines[g][f], sample[g][f]).observed <=> sample[g][f].ok /\ baselines[g][f] # None
        /\ grew(baselines[g][f], sample[g][f]).base = IF sample[g][f].ok THEN sample[g][f].value ELSE None
    <3>1. baselines[g][f] \in Nat \cup {None}
      BY <2>1, Zenon DEF CounterInv
    <3> QED
      BY <2>2, <3>1, GrewMeansGrowth, Zenon
  <2>a. /\ grown[g][f].n > 0 <=> sample[g][f].ok /\ baselines[g][f] # None /\ hw[g][f] > baselines[g][f]
        /\ grown[g][f].observed <=> sample[g][f].ok /\ baselines[g][f] # None
        /\ grown[g][f].base = IF sample[g][f].ok THEN hw[g][f] ELSE None
    BY <2>2, <2>3, <2>4, Zenon
  <2>5. baselines'[g][f] = IF g \in lost THEN None ELSE grown[g][f].base
    BY <1>3
  <2>6. f \in readable[g] <=> g \notin lost /\ sample[g][f].ok
    BY DEF readable
  <2>7. baselines'[g][f] = IF f \in readable[g] THEN hw[g][f] ELSE None
    BY <2>a, <2>5, <2>6
  <2>8. g # 0
    BY NamesAssumption
  <2>9. CASE g \in lost
    <3>1. conds[g] = lostGPU
      BY <2>8, <2>9 DEF conds
    <3>2. ~Reports(lostGPU, f)
      BY DEF Reports, lostGPU, ClassifyXid, WellKnownXidCodes, Cond, HealthFatal
    <3> QED
      BY <2>6, <2>7, <2>9, <3>1, <3>2
  <2>10. CASE g \notin lost
    <3>1. /\ Over(levels[g][10]) <=> grown[g].thermal.observed /\ grown[g].thermal.n > 0
          /\ Over(levels[g][12]) <=> grown[g].power.observed /\ grown[g].power.n > 0
      <4>1. levels[g] = HealthLevels(sample[g], grown[g].thermal, grown[g].power, rom[g])
        BY DEF levels
      <4> QED
        BY <4>1, CounterLevels, Zenon
    <3>2. \A k \in WarnCodes : Over(levels[g][k]) => report(notified[g][k], levels[g][k]) \/ notified'[g][k] # None
      <4>1. \A k \in WarnCodes : notified'[g][k] = Tracked(notified[g][k], levels[g][k])
        BY <1>3, <2>10
      <4> QED
        BY <4>1, OverIsTracked, Zenon
    <3>3. CASE f = "thermal"
      <4>1. grown[g].thermal = grown[g][f]
        BY <3>3
      <4>2. Reports(conds[g], f) => Over(levels[g][10])
        BY <1>c, <2>10, <3>3 DEF report
      <4>3. Over(levels[g][10]) => Reports(conds[g], f) \/ notified'[g][10] # None
        BY <1>c, <2>10, <3>2, <3>3 DEF WarnCodes
      <4> QED
        BY <1>1, <1>3, <1>4, <2>7, <2>6, <2>a, <3>1, <3>3, <4>1, <4>2, <4>3 DEF Answered
    <3>4. CASE f = "power"
      <4>1. grown[g].power = grown[g][f]
        BY <3>4
      <4>2. Reports(conds[g], f) => Over(levels[g][12])
        BY <1>c, <2>10, <3>4 DEF report
      <4>3. Over(levels[g][12]) => Reports(conds[g], f) \/ notified'[g][12] # None
        BY <1>c, <2>10, <3>2, <3>4 DEF WarnCodes
      <4> QED
        BY <1>1, <1>3, <1>4, <2>7, <2>6, <2>a, <3>1, <3>4, <4>1, <4>2, <4>3 DEF Answered
    <3>5. CASE f \in NvlinkErrorCounters
      BY <1>4, <2>7, <2>6, <2>a, <1>a, <1>c, <2>10, <3>5 DEF Answered
    <3> QED
      BY <3>3, <3>4, <3>5 DEF HealthCounters
  <2> QED
    BY <2>9, <2>10
<1>8. \A g \in GPUs : \A f \in CountersOf[check] :
             /\ baselines'[g][f] = IF f \in readable[g] THEN hw[g][f] ELSE None
             /\ Reports(out'.conds[g], f) => baselines[g][f] # None /\ hw[g][f] > baselines[g][f]
             /\ f \in readable[g] /\ baselines[g][f] # None /\ hw[g][f] > baselines[g][f] => Answered(g, f)'
  BY <1>2, <1>4, <1>7, ZenonT(60)
<1>9. sampled' \subseteq sampled
  BY <1>3
<1>10. ChecksInv' /\ CountersExact'
  BY <1>3, <1>4, <1>5, <1>6, <1>8, <1>9, CompletedPoll, Zenon
<1>11. ASSUME NEW g \in GPUs, Sound(g)', out'.real[g] = {}
       PROVE  conds[g] = {}
  <2>1. g \notin lost /\ rom[g].value = 0 /\ \A f \in FieldsOf[check] \ CountersOf[check] : hw[g][f] = Healthy[f]
    BY <1>3, <1>11 DEF Sound
  <2>2. HealthStates \subseteq FieldsOf[check] \ CountersOf[check]
    BY <1>1, <1>2, NamesAssumption DEF FieldsOf, HealthFields, HealthStates, HealthCounters, Nvlink5
  <2>3. HealthySample(sample[g])
    <3>1. ASSUME NEW f \in HealthStates \ {"inforom", "powerUnreadable"} PROVE StateReading(sample[g][f], Healthy[f])
      <4>1. StateReading(sample[g][f], hw[g][f])
        BY HealthStateReading DEF sample
      <4> QED
        BY <2>1, <2>2, <4>1
    <3>2. sample[g]["powerUnreadable"].value \in {0, hw[g]["powerUnreadable"]}
      BY PowerReading DEF sample
    <3>3. hw[g]["powerUnreadable"] = 0
      BY <2>1, <2>2, HealthyAssumption DEF HealthStates
    <3> QED
      BY <3>1, <3>2, <3>3 DEF HealthySample
  <2>4. \A f \in HealthCounters : ~Reports(conds[g], f)
    BY <1>2, <1>3, <1>4, <1>10, <1>11 DEF CountersExact
  <2>5. ~report(notified[g][10], levels[g][10]) /\ ~report(notified[g][12], levels[g][12])
    BY <1>c, <2>1, <2>4 DEF HealthCounters
  <2>6. errors(g) = {}
    BY <1>a, <1>c, <2>1, <2>4 DEF HealthCounters
  <2>7. Warnings(notified[g], levels[g]) = {}
    <3>1. levels[g] = HealthLevels(sample[g], grown[g].thermal, grown[g].power, rom[g])
      BY DEF levels
    <3> QED
      BY <2>1, <2>3, <2>5, <3>1, HealthySampleHasNoWarnings, Zenon
  <2>8. HealthFatals(sample[g], anyMIG, {}) = {}
    BY <2>3, HealthySampleIsNotFatal, Zenon
  <2> QED
    BY <1>a, <2>1, <2>6, <2>7, <2>8, Zenon
<1>12. ASSUME ~blind, NEW h \in GPUs, hw[h].mig = 1, NEW g \in GPUs
       PROVE  HealthFatal(14, "") \notin conds[g]
  <2>1. \A i \in GPUs : i \notin lost /\ sample[i].mig.ok
    BY <1>12 DEF blind
  <2>2. sample[h].mig.value = 1
    <3>1. StateReading(sample[h]["mig"], hw[h]["mig"])
      BY HealthStateReading DEF sample, HealthStates
    <3> QED
      BY <1>12, <2>1, <3>1 DEF StateReading
  <2>3. anyMIG
    BY <2>1, <2>2 DEF anyMIG
  <2> DEFINE Others == {4, 7, 8, 119, 121, 80, 52, 125, 126, 128}
  <2>4. ASSUME NEW y \in HealthFatals(sample[g], anyMIG, errors(g))
        PROVE  (\E e : y = HealthFatal(71, e)) \/ \E code \in Others : y = HealthFatal(code, "")
    BY <1>b, <2>3, <2>4, ZenonT(60) DEF HealthFatals, When
  <2>5. \A code, e : HealthFatal(code, e)[2] = code /\ HealthFatal(code, e)[1] = "DCGMHealthCodeFatal"
    BY DEF HealthFatal, Cond
  <2>6. \A code \in Others : 14 # code
    OBVIOUS
  <2> HIDE DEF Others
  <2>7. HealthFatal(14, "") \notin HealthFatals(sample[g], anyMIG, errors(g))
    <3>a. HealthFatal(14, "")[2] = 14
      BY <2>5, Zenon
    <3>1. ASSUME NEW e PROVE HealthFatal(14, "") # HealthFatal(71, e)
      <4>1. HealthFatal(71, e)[2] = 71
        BY <2>5, Zenon
      <4>2. 14 # 71
        OBVIOUS
      <4> QED
        BY <3>a, <4>1, <4>2, Zenon
    <3>2. ASSUME NEW code \in Others PROVE HealthFatal(14, "") # HealthFatal(code, "")
      <4>1. HealthFatal(code, "")[2] = code
        BY <2>5, Zenon
      <4>2. 14 # code
        BY <2>6, Zenon
      <4> QED
        BY <3>a, <4>1, <4>2, Zenon
    <3> QED
      BY <2>4, <3>1, <3>2, Zenon
  <2>8. \A x \in Warnings(notified[g], levels[g]) : x[1] = "DCGMHealthCodeWarning"
    <3>1. \A code : Cond("DCGMHealthCodeWarning", code, "")[1] = "DCGMHealthCodeWarning"
      BY DEF Cond
    <3> QED
      BY <3>1, Zenon DEF Warnings
  <2>9. HealthFatal(14, "") \notin Warnings(notified[g], levels[g])
    BY <2>5, <2>8
  <2> QED
    BY <1>a, <2>1, <2>7, <2>9
<1>13. HealthyGpuIsQuiet'
  <2>1. out'.blind = blind /\ check' = check /\ hw' = hw
    BY <1>3 DEF Completed
  <2>2. \A g \in GPUs : Sound(g)' /\ out'.real[g] = {} => out'.conds[g] = {}
    BY <1>4, <1>11
  <2>3. (~out'.blind /\ \E g \in GPUs : hw'[g].mig = 1) => \A g \in GPUs : HealthFatal(14, "") \notin out'.conds[g]
    BY <1>4, <1>12, <2>1, Zenon
  <2> QED
    BY <2>2, <2>3, Zenon DEF HealthyGpuIsQuiet
<1> QED
  BY <1>10, <1>13 DEF PollsRight

\* What Policies reads of a counter is its value, or not ok.
LEMMA PolicyReading ==
  ASSUME NEW g \in GPUs, NEW f \in PolicyCounters, NEW failed, NEW limit, hw[g][f] \in Nat
  PROVE  LET r == readPolicyGPU(g, failed, limit)[f] IN r \in Reading /\ (r.ok => r.value = hw[g][f])
<1>1. f \in PolicyFields /\ f # "powerLimitMW"
  BY NamesAssumption DEF PolicyFields, PolicyStates, PolicyCounters
<1>2. readPolicyGPU(g, failed, limit)[f] = Read(g, f, failed)
  BY <1>1 DEF readPolicyGPU
<1> DEFINE r == Read(g, f, failed)
<1>3. r \in Reading /\ (r.ok => r.value = hw[g][f])
  BY DEF Read, observe, Reading, Outcome, Ret
<1> HIDE DEF r
<1> QED
  BY <1>2, <1>3 DEF r

\* The evaluation of the policies: each counter is compared with its baseline,
\* and of the NVLink totals that grew the first is reported.
LEMMA StepPolicy ==
  ASSUME ChecksInv, PolicyEvaluate
  PROVE  ChecksInv' /\ PollsRight'
<1> DEFINE Grown(s) == [g \in GPUs |-> [f \in PolicyCounters |-> policyGrew(baselines[g][f], s.gpus[g][f], MaxUint32)]]
           Levels(s) == [g \in GPUs |-> PolicyLevels(s.gpus[g])]
           Nvlink(s, g) == {i \in 1..Len(NvlinkErrorTotals) : Grown(s)[g][NvlinkErrorTotals[i]].n > 0}
           First(s, g) == {k \in Nvlink(s, g) : \A j \in Nvlink(s, g) : k <= j}
           Signals(s, g) == {p \in PolicySignals : report(notified[g][p], Levels(s)[g][p])}
           Conds(s, g) ==
              When(Grown(s)[g].dbeDevice.n > 0, Cond("NvidiaDoubleBitError", 0, ""))
              \cup {Cond("NvidiaNVLinkError", i, "") : i \in First(s, g)}
              \cup {Cond(k, 0, "") : k \in Signals(s, g)}
              \cup When(Grown(s)[g].pcieReplays.n > 0, Cond("NvidiaPCIeError", 0, ""))
           Readable(s) == [g \in GPUs |-> {f \in PolicyCounters :
                            g \notin s.lost /\ s.gpus[g][f].ok /\ s.gpus[g][f].value <= MaxUint32}]
           Out(s) == [g \in GPUs \cup {0} |-> IF g = 0 THEN {} ELSE IF g \in s.lost THEN lostGPU ELSE Conds(s, g)]
<1>1. PICK s \in sampled :
         /\ sampled' = {}
         /\ baselines' = [g \in GPUs |-> [f \in PolicyCounters |-> IF g \in s.lost THEN None ELSE Grown(s)[g][f].base]]
         /\ Completed(Out(s), Readable(s), FALSE)
         /\ UNCHANGED <<hwVars, threshold>>
  BY Zenon DEF PolicyEvaluate
<1>2. /\ check = "policies" /\ s.lost = lost
      /\ \A g \in GPUs : \A f \in PolicyCounters :
             s.gpus[g][f] \in Reading /\ (s.gpus[g][f].ok => s.gpus[g][f].value = hw[g][f])
      /\ \A g \in GPUs : \A f \in PolicyStates : StateReading(s.gpus[g][f], hw[g][f])
  BY <1>1 DEF ChecksInv, SampleInv
<1>3. CountersOf[check] = PolicyCounters
  BY <1>2 DEF CountersOf
<1> DEFINE grown == Grown(s)
           readable == Readable(s)
           conds == Out(s)
<1>4. UNCHANGED <<check, hw, lost, threshold>>
  BY <1>1 DEF hwVars
<1>5. readable \in [GPUs -> SUBSET CountersOf[check]]
  BY <1>3
<1>6. ASSUME NEW g \in GPUs, NEW f \in PolicyCounters
      PROVE  /\ f \in readable[g] <=> g \notin lost /\ s.gpus[g][f].ok /\ s.gpus[g][f].value <= MaxUint32
             /\ baselines'[g][f] = IF g \in lost THEN None ELSE grown[g][f].base
  BY <1>1, <1>2
<1>7. ASSUME NEW g \in GPUs, NEW f \in PolicyCounters
      PROVE  /\ grown[g][f].n > 0
                  <=> /\ s.gpus[g][f].ok /\ s.gpus[g][f].value <= MaxUint32
                      /\ baselines[g][f] # None /\ hw[g][f] > baselines[g][f]
             /\ grown[g][f].base = IF s.gpus[g][f].ok /\ s.gpus[g][f].value <= MaxUint32 THEN hw[g][f] ELSE None
  <2> DEFINE b == baselines[g][f]
             r == s.gpus[g][f]
  <2>1. CounterInv(g, f)
    BY <1>3 DEF ChecksInv
  <2>2. b \in Nat \cup {None} /\ r \in Reading /\ (r.ok => r.value = hw[g][f])
    BY <1>2, <2>1 DEF CounterInv
  <2>3. grown[g][f] = policyGrew(b, r, MaxUint32)
    OBVIOUS
  <2> HIDE DEF b, r, grown
  <2>4. /\ policyGrew(b, r, MaxUint32).n > 0 <=> r.ok /\ r.value <= MaxUint32 /\ b # None /\ r.value > b
        /\ policyGrew(b, r, MaxUint32).base = IF r.ok /\ r.value <= MaxUint32 THEN r.value ELSE None
    BY <2>2, PolicyGrewMeansGrowth, CountersAssumption, Zenon
  <2> QED
    BY <2>2, <2>3, <2>4, Zenon DEF b, r
<1>8. ASSUME NEW g \in GPUs \ lost
      PROVE  /\ Reports(conds[g], "dbeDevice") <=> grown[g].dbeDevice.n > 0
             /\ Reports(conds[g], "pcieReplays") <=> grown[g].pcieReplays.n > 0
             /\ \A i \in 1..Len(NvlinkErrorTotals) : Reports(conds[g], NvlinkErrorTotals[i]) <=> i \in First(s, g)
  <2> DEFINE D == When(Grown(s)[g].dbeDevice.n > 0, Cond("NvidiaDoubleBitError", 0, ""))
             P == When(Grown(s)[g].pcieReplays.n > 0, Cond("NvidiaPCIeError", 0, ""))
             first == First(s, g)
             signals == Signals(s, g)
             c == D \cup {Cond("NvidiaNVLinkError", i, "") : i \in first} \cup {Cond(k, 0, "") : k \in signals} \cup P
  <2>1. g # 0
    BY NamesAssumption
  <2>2. conds[g] = c
    BY <1>2, <2>1, Zenon
  <2>3. D \in SUBSET {Cond("NvidiaDoubleBitError", 0, "")} /\ (D # {} <=> grown[g].dbeDevice.n > 0)
    BY DEF When
  <2>4. P \in SUBSET {Cond("NvidiaPCIeError", 0, "")} /\ (P # {} <=> grown[g].pcieReplays.n > 0)
    BY DEF When
  <2>5. first \in SUBSET (1..Len(NvlinkErrorTotals)) /\ signals \in SUBSET PolicySignals
    BY Zenon
  <2> HIDE DEF D, P, first, signals, conds, grown
  <2>6. /\ Reports(c, "dbeDevice") <=> D # {}
        /\ Reports(c, "pcieReplays") <=> P # {}
        /\ \A i \in 1..Len(NvlinkErrorTotals) : Reports(c, NvlinkErrorTotals[i]) <=> i \in first
    BY <2>3, <2>4, <2>5, PolicyReports, Zenon
  <2> HIDE DEF c
  <2>7. \A i : i \in first <=> i \in First(s, g)
    BY Zenon DEF first
  <2> QED
    BY <2>2, <2>3, <2>4, <2>6, <2>7, Zenon
<1>9. ASSUME NEW g \in GPUs PROVE First(s, g) \subseteq Nvlink(s, g) /\ (Nvlink(s, g) # {} => First(s, g) # {})
  <2> DEFINE T == Nvlink(s, g)
  <2>1. T \in SUBSET (1..Len(NvlinkErrorTotals))
    BY Zenon
  <2>2. First(s, g) = {k \in T : \A j \in T : k <= j}
    BY Zenon
  <2> HIDE DEF T, First
  <2>3. T # {} => \E k \in T : \A j \in T : k <= j
    BY <2>1, FirstOfSome
  <2> QED
    BY <2>2, <2>3, Zenon DEF T
<1>10. ASSUME NEW g \in GPUs, NEW i \in 1..Len(NvlinkErrorTotals)
       PROVE  i \in Nvlink(s, g) <=> grown[g][NvlinkErrorTotals[i]].n > 0
  BY Zenon
<1> HIDE DEF Nvlink, First, grown, readable, conds
<1>11. ASSUME NEW g \in GPUs, NEW f \in PolicyCounters
       PROVE  /\ baselines'[g][f] = IF f \in readable[g] THEN hw[g][f] ELSE None
              /\ Reports(conds[g], f) => baselines[g][f] # None /\ hw[g][f] > baselines[g][f]
              /\ f \in readable[g] /\ baselines[g][f] # None /\ hw[g][f] > baselines[g][f]
                    => \/ Reports(conds[g], f)
                       \/ f \in TotalsOf /\ \E t \in TotalsOf : Reports(conds[g], t)
  <2>1. baselines'[g][f] = IF f \in readable[g] THEN hw[g][f] ELSE None
    BY <1>6, <1>7
  <2>2. CASE g \in lost
    <3>1. conds[g] = lostGPU
      BY <1>2, <2>2, NamesAssumption, Zenon DEF conds
    <3>2. ~Reports(lostGPU, f)
      BY DEF Reports, lostGPU, ClassifyXid, WellKnownXidCodes, Cond, HealthFatal
    <3> QED
      BY <1>6, <2>1, <2>2, <3>1, <3>2
  <2>3. CASE g \notin lost
    <3>1. f \in readable[g] /\ baselines[g][f] # None /\ hw[g][f] > baselines[g][f] <=> grown[g][f].n > 0
      BY <1>6, <1>7, <2>3
    <3>2. CASE f = "dbeDevice"
      <4>1. grown[g].dbeDevice = grown[g][f]
        BY <3>2
      <4> QED
        BY <1>8, <2>1, <2>3, <3>1, <3>2, <4>1
    <3>3. CASE f = "pcieReplays"
      <4>1. grown[g].pcieReplays = grown[g][f]
        BY <3>3
      <4> QED
        BY <1>8, <2>1, <2>3, <3>1, <3>3, <4>1
    <3>4. CASE f \in TotalsOf
      <4>1. PICK i \in 1..Len(NvlinkErrorTotals) : f = NvlinkErrorTotals[i]
        BY <3>4 DEF TotalsOf
      <4>2. Reports(conds[g], f) <=> i \in First(s, g)
        BY <1>8, <2>3, <4>1
      <4>3. i \in Nvlink(s, g) <=> grown[g][f].n > 0
        BY <1>10, <4>1
      <4>4. ASSUME grown[g][f].n > 0 PROVE \E t \in TotalsOf : Reports(conds[g], t)
        <5>1. PICK k \in First(s, g) : TRUE
          BY <1>9, <4>3, <4>4
        <5>2. k \in 1..Len(NvlinkErrorTotals)
          BY <1>9, <5>1 DEF Nvlink
        <5>3. NvlinkErrorTotals[k] \in TotalsOf /\ Reports(conds[g], NvlinkErrorTotals[k])
          BY <1>8, <2>3, <5>1, <5>2 DEF TotalsOf
        <5> QED
          BY <5>3
      <4> QED
        BY <1>9, <2>1, <3>1, <3>4, <4>2, <4>3, <4>4
    <3> QED
      BY <3>2, <3>3, <3>4 DEF PolicyCounters
  <2> QED
    BY <2>2, <2>3
<1>12. /\ out'.conds = conds
       /\ out'.real = [g \in GPUs |-> {f \in CountersOf[check] : fresh[g][f]}]
       /\ out'.owed = [g \in GPUs |-> {f \in CountersOf[check] : fresh[g][f] /\ f \in readable[g] /\ steady[g][f]}]
       /\ fresh' = [g \in GPUs |-> [f \in CountersOf[check] |-> FALSE]]
       /\ steady' = [g \in GPUs |-> [f \in CountersOf[check] |-> f \in readable[g]]]
  <2>1. Completed(conds, readable, FALSE)
    BY <1>1, Zenon DEF conds, readable
  <2> QED
    BY <2>1 DEF Completed
<1>13. \A g \in GPUs : \A f \in CountersOf[check] :
             /\ baselines'[g][f] = IF f \in readable[g] THEN hw[g][f] ELSE None
             /\ Reports(out'.conds[g], f) => baselines[g][f] # None /\ hw[g][f] > baselines[g][f]
             /\ f \in readable[g] /\ baselines[g][f] # None /\ hw[g][f] > baselines[g][f] => Answered(g, f)'
  BY <1>3, <1>11, <1>12, Zenon DEF Answered
<1>14. sampled' \subseteq sampled
  BY <1>1
<1>15. ChecksInv' /\ CountersExact'
  BY <1>4, <1>5, <1>12, <1>13, <1>14, CompletedPoll, Zenon
<1>16. ASSUME NEW g \in GPUs, Sound(g)', out'.real[g] = {}
       PROVE  conds[g] = {}
  <2>1. g \notin lost /\ \A f \in FieldsOf[check] \ CountersOf[check] : hw[g][f] = Healthy[f]
    BY <1>4, <1>16 DEF Sound
  <2>2. PolicyStates \subseteq FieldsOf[check] \ CountersOf[check]
    BY <1>2, <1>3, NamesAssumption DEF FieldsOf, PolicyFields, PolicyStates, PolicyCounters
  <2>3. \A f \in PolicyStates : StateReading(s.gpus[g][f], Healthy[f])
    BY <1>2, <2>1, <2>2
  <2>4. \A p \in PolicySignals : ~Over(PolicyLevels(s.gpus[g])[p])
    BY <2>3, HealthySampleIsWithinLimits DEF ChecksInv, ChecksTyped
  <2>5. Signals(s, g) = {}
    <3>1. Levels(s)[g] = PolicyLevels(s.gpus[g])
      OBVIOUS
    <3> HIDE DEF Levels
    <3> QED
      BY <2>4, <3>1 DEF report
  <2>6. \A f \in PolicyCounters : ~Reports(conds[g], f)
    BY <1>3, <1>4, <1>12, <1>15, <1>16 DEF CountersExact
  <2>7. "dbeDevice" \in PolicyCounters /\ "pcieReplays" \in PolicyCounters /\ TotalsOf \subseteq PolicyCounters
    BY DEF PolicyCounters
  <2>8. ~(Grown(s)[g].dbeDevice.n > 0) /\ ~(Grown(s)[g].pcieReplays.n > 0)
    BY <1>8, <2>1, <2>6, <2>7, Zenon DEF grown
  <2>9. First(s, g) = {}
    <3>1. \A i \in 1..Len(NvlinkErrorTotals) : NvlinkErrorTotals[i] \in PolicyCounters
      BY <2>7 DEF TotalsOf
    <3>2. First(s, g) \subseteq 1..Len(NvlinkErrorTotals)
      BY <1>9 DEF Nvlink
    <3> QED
      BY <1>8, <2>1, <2>6, <3>1, <3>2
  <2>10. conds[g] = Conds(s, g)
    BY <1>2, <2>1, NamesAssumption, Zenon DEF conds
  <2> HIDE DEF Signals, Grown
  <2> QED
    BY <2>5, <2>8, <2>9, <2>10 DEF When
<1>17. HealthyGpuIsQuiet'
  BY <1>2, <1>4, <1>12, <1>16 DEF HealthyGpuIsQuiet
<1> QED
  BY <1>15, <1>17 DEF PollsRight

\* A field of the hardware changes: a counter that grows is fresh from then
\* on, one that drops is no longer steady.
LEMMA StepHardware ==
  ASSUME ChecksInv, NEW g \in GPUs, NEW f \in FieldsOf[check], NEW v \in Values[f], HardwareChange(g, f, v)
  PROVE  ChecksInv' /\ PollsRight'
<1>1. /\ sampled = {} /\ UNCHANGED <<sampled, check, baselines, threshold>>
      /\ hw' = [hw EXCEPT ![g] = [hw[g] EXCEPT ![f] = v]]
      /\ out' = Quiet
  BY DEF HardwareChange, policyVars
<1>2. ChecksTyped
  BY DEF ChecksInv
<1>3. ASSUME NEW h \in GPUs, NEW d \in FieldsOf[check]
      PROVE  hw'[h][d] = IF h = g /\ d = f THEN v ELSE hw[h][d]
  BY <1>1, <1>2 DEF ChecksTyped
<1>4. DOMAIN hw' = GPUs /\ \A h \in GPUs : DOMAIN hw'[h] = FieldsOf[check]
  BY <1>1, <1>2 DEF ChecksTyped
<1>5. fresh' = IF f \in CountersOf[check] /\ v > hw[g][f] THEN [fresh EXCEPT ![g] = [fresh[g] EXCEPT ![f] = TRUE]] ELSE fresh
  BY DEF HardwareChange
<1>6. steady' = IF f \in CountersOf[check] /\ v < hw[g][f] THEN [steady EXCEPT ![g] = [steady[g] EXCEPT ![f] = FALSE]] ELSE steady
  BY DEF HardwareChange
<1>7. ChecksTyped'
  <2>1. fresh' \in [GPUs -> [CountersOf[check] -> BOOLEAN]]
    BY <1>2, <1>5 DEF ChecksTyped
  <2>2. steady' \in [GPUs -> [CountersOf[check] -> BOOLEAN]]
    BY <1>2, <1>6 DEF ChecksTyped
  <2> QED
    BY <1>1, <1>2, <1>4, <2>1, <2>2 DEF ChecksTyped
<1>8. ASSUME NEW h \in GPUs, NEW d \in CountersOf[check] PROVE CounterInv(h, d)'
  <2>1. CounterInv(h, d)
    BY DEF ChecksInv
  <2>2. d \in FieldsOf[check]
    BY <1>2, CountersAreFields DEF ChecksTyped
  <2>3. CASE h = g /\ d = f
    <3>1. hw'[h][d] = v /\ v \in Nat /\ v # hw[h][d] /\ hw[h][d] \in Nat
      BY <1>2, <1>3, <2>1, <2>2, <2>3, CountersAreFields DEF ChecksTyped, CounterInv, HardwareChange
    <3>2. CASE v > hw[h][d]
      <4>1. /\ fresh' = [fresh EXCEPT ![g] = [fresh[g] EXCEPT ![f] = TRUE]]
            /\ steady' = steady
        BY <1>5, <1>6, <2>3, <3>1, <3>2
      <4>2. fresh'[h][d]
        BY <1>2, <2>3, <4>1 DEF ChecksTyped
      <4> QED
        BY <1>1, <2>1, <3>1, <3>2, <4>1, <4>2 DEF CounterInv, None
    <3>3. CASE v < hw[h][d]
      <4>1. /\ steady' = [steady EXCEPT ![g] = [steady[g] EXCEPT ![f] = FALSE]]
            /\ fresh' = fresh
        BY <1>5, <1>6, <2>3, <3>1, <3>3
      <4>2. ~steady'[h][d]
        BY <1>2, <2>3, <4>1 DEF ChecksTyped
      <4> QED
        BY <1>1, <2>1, <3>1, <3>3, <4>1, <4>2 DEF CounterInv, None
    <3> QED
      BY <3>1, <3>2, <3>3
  <2>4. CASE ~(h = g /\ d = f)
    <3>1. hw'[h][d] = hw[h][d]
      BY <1>3, <2>2, <2>4
    <3>a. fresh \in [GPUs -> [CountersOf[check] -> BOOLEAN]] /\ steady \in [GPUs -> [CountersOf[check] -> BOOLEAN]]
      BY <1>2 DEF ChecksTyped
    <3>2. fresh'[h][d] = fresh[h][d]
      BY <1>5, <2>4, <3>a
    <3>3. steady'[h][d] = steady[h][d]
      BY <1>6, <2>4, <3>a
    <3> QED
      BY <1>1, <2>1, <3>1, <3>2, <3>3 DEF CounterInv
  <2> QED
    BY <2>3, <2>4
<1>9. SampleInv'
  BY <1>1 DEF SampleInv
<1>10. PollsRight'
  <2>1. (out = Quiet)'
    BY <1>1 DEF Quiet
  <2> QED
    BY <2>1, QuietIsRight, PTL
<1> QED
  BY <1>1, <1>7, <1>8, <1>9, <1>10 DEF ChecksInv

\* The steps that complete no poll leave the counters alone.
LEMMA StepQuiet ==
  ASSUME ChecksInv, out' = Quiet, UNCHANGED <<check, hw, baselines, histVars>>,
         sampled' = {} \/ UNCHANGED <<sampled, lost>>, threshold' \in {0, 250}
  PROVE  ChecksInv' /\ PollsRight'
<1>1. PollsRight'
  <2>1. (out = Quiet)'
    BY DEF Quiet
  <2> QED
    BY <2>1, QuietIsRight, PTL
<1>2. \A g \in GPUs : \A f \in CountersOf[check] : CounterInv(g, f)'
  BY DEF ChecksInv, CounterInv, histVars
<1>3. SampleInv'
  BY DEF ChecksInv, SampleInv
<1>4. ChecksTyped'
  BY DEF ChecksInv, ChecksTyped, histVars
<1> QED
  BY <1>1, <1>2, <1>3, <1>4 DEF ChecksInv

\* Each step of the checks and of the hardware keeps the counters exact.
LEMMA StepChecks == ChecksInv /\ PollsRight /\ [ChecksNext]_vars => ChecksInv' /\ PollsRight'
<1> SUFFICES ASSUME ChecksInv, PollsRight, [ChecksNext]_vars PROVE ChecksInv' /\ PollsRight'
  OBVIOUS
<1>1. ASSUME NEW failed, HealthPoll(failed) PROVE ChecksInv' /\ PollsRight'
  BY <1>1, StepHealth
<1>2. ASSUME NEW failed, PolicyRead(failed) PROVE ChecksInv' /\ PollsRight'
  <2>1. /\ check = "policies" /\ out' = Quiet /\ UNCHANGED <<check, hw, lost, baselines, threshold, fresh, steady>>
        /\ sampled' = {[gpus |-> [g \in GPUs |-> readPolicyGPU(g, failed[g], threshold = 0)], lost |-> lost]}
    BY <1>2 DEF PolicyRead, hwVars, histVars
  <2>2. PollsRight'
    <3>1. (out = Quiet)'
      BY <2>1 DEF Quiet
    <3> QED
      BY <3>1, QuietIsRight, PTL
  <2>3. ASSUME NEW g \in GPUs, NEW f \in CountersOf[check] PROVE CounterInv(g, f) /\ CounterInv(g, f)'
    BY <2>1 DEF ChecksInv, CounterInv
  <2>4. SampleInv'
    <3> DEFINE unset == threshold = 0
               gpus == [g \in GPUs |-> readPolicyGPU(g, failed[g], unset)]
    <3>1. CountersOf[check] = PolicyCounters
      BY <2>1 DEF CountersOf
    <3> HIDE DEF unset
    <3>2. ASSUME NEW g \in GPUs, NEW f \in PolicyCounters
          PROVE  gpus[g][f] \in Reading /\ (gpus[g][f].ok => gpus[g][f].value = hw[g][f])
      <4>1. hw[g][f] \in Nat
        BY <2>3, <3>1 DEF CounterInv
      <4> QED
        BY <4>1, PolicyReading
    <3>a. ASSUME NEW g \in GPUs, NEW f \in PolicyStates PROVE StateReading(gpus[g][f], hw[g][f])
      BY PolicyStateReading
    <3>3. sampled' = {[gpus |-> gpus, lost |-> lost]}
      BY <2>1, Zenon DEF unset
    <3> HIDE DEF gpus
    <3> QED
      BY <2>1, <3>2, <3>a, <3>3 DEF SampleInv
  <2>5. ChecksTyped'
    BY <2>1 DEF ChecksInv, ChecksTyped
  <2> QED
    BY <2>1, <2>2, <2>3, <2>4, <2>5 DEF ChecksInv
<1>3. ASSUME NEW failed, NEW call \in BOOLEAN, NEW files, NEW expected, DevicesPoll(failed, call, files, expected)
      PROVE  ChecksInv' /\ PollsRight'
  <2> DEFINE fabric == UNION {Selected(GpuFabric(g, failed[g], call)) : g \in GPUs}
             node == IF lost # {} THEN {} ELSE ClassifyCounts(Cardinality(GPUs), files, expected)
             conds == [g \in GPUs \cup {0} |->
                          IF g = 0 THEN node \cup SuppressRepeatedWarnings(fabric).out
                          ELSE GpuFabric(g, failed[g], call) \ fabric]
  <2>1. check = "devices" /\ UNCHANGED <<check, hw, lost, baselines, sampled, threshold>>
    BY <1>3, Zenon DEF DevicesPoll, hwVars, policyVars
  <2>2. Completed(conds, [g \in GPUs |-> {}], FALSE)
    BY <1>3, Zenon DEF DevicesPoll
  <2> HIDE DEF node
  <2>3. CountersOf[check] = {} /\ DeviceFields = FieldsOf[check] \ CountersOf[check]
    BY <2>1 DEF CountersOf, FieldsOf
  <2>4. ASSUME NEW g \in GPUs, Sound(g)' PROVE conds[g] = {}
    <3>1. g \notin lost /\ \A f \in DeviceFields : hw[g][f] = Healthy[f]
      BY <2>1, <2>3, <2>4 DEF Sound
    <3>2. \A c \in GpuFabric(g, failed[g], call) : c[1] = "FabricManagerNotRunningWarning"
      BY <3>1, HealthyFabric
    <3>3. GpuFabric(g, failed[g], call) \subseteq fabric
      BY <3>2 DEF Selected
    <3> HIDE DEF fabric
    <3> QED
      BY <3>3, NamesAssumption
  <2> HIDE DEF conds
  <2>5. out'.conds = conds
    BY <2>2 DEF Completed
  <2>6. /\ fresh' = [g \in GPUs |-> [f \in CountersOf[check] |-> FALSE]]
        /\ steady' = [g \in GPUs |-> [f \in CountersOf[check] |-> f \in [h \in GPUs |-> {}][g]]]
    BY <2>2 DEF Completed
  <2>7. ChecksTyped' /\ SampleInv'
    BY <2>1, <2>3, <2>6 DEF ChecksInv, ChecksTyped, SampleInv
  <2>8. ChecksInv' /\ CountersExact'
    BY <2>1, <2>3, <2>7 DEF ChecksInv, CountersExact
  <2>9. HealthyGpuIsQuiet'
    BY <2>1, <2>4, <2>5 DEF HealthyGpuIsQuiet
  <2> QED
    BY <2>8, <2>9 DEF PollsRight
<1>4. CASE PolicyEvaluate
  BY <1>4, StepPolicy
<1>5. ASSUME NEW g \in GPUs, NEW xid, XidEvent(g, xid) PROVE ChecksInv' /\ PollsRight'
  <2>1. check = "xid" /\ UNCHANGED <<check, hw, lost, baselines, sampled, threshold, fresh, steady>>
    BY <1>5 DEF XidEvent, hwVars, policyVars, histVars
  <2>2. CountersOf[check] = {}
    BY <2>1 DEF CountersOf
  <2> QED
    BY <2>1, <2>2 DEF ChecksInv, ChecksTyped, SampleInv, PollsRight, CountersExact, HealthyGpuIsQuiet
<1>6. ASSUME NEW g \in GPUs, NEW f \in FieldsOf[check], NEW v \in Values[f], HardwareChange(g, f, v)
      PROVE  ChecksInv' /\ PollsRight'
  BY <1>6, StepHardware
<1>7. CASE SetPowerThreshold \/ PollFails \/ XidRegister \/ Tick
  BY <1>7, StepQuiet DEF SetPowerThreshold, PollFails, XidRegister, Tick, hwVars, policyVars, ChecksInv, ChecksTyped
<1>8. ASSUME NEW g \in GPUs, HardwareLost(g) PROVE ChecksInv' /\ PollsRight'
  BY <1>8, StepQuiet DEF HardwareLost, policyVars, ChecksInv, ChecksTyped
<1>9. CASE UNCHANGED vars
  <2>1. UNCHANGED <<check, hw, lost, baselines, sampled, threshold, inforom, fresh, steady, out, notified>>
    BY <1>9 DEF vars, hwVars, healthVars, policyVars, histVars
  <2>2. ChecksInv'
    BY <2>1 DEF ChecksInv, ChecksTyped, CounterInv, SampleInv
  <2>3. PollsRight'
    BY <2>1 DEF PollsRight, CountersExact, Answered, HealthyGpuIsQuiet, Sound
  <2> QED
    BY <2>2, <2>3
<1> QED
  BY <1>1, <1>2, <1>3, <1>4, <1>5, <1>6, <1>7, <1>8, <1>9 DEF ChecksNext

\* A counter is reported only if it grew since the last completed poll, and
\* growth that two polls in a row could read is never missed: for any GPUs,
\* tables of counters, values, limits, and any number of failed reads, stuck
\* polls, resets and lost GPUs (Health.grew, Policies.grew).
THEOREM CountersAreExact == ChecksSpec => []CountersExact
<1>1. PollsRight => CountersExact
  BY DEF PollsRight
<1> QED
  BY <1>1, InitChecks, StepChecks, PTL DEF ChecksSpec

\* A GPU with no fault is never reported, whatever reads fail or other GPUs do,
\* and links that are down are no fault while a GPU is known to be in MIG mode:
\* for any GPUs whose healthy values are within the limits (evaluate of
\* health.go, policy.go and devices.go).
THEOREM HealthyGpusAreQuiet == ChecksSpec => []HealthyGpuIsQuiet
<1>1. PollsRight => HealthyGpuIsQuiet
  BY DEF PollsRight
<1> QED
  BY <1>1, InitChecks, StepChecks, PTL DEF ChecksSpec

=============================================================================
