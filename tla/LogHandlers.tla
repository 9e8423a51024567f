---------------------------- MODULE LogHandlers ----------------------------
(***************************************************************************)
(* What the monitors make of one log line: the handlers of the kernel,     *)
(* storage, runtime, neuron and networking monitors.  A line is the set of *)
(* the patterns it matches; a handler yields the set of conditions it      *)
(* notifies, <<reason, severity, minimum of occurrences>>.                 *)
(***************************************************************************)
EXTENDS Integers, Sequences, FiniteSetsExt

\* The reasons of these monitors whose default severity is Fatal.
RuntimeFatal == {"PodStuckTerminating"}
KernelFatal == {"ForkFailedOutOfPIDs"}
NetworkingFatal ==
    {"IPAMDNotReady", "IPAMDNotRunning", "InterfaceNotRunning", "InterfaceNotUp", "MissingLoopbackInterface", "NPANotRunning"}
NeuronFatal ==
    {"NeuronSRAMUncorrectableError", "NeuronNCUncorrectableError", "NeuronHBMUncorrectableError", "NeuronDMAError"}
DefaultSeverity(reason) ==
    IF reason \in RuntimeFatal \cup KernelFatal \cup NetworkingFatal \cup NeuronFatal THEN "Fatal" ELSE "Warning"

\* Builder, MinOccurrences and Build.
MinOccurrences(reason) ==
    CASE reason \in {"IPAMDRepeatedlyRestart", "ExcessiveZombieProcesses"} -> 5
      [] reason = "PodStuckTerminating" -> 2
      [] OTHER -> 0
Build(reason) == <<reason, DefaultSeverity(reason), MinOccurrences(reason)>>

\* A chain of else-ifs: the first rule with a pattern that matches.
FirstMatch(rules, line) ==
    LET hits == {i \in DOMAIN rules : rules[i].patterns \cap line # {}}
    IN  IF hits = {} THEN {} ELSE {Build(rules[Min(hits)].reason)}
Rule(patterns, reason) == [patterns |-> patterns, reason |-> reason]

-----------------------------------------------------------------------------
\* kernel: handleDmesg and handleKubelet.
kernelDmesg(line) == FirstMatch(
    <<Rule({"softLockup"}, "SoftLockup"), Rule({"kernelBug"}, "KernelBug"), Rule({"appCrash"}, "AppCrash"),
      Rule({"appBlocked"}, "AppBlocked"), Rule({"conntrackExceeded"}, "ConntrackExceededKernel")>>, line)
kernelKubelet(line) == FirstMatch(<<Rule({"forkFailedOutOfPid", "goRuntimeOutOfPid"}, "ForkFailedOutOfPIDs")>>, line)

\* storage: handleBlockDeviceIOErrors, handleKubeletLogs, handleVarLogMessages.
storageDmesg(line) == FirstMatch(
    <<Rule({"ioErrorEndRequest", "ioErrorBufferIO", "ioErrorBlkUpdate"}, "BlockDeviceIOError")>>, line)
storageKubelet(line) == FirstMatch(<<Rule({"diskUsageSlow"}, "KubeletDiskUsageSlow")>>, line)
storageMessages(line) == FirstMatch(<<Rule({"etcHostsIsDir"}, "EtcHostsMountFailed")>>, line)

\* runtime: handleSystemd, and handleKubelet; the rules for failing probes
\* apply only to a line that exceeds the limiter, which the caller decides.
runtimeSystemd(line) == FirstMatch(<<Rule({"failedToStart"}, "ServiceFailedToStart")>>, line)
runtimeKubelet(line) == FirstMatch(
    <<Rule({"podStuckTerminating"}, "PodStuckTerminating"), Rule({"enteredFailedState"}, "KubeletFailed"),
      Rule({"ociRuntimeCreateFailed"}, "ContainerRuntimeFailed"),
      Rule({"readinessOverLimit"}, "ReadinessProbeFailures"), Rule({"livenessOverLimit"}, "LivenessProbeFailures")>>, line)

\* neuron: every rule that matches, not only the first.
neuronDmesg(line) ==
    {Build(r) : r \in {"NeuronSRAMUncorrectableError" : x \in line \cap {"SRAM_UNCORRECTABLE_ERROR"}}
                    \cup {"NeuronNCUncorrectableError" : x \in line \cap {"NC_UNCORRECTABLE_ERROR"}}
                    \cup {"NeuronHBMUncorrectableError" : x \in line \cap {"HBM_UNCORRECTABLE_ERROR"}}
                    \cup {"NeuronDMAError" : x \in line \cap {"DMA_ERROR"}}}

\* networking: handleIPAMDLogs and handleKubeProxy.
networkingIPAMD(line) == FirstMatch(
    <<Rule({"missingToken", "unableToReachAPI", "failedAPICheck"}, "IPAMDNotReady"),
      Rule({"startingIPAMD"}, "IPAMDRepeatedlyRestart"), Rule({"insufficientAddresses"}, "IPAMDNoIPs")>>, line)
networkingKubeProxy(line) == FirstMatch(<<Rule({"failedToWatchList"}, "KubeProxyNotReady")>>, line)

\* Who listens to what (the monitors' Register).
Handlers(source) ==
    CASE source = "dmesg" -> {"kernel", "storage", "neuron"}
      [] source = "kubelet" -> {"kernel", "storage", "runtime"}
      [] source = "systemd" -> {"runtime"}
      [] source = "messages" -> {"storage"}
      [] OTHER -> {"networking"}
Handle(monitor, source, line) ==
    CASE monitor = "kernel" -> IF source = "dmesg" THEN kernelDmesg(line) ELSE kernelKubelet(line)
      [] monitor = "storage" /\ source = "dmesg" -> storageDmesg(line)
      [] monitor = "storage" /\ source = "kubelet" -> storageKubelet(line)
      [] monitor = "storage" -> storageMessages(line)
      [] monitor = "runtime" -> IF source = "systemd" THEN runtimeSystemd(line) ELSE runtimeKubelet(line)
      [] monitor = "neuron" -> neuronDmesg(line)
      [] OTHER -> IF source = "ipamd" THEN networkingIPAMD(line) ELSE networkingKubeProxy(line)
=============================================================================
