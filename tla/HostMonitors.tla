---------------------------- MODULE HostMonitors ----------------------------
(***************************************************************************)
(* The periodic checks of the kernel, storage, container-runtime and       *)
(* networking monitors, and the probe runner the latter starts.  Each runs *)
(* on a goroutine and a ticker of its own and shares no state with the     *)
(* others, so a behaviour follows one check.                               *)
(***************************************************************************)
EXTENDS KernelMonitor, StorageMonitor, RuntimeMonitor, NetworkingMonitor, NetworkingCounters, IPTables,
        ProbeRunner

VARIABLE check  \* the check that is followed

kernelVars == <<cronVars, zombieVars, levels>>
storageVars == <<ioVars, ebsVars, xfsOut>>
runtimeVars == <<unitVars, manifestVars, probeVars>>
networkVars == <<ipamdVars, interfaceVars, routeVars, ruleVars, netOut>>
counterVars == <<ethtoolVars, npaVars, corefileVars, efaVars>>
vars == <<check, kernelVars, storageVars, runtimeVars, networkVars, counterVars, runnerVars>>

Followable == {"cron", "zombies", "levels", "io", "ebs", "xfs", "units", "manifest", "probes", "ipamd", "interfaces",
               "routes", "iptables", "settings", "ethtool", "npa", "corefile", "efa",
               "probe runner"}

\* The checks that are not followed keep one initial state.
Init ==
    /\ check \in Followable
    /\ CronInit /\ ZombieInit /\ levels = {}
    /\ IoInit /\ EbsInit /\ xfsOut = {} /\ (check # "ebs" => \A v \in Volumes : stats[v] = 0)
    /\ UnitInit /\ ManifestInit /\ ProbeInit
    /\ check # "units" => \A u \in Units : nRestarts[u] = 0
    /\ check # "manifest" => annotation = None
    /\ IpamdInit /\ InterfaceInit /\ RouteInit /\ RuleInit /\ netOut = {} /\ (check # "iptables" => ~hybrid)
    /\ EthtoolInit /\ NpaInit /\ CorefileInit /\ EfaInit
    /\ check # "ethtool" => \A s \in Stats : counts[s] = 0
    /\ check # "efa" => efaCount = 0
    /\ RunnerInit /\ (check # "probe runner" => ~inGrace)

KernelNext ==
    \/ check = "cron" /\ CronNext /\ UNCHANGED <<zombieVars, levels>>
    \/ check = "zombies" /\ ZombieNext /\ UNCHANGED <<cronVars, levels>>
    \/ check = "levels" /\ LevelPoll /\ UNCHANGED <<cronVars, zombieVars>>
StorageNext ==
    \/ check = "io" /\ IoNext /\ UNCHANGED <<ebsVars, xfsOut>>
    \/ check = "ebs" /\ EbsNext /\ UNCHANGED <<ioVars, xfsOut>>
    \/ check = "xfs" /\ XfsPoll /\ UNCHANGED <<ioVars, ebsVars>>
RuntimeNext ==
    \/ check = "units" /\ UnitNext /\ UNCHANGED <<manifestVars, probeVars>>
    \/ check = "manifest" /\ ManifestNext /\ UNCHANGED <<unitVars, probeVars>>
    \/ check = "probes" /\ ProbeNext /\ UNCHANGED <<unitVars, manifestVars>>
NetworkNext ==
    \/ check = "ipamd" /\ IpamdNext /\ UNCHANGED <<interfaceVars, routeVars, ruleVars, netOut>>
    \/ check = "interfaces" /\ InterfaceNext /\ UNCHANGED <<ipamdVars, routeVars, ruleVars, netOut>>
    \/ check = "routes" /\ RouteNext /\ UNCHANGED <<ipamdVars, interfaceVars, ruleVars, netOut>>
    \/ check = "iptables" /\ RuleNext /\ UNCHANGED <<ipamdVars, interfaceVars, routeVars, netOut>>
    \/ check = "settings" /\ NetPoll /\ UNCHANGED <<ipamdVars, interfaceVars, routeVars, ruleVars>>
CounterNext ==
    \/ check = "ethtool" /\ EthtoolNext /\ UNCHANGED <<npaVars, corefileVars, efaVars>>
    \/ check = "npa" /\ NpaNext /\ UNCHANGED <<ethtoolVars, corefileVars, efaVars>>
    \/ check = "corefile" /\ CorefileNext /\ UNCHANGED <<ethtoolVars, npaVars, efaVars>>
    \/ check = "efa" /\ EfaNext /\ UNCHANGED <<ethtoolVars, npaVars, corefileVars>>

Next ==
    /\ \/ KernelNext /\ UNCHANGED <<storageVars, runtimeVars, networkVars, counterVars, runnerVars>>
       \/ StorageNext /\ UNCHANGED <<kernelVars, runtimeVars, networkVars, counterVars, runnerVars>>
       \/ RuntimeNext /\ UNCHANGED <<kernelVars, storageVars, networkVars, counterVars, runnerVars>>
       \/ NetworkNext /\ UNCHANGED <<kernelVars, storageVars, runtimeVars, counterVars, runnerVars>>
       \/ CounterNext /\ UNCHANGED <<kernelVars, storageVars, runtimeVars, networkVars, runnerVars>>
       \/ check = "probe runner" /\ RunnerNext
          /\ UNCHANGED <<kernelVars, storageVars, runtimeVars, networkVars, counterVars>>
    /\ UNCHANGED check
Spec == Init /\ [][Next]_vars

-----------------------------------------------------------------------------
(* Properties *)

\* The storage monitor's deltas (IODelaysExact, ThrottlingNotMissed): neither
\* the reuse of a process ID nor growth below the threshold misleads it.
StorageDeltasExact == IODelaysExact /\ ThrottlingNotMissed

\* Faults that are Fatal and would have the node repaired are reported only if
\* an earlier observation of the same thing confirms them, but for a missing
\* loopback, and if they are observed again they are reported
\* (IPAMDSeenDownTwice, InterfaceFaultsConfirmed, NPADownIsSustained).
FatalFaultsConfirmed == IPAMDSeenDownTwice /\ InterfaceFaultsConfirmed /\ NPADownIsSustained

\* Rate-limited warnings (probes, ENA allowances, EFA counters, Corefile):
\* none below the safe rate, none lost that is due.
WarningsPaced == SafeRateIsQuiet /\ EthtoolSpikesOnly /\ EFABurstsOnly /\ CorefileToldWhenDue
=============================================================================
