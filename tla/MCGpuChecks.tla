----------------------------- MODULE MCGpuChecks -----------------------------
\* Two GPUs.  Two of the NVLink error counters stand for all: one that needs
\* the compute capability and one that does not; two of the NVLink totals.
EXTENDS GpuChecks, TLC
MCCounters == {"symbolErrors", "eccErrors"}
MCTotals == <<"crcFlit", "recovery">>
MCFields == HealthFields \cup PolicyFields \cup DeviceFields \cup {"registers"}
MCHealthy == [f \in MCFields |->
    CASE f = "computeMajor" -> 9
      [] f \in {"effectiveBER", "symbolBER"} -> 15 * 256 + 255
      [] f = "temperature" -> 100
      [] f = "powerMW" -> 250999
      [] f = "powerLimitMW" -> 300000
      [] f = "fabricState" -> "COMPLETED"
      [] f = "fabricStatus" -> "SUCCESS"
      [] f = "healthMask" -> 128
      [] f = "registers" -> "SUCCESS"
      [] OTHER -> 0]
MCValues == [f \in MCFields |->
    CASE f = "computeMajor" -> {9, 10}
      [] f = "effectiveBER" -> {10 * 256 + 13, 11 * 256 + 13}
      [] f = "symbolBER" -> {256 + 237}
      [] f = "retiredSBE" -> {63}
      [] f = "retiredDBE" -> {16}
      [] f = "remapUncorrectable" -> {512}
      [] f = "recoveryAction" -> {3, 4}
      [] f = "temperature" -> {100, 101}
      [] f = "powerMW" -> {250999, 251000, 301000}
      [] f = "powerLimitMW" -> {300000}
      [] f = "fabricState" -> {"COMPLETED", "IN_PROGRESS", "UNKNOWN"}
      [] f = "fabricStatus" -> {"SUCCESS", "ERROR"}
      [] f = "healthMask" -> {128, 64, 256, 512}
      [] f = "registers" -> {"SUCCESS", "NOT_SUPPORTED", "UNKNOWN"}
      [] f = "dbeDevice" -> {0, 1, 4}
      [] f \in PolicyCounters -> {0, 1}
      [] f = "eccErrors" -> {0, 1, 2}
      [] OTHER -> {0, 1}]
MCFailing == {{}, {Handle}, {"mig", "computeMajor", "thermal"}, {"dbeDevice", "powerLimitMW"}}
MCSymmetry == Permutations(GPUs)
=============================================================================
