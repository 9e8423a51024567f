SPECIFICATION FairAgentSpec
CONSTANTS
  t1 = t1  r1 = r1  r2 = r2  r3 = r3  m1 = m1  kernel = kernel  plugin = plugin
  Types = {t1}
  Configured = {t1}
  Foreign = {}
  Reasons = {r1, r2, r3}
  Messages = {m1}
  NoMessage = NoMessage
  Absent = Absent
  MaxReports = 3
  MaxNow = 0
  MaxRestarts = 1
  Monitors = {kernel, plugin}
  TypeOf <- MCTypeOf
  Catalog <- MCCatalog
  Polls <- MCPolls
  Capacity = 1
  MaxSends = 3
INVARIANTS
  GaugeFollowsEntries
  VerdictsKeptWhenQuiet
PROPERTIES
  NotifyReturns
  FatalReachesNode
  RemovedConditionReturns
