SPECIFICATION ExporterSpec
CONSTANTS
  t1 = t1  t2 = t2  f1 = f1  r1 = r1  r2 = r2  m1 = m1
  Types = {t1, t2}
  Configured = {t1}
  Foreign = {f1}
  Reasons = {r1, r2}
  Messages = {}
  NoMessage = NoMessage
  Absent = Absent
  MaxReports = 3
  MaxNow = 1
  MaxRestarts = 1
INVARIANTS
  ExporterTypeOK
  ConditionReflectsEntries
  CleanIsPublished
PROPERTIES
  TransitionFollowsStatus
  RecoveryMeansResolved
  ImplementsNodeHealth
