SPECIFICATION MCSpec
CONSTANTS
  Requests = {r1, r2}
  Procs = {p1, p2}
  none = none
  noProc = noProc
  NoProc = noProc
  None <- MCNone
  acc1 = acc1
  userA = userA
  DefaultUser = userA
  Scopes <- MCScopes
  SensitiveActions <- MCSensitive
  ExternalActions <- MCExternal
  Canon <- MCCanon
  EmptyTarget = ""
  MaxTime = 1
  Idle = idle
  Flows = {f1, f2}
  Orchs = {o1}
  Absent = absent
  Torn = torn
  SkillTexts = {"good", "better", "risky"}
  Critical = {"risky"}
  Warned = {"better"}
  Nothing = nothing
  Broken = broken
  MaxVersion = 1
  MaxJobs = 2
  MaxRegistrations = 2
  Tasks = {t1, t2}
  TaskKeys = {k1, k2}
  Resources = {n1}
  MaxStops = 2
  Jobs = {j1, j2}
  Lessons = {l1}
  Shared = {x1, x2}
  MaxFailures = 1
SYMMETRY Symmetry
INVARIANTS ClientsTypeOK TokenIsPrivate GrantIsExact GatesEarned HandoffWasConfirmed TrustedIsVetted RunsAreVouchedFor StopsHold RecordsAreConsented
PROPERTIES HolderSettles NoExpiredGrant ImplementsOneTimeApproval
CHECK_DEADLOCK FALSE
