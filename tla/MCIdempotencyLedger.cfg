SPECIFICATION MCSpec
CONSTANTS
  Keys = {k1, k2}
  Requests = {a1, a2}
  Procs = {p1, p2}
  none = none
  noProc = noProc
  NoProc = noProc
  None <- MCNone
  acc1 = acc1
  DefaultUser = "user_default"
  Scopes <- MCScopes
  CallOf <- MCCallOf
  Accounts = {acc1}
  AccountOf <- MCAccountOf
  BrowserScope <- MCBrowserScope
  Foci = {"ledger", "browser"}
  SensitiveActions = {"browser_submit"}
  ExternalActions = {"browser_submit"}
  Canon <- MCCanon
  EmptyTarget = ""
  MaxTime = 1
  TTL = 1
  Resolutions = {"completed", "cancelled"}
  Expirations = {1, 2}
  MaxReservations = 2
SYMMETRY Symmetry
INVARIANTS RepeatsAreAccounted OneOwner SettledWithApproval CrashLosesNoReconciliation AbortedDidNothing SensitiveActsAccounted TakeoverIsExclusive
PROPERTIES CompletedIsFinal
CHECK_DEADLOCK FALSE
