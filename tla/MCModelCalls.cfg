SPECIFICATION Spec
CONSTANTS
  Procs = {p1, p2}
  Routes = {"local_a", "cloud_b"}
  Providers = {"local", "cloud"}
  ProviderOf <- MCProviderOf
  Listings <- MCListings
  Attempts = 2
  Estimate <- MCEstimate
  Usages = {2}
  Limit = 4
  NoFile = NoFile
  Torn = Torn
  ErrorLimit = 1
  DayLength = 1
  MaxTime = 1
  MaxCalls = 3
SYMMETRY MCSymmetry
INVARIANTS DayWithinLimit ReservationStands NothingLeaks
PROPERTIES ImplementsDailyPurse
CHECK_DEADLOCK FALSE
