SPECIFICATION FairSpec
CONSTANTS
  e1 = e1
  e2 = e2
  Length = 1
  Daemon = Daemon
  Other = Other
  NoProc = NoProc
  None = None
  Execs = {e1}
  Ordinary <- MCOrdinary
  ExecRank <- MCExecRank
  TicketRank <- MCTicketRank
  LongTasks = {}
  MaxItems = 1
  Bounded = FALSE
  InspectMore = 10
  Threads = {th1, th2}
  Outsiders = {out}
PROPERTIES DrainEnds StopEndsWork PendingStageRuns
