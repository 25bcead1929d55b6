SPECIFICATION FairSpecAll
CONSTANTS
  Packets = 1
  MaxReports = 4
  ConfPackets = 3
INVARIANTS ReplyIsExact RunningMeansBoot
PROPERTIES ImplementsPolling DeliversReports RunningReportsArrive
