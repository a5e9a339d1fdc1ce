SPECIFICATION FairSpec
CONSTANTS
  r1 = r1
  r2 = r2
  p1 = p1
  u1 = u1
  Requests <- MCRequests
  Purges <- MCPurges
  Users <- MCUsers
  MaxWorkers = 1
  MailAttempts = 2
  PurgeAttempts = 2
  Interval = 1
  Retention = 1
INVARIANTS GracefulStopsLoseNothing MailsFollowRows GivesUpOnlyAfterEveryAttempt
PROPERTIES EveryJobSettles PurgedWhileTheScheduleRuns
