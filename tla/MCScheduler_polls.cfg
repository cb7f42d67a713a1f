CONSTANTS
  M = 3
  Sched <- MCSched
  Matches <- MCAlways
  Cron = {1, 2}
  Orphans = {2}
  File = {f1, f2}
  Thread = {u1}
  Minute = 3
  Poll = 2
  MaxTime = 5
  MaxRequests = 1
  MaxFileOps = 2
  MaxRestarts = 1
SPECIFICATION FairSpec
PROPERTIES OncePerMinute NewFilesAreTold
CHECK_DEADLOCK FALSE
