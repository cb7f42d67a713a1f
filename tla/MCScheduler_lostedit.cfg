CONSTANTS
  M = 3
  Sched <- MCSched
  Matches <- MCAlways
  Cron = {1, 2}
  Orphans = {2}
  File = {f1}
  Thread = {u1}
  Minute = 3
  Poll = 2
  MaxTime = 7
  MaxRequests = 1
  MaxFileOps = 2
  MaxRestarts = 0
SPECIFICATION Spec
PROPERTY FiringKeepsTheRest
CHECK_DEADLOCK FALSE
