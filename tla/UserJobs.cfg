SPECIFICATION FairSpec
CONSTANTS
  Users <- MCUsers
  Cron <- MCCron
  Day = 2
  LockSlots = 1
  MaxJobs = 2
  MaxFaults = 1

  
PROPERTIES
  LinkedUserIsServed
CHECK_DEADLOCK FALSE
