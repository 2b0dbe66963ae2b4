SPECIFICATION HSpec
CONSTANTS
  Users <- MCUsers
  Cron <- MCCron
  Day = 4
  LockSlots = 2
  MaxJobs = 1
  MaxFaults = 0
PROPERTIES
  LongRunKeepsSlot
CHECK_DEADLOCK FALSE
