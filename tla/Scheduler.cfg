SPECIFICATION FairSchedulerSpec
CONSTANTS
  Day = 8
  RetryDelay = 2
  MaxDuration = 10
  MaxCrashes = 1
INVARIANTS SchedulerTypeOK OneRetryPerDay
PROPERTIES FailedDayIsRetried DailyRunsGoOn
