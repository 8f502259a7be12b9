\* One device, since devices share nothing but the moments of the commits: two
\* managers' edits, an outage before and after a reconnection, one tick cut short.
\* When nothing is watched any more and the bounds are spent, nothing happens.
SPECIFICATION FairSpec
CONSTANTS
  Devices = {d1}
  Settings <- SomeSettings
  None = None
  MaxNow = 2
  MaxEdits = 2
  MaxFlips = 2
  MaxCuts = 1
INVARIANT HistoryAgrees OncePerOutage RecoveryAnswersAlert
PROPERTY AlertsAfterThreshold EventuallyReported
CHECK_DEADLOCK FALSE
