SPECIFICATION FairSpec
CONSTANTS
  Length <- Lengths
  MaxPayload = 1
  MaxPackObjects = 2
  GrantBatch = 1
  MaxStalledReplans = 2
  MaxUploadAttempts = 2
  MaxCompletionStalls = 2
  DownloadAttempts = 2
  Calls = {"push", "pull"}
  MaxCalls = 2
  MaxSweeps = 1
  Faults = {"carrier", "expire", "refuse", "lie", "slow", "compete", "kill"}
CHECK_DEADLOCK FALSE
INVARIANTS AccountedMeansLanded NothingMovedTwice
PROPERTIES OkIsTrue CallsEnd HealthyPushSucceeds
