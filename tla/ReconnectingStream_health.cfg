\* A server that is reached for good.
SPECIFICATION FairSpec
CONSTANTS
  Routes = {"health"}
  MaxDelay = 16
  MaxRetries = 34
PROPERTIES
  HealthIsReported
CHECK_DEADLOCK FALSE
