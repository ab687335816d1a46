\* Outages of any length, silent streams, and a close at any time.
SPECIFICATION FairSpec
CONSTANTS
  Routes <- Both
  MaxDelay = 16
  MaxRetries = 34
PROPERTIES
  OutageIsNoticed
CHECK_DEADLOCK FALSE \* a closed stream is done
