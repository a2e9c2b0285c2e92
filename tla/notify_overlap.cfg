SPECIFICATION FairSpec
CONSTANTS
  inApp = inApp
  email = email
  Channel = {inApp, email}
  Instant = {inApp}
  MaxRuns = 2
  Faults = {"crash", "abandon", "transient", "permanent", "slow", "readerror", "dberror", "lostack"}
  MaxFaults = 3
INVARIANTS TypeOK DispatchedMeansSettled ShownIsTrue OneMessagePerChannel
PROPERTY EventuallyDispatched
CHECK_DEADLOCK FALSE
