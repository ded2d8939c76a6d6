SPECIFICATION InboxFairSpec
CHECK_DEADLOCK FALSE
CONSTANTS
  MaxMails = 2
  Exchanges = {x1}
  Checkers = {routine, message}
  Routine = routine
  FetchMax = 1
  MaxItems = 1
  MaxRetries = 2
  MaxFaults = 1
PROPERTIES TriagedOnce 
