SPECIFICATION FairSpec
CHECK_DEADLOCK FALSE
CONSTANTS
  Savers = {s1}
  Consolidators = {c1}
  Forgetters = {f1}
  Workers = {w1}
  SearchLimit = 1
  Cap = 1
  Retries = 1
  MaxRows = 4
INVARIANTS ReplacedByNewer ChecksKept
PROPERTIES ChecksAnswered
