SPECIFICATION FairSpec
CONSTANTS
  NineSlots = 1
  BrainSlots = 1
  MessageLoop = {message}
  Loops = {routine}
  Jobs = {job}
  Requests = {request}
  DeepThinkers = {routine}
  Cancellable = {routine, job}
  MaxRounds = 1
  MaxCancels = 1
INVARIANTS BackendBound AllReturned
 
