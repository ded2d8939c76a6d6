SPECIFICATION FairSpec
CONSTANTS
  Main = Main
  Jobs = {j1}
  Keys = {k1}
  Menu = Menu
  MsgCap = 1
  CbCap = 1
  MaxRounds = 3
  MaxCalls = 2
  MaxMsgs = 2
  MaxPresses = 2
  MaxBoards = 2
  MaxGoogles = 1
INVARIANTS  PressHeard 
PROPERTIES CancelledJobEnds 
CHECK_DEADLOCK FALSE
