SPECIFICATION ConversationFairSpec
CHECK_DEADLOCK FALSE
CONSTANTS
  Writers = {message, heartbeat}
  Sliders = {message, heartbeat}
  Recovering = {heartbeat}
  MaxMessages = 3
  MaxRounds = 1
  MaxAppended = 7
 
PROPERTIES ContextSettles
