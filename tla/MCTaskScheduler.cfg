SPECIFICATION FairSpec
CONSTANTS
  MaxSockets = 3
  MAX_NUM_EVENT_TRIGGERS = 2
  MaxDepth = 2
  MaxCreated = 3
  Threads = {}
INVARIANT HandlersAgree
INVARIANT NoStaleTrigger
PROPERTY ReadySocketsAreServed
PROPERTY TriggersAreServed
