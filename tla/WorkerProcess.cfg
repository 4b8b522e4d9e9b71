\* One message to the child and two from it, through a socket that holds a frame
\* and a half and a channel that queues two frames.
SPECIFICATION Spec
CONSTANTS
  ParentMax = 1
  ChildMax = 2
  WireLimit = 3
  QueueLimit = 4
CHECK_DEADLOCK FALSE
INVARIANTS
  MessagesInOrder
  NothingLost
PROPERTIES
  CleanExit
  WorkersEnd
