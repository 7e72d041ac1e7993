CONSTANTS
  WS_QUEUE_CAP = 2
  MaxFrames = 4
  SSE_QUEUE_CAP = 3
  MaxEvents = 3
  Silent = {2}
  MaxConnects = 2
  MaxPosts = 3
  MaxReplies = 3
  MaxPorts = 2
  SharedPosts = 2
  SharedReplies = 2
SPECIFICATION FairSpec
INVARIANTS TypeOK HeardInOrder ResumesExactly SettlesClosed StopsSoon
PROPERTIES CallsReturn ThreadsEnd
CHECK_DEADLOCK FALSE
