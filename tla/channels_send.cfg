CONSTANTS
  WS_QUEUE_CAP = 2
  MaxFrames = 4
  SSE_QUEUE_CAP = 3
  MaxEvents = 3
  Silent = {2}
  MaxConnects = 2
  MaxPosts = 3
  MaxReplies = 3
  MaxPorts = 1
  SharedPosts = 1
  SharedReplies = 1
SPECIFICATION FairSpec
CHECK_DEADLOCK FALSE
PROPERTY SendNotBlocked
