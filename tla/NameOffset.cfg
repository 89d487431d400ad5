SPECIFICATION FairSpec
CONSTANTS
  Size = 2
  FileSize = 5
  EINTR = 4
  EIO = 5
PROPERTIES FullReadTaken
CHECK_DEADLOCK FALSE
