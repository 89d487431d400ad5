SPECIFICATION FairSpec
CONSTANTS
  Bytes = {0, 1, 2}
  Delim <- MCDelim
  Size = 4
  Files <- MCFiles
INVARIANTS Window ViewIsLine
PROPERTIES AllRead KeepsLines
CHECK_DEADLOCK FALSE
