SPECIFICATION SSpec
CONSTANTS
  Bytes = {0, 1, 2, 3, 4}
  Delim <- MCDelim
  Size = 9
  Files <- MCFiles
  Wanted = {0}
  Unwanted = {4}
  VmFlags = 3
INVARIANTS EntryIntact
CHECK_DEADLOCK FALSE
