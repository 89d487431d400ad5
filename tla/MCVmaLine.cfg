SPECIFICATION Spec
CONSTANTS
  Chars <- MCChars
  Col32 = 4
  Col64 = 7
  Widths = {3, 4, 5, 7, 8}
  Room = 60
  Names <- MCNames
  Lists <- MCLists
  Keys <- MCKeys
  Flags <- MCFlags
INVARIANTS NamesRight LineKept CutIsPrefix AccessorsExact
CHECK_DEADLOCK FALSE
