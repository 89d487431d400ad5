SPECIFICATION Spec
CONSTANTS
  Chars <- MCChars
  Wide = {"e"}
  Types <- MCTypes
  Reportable <- MCReportable
  MaxMet = 2
INVARIANTS TextIsDescriptor SpansTile LocalsLeft
CHECK_DEADLOCK FALSE
