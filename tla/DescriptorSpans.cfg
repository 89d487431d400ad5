SPECIFICATION Spec
CONSTANTS
  Chars <- MCChars
  Wide = {"e"}
  Types <- MCTypes
  Reportable <- MCReportable
  MaxMet = 2
INVARIANTS SpansCoverText
CHECK_DEADLOCK FALSE
