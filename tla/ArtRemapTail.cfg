SPECIFICATION Spec
CONSTANTS
  Layouts <- MidPageOnly
  Bases = {6}
  Page = 2
  Limit = 13
INVARIANTS InlineHooksRestored
CHECK_DEADLOCK FALSE
