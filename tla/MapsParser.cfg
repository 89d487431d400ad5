SPECIFICATION FairSpec
CONSTANTS
  Top = 4
  RefTable = 3
  MaxChanges = 2
INVARIANTS TypeOK TableFound
PROPERTIES EntriesAdvance CollectEnds
CHECK_DEADLOCK FALSE
