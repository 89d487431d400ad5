SPECIFICATION LFairSpec
CONSTANTS
  Loaders = {app, lsp, module}
  NoLoader = null
  BootLoader = boot
  None = none
  MaxFrames = 4
  Layouts <- MCLayouts
  Bases = {4, 6}
  Page = 2
  Limit = 9
  MaxProcesses = 3
INVARIANTS RightFramework NoPendingException SegmentsKept AlignedRestored ReturnsClean FlagsTrue ShownIsTrue
PROPERTIES LoadEnds
CHECK_DEADLOCK FALSE
