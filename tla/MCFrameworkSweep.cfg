SPECIFICATION FairSpec
CONSTANTS
  iface = iface
  direct = direct
  context = context
  bridge = bridge
  hooker = hooker
  ghost = ghost
  fd = fd
  fc = fc
  fb = fb
  k1 = k1
  k2 = k2
  ClassSet <- MCClassSet
  Loads = {iface, direct, context, bridge, hooker}
  SimpleName <- MCSimpleName
  Direct = {direct}
  Inherits = {direct, context}
  HasHookMethod = {bridge, hooker, ghost}
  Registers = {hooker, ghost}
  Fields = {fd, fc, fb}
  Holder <- MCHolder
  KeySets = {fd, fc}
  HasKeySetView = TRUE
  Callbacks = {k1, k2}
  Accepts <- MCAccepts
  Unwrap <- MCUnwrap
INVARIANTS CallbacksBlocked SurelyBlocked OthersUntouched FlagMeansStub
PROPERTIES TakenIsReported SweepEnds
CHECK_DEADLOCK FALSE
