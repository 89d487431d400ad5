SPECIFICATION FairSpec
CONSTANTS
  m1 = m1
  m2 = m2
  copied = copied
  c1 = c1
  c2 = c2
  h1 = h1
  h2 = h2
  h3 = h3
  lsposed = lsposed
  other = other
  p1 = p1
  o1 = o1
  list = list
  hooker = hooker
  null = null
  Methods <- MCMethods
  Declared <- MCDeclared
  Classes <- MCClasses
  Class <- MCClass
  Index <- MCIndex
  Layout <- MCLayout
  Hooks = {h1, h2, h3}
  Target <- MCTarget
  Frameworks = {lsposed, other}
  Framework <- MCFramework
  Found = lsposed
  HookerClass = hooker
  Plain = {p1}
  Reflects <- MCReflects
  Objects = {o1}
  ListRef = list
  Null = null
  MaxRefs = 3
INVARIANTS TypeOK RestoredAtEnd NoForeignCode FlagsKept ReportExact
PROPERTIES LoaderNeverHooks NoHookAfterDisable LoaderReturns KeepsPromise
CHECK_DEADLOCK FALSE
