------------------------ MODULE FrameworkSweepProofs ------------------------
(* Proofs about FrameworkSweep for any classes, fields and callbacks.      *)
EXTENDS FrameworkSweep, FiniteSetTheorems, WellFoundedInduction, TLAPS

USE SweepAssumption, NoFieldAssumption

\* The list of names is a permutation of the classes.
LEMMA OrderFacts ==
  ASSUME order \in Orders
  PROVE  /\ Len(order) = Cardinality(ClassSet) /\ Len(order) \in Nat
         /\ DOMAIN order = 1..Len(order) /\ order \in Seq(ClassSet)
         /\ \A p \in DOMAIN order : order[p] \in ClassSet
         /\ \A p, q \in DOMAIN order : order[p] = order[q] => p = q
         /\ \A c \in ClassSet : \E p \in DOMAIN order : order[p] = c
<1> DEFINE n == Cardinality(ClassSet)
<1>1. n \in Nat BY FS_CardinalityType
<1>2. order \in [1..n -> ClassSet] /\ \A p, q \in 1..n : order[p] = order[q] => p = q
  BY DEF Orders
<1> HIDE DEF n
<1>3. order \in Seq(ClassSet) /\ Len(order) = n /\ DOMAIN order = 1..n BY <1>1, <1>2
<1>4. order \in Injection(1..n, ClassSet) BY <1>2 DEF Injection, IsInjective
<1>5. Cardinality(1..n) = n BY <1>1, FS_Interval
<1>6. order \in Surjection(1..n, ClassSet) BY <1>4, <1>5, FS_Injection DEF n
<1>7. \A c \in ClassSet : \E p \in 1..n : order[p] = c BY <1>6 DEF Surjection
<1> QED BY <1>1, <1>2, <1>3, <1>7 DEF n

\* What is said of the list alone does not change.
LEMMA OrderStays ==
  ASSUME order' = order
  PROVE  /\ \A p : Visible(p)' <=> Visible(p)
         /\ \A p : KnownBefore(p)' <=> KnownBefore(p)
         /\ \A p : Context(p)' <=> Context(p)
         /\ \A p : FirstContext(p)' <=> FirstContext(p)
         /\ \A p : Bridge(p)' <=> Bridge(p)
         /\ \A p : FirstBridge(p)' <=> FirstBridge(p)
         /\ \A f, p : Due(f, p)' <=> Due(f, p)
<1>1. \A p : Visible(p)' <=> Visible(p) BY DEF Visible
<1>2. \A p : KnownBefore(p)' <=> KnownBefore(p) BY <1>1 DEF KnownBefore
<1>3. \A p : Context(p)' <=> Context(p) BY <1>1, <1>2 DEF Context, Matching
<1>4. \A p : FirstContext(p)' <=> FirstContext(p) BY <1>3 DEF FirstContext
<1>5. \A p : Bridge(p)' <=> Bridge(p) BY <1>4 DEF Bridge
<1>6. \A p : FirstBridge(p)' <=> FirstBridge(p) BY <1>5 DEF FirstBridge
<1>7. \A f, p : Due(f, p)' <=> Due(f, p) BY <1>4, <1>6 DEF Due
<1> QED BY <1>1, <1>2, <1>3, <1>4, <1>5, <1>6, <1>7

LEMMA SweepInit == Init => SweepInv
<1> SUFFICES ASSUME Init PROVE SweepInv OBVIOUS
<1>1. order \in Orders BY DEF Init
<1>2. order \in Seq(ClassSet) /\ Len(order) \in Nat BY <1>1, OrderFacts
<1>3. TypeOK
  <2>1. order \in Seq(ClassSet) /\ next \in 1..(Len(order) + 1) BY <1>2 DEF Init
  <2>2. content \in [Fields -> SUBSET Callbacks]
    BY DEF Init
  <2>3. /\ arrived \in [Fields -> [Callbacks -> {"never", "before", "missed", "after"}]]
        /\ native \in [ClassSet -> {"framework", "stub"}]
    BY DEF Init, Absent
  <2>4. {legacy_cleared_, modern_cleared_, xposed_interface_known, is_lsposed_disabled_}
          \subseteq BOOLEAN
    BY DEF Init
  <2>5. field \in Fields \cup {NoField} /\ todo \subseteq Fields /\ pending \subseteq Callbacks
    BY DEF Init
  <2>6. cleared_callbacks_ \subseteq Callbacks /\ cleared \subseteq Fields
        /\ framework_name_ \in ClassSet \cup {"LSPosed"}
    BY DEF Init
  <2>7. pc \in {"next", "callbacks", "fields", "read", "natives", "done"}
        /\ mode \in {"modern", "legacy"}
    BY DEF Init
  <2> QED BY <2>1, <2>2, <2>3, <2>4, <2>5, <2>6, <2>7 DEF TypeOK
<1>4. PcInv BY <1>1 DEF Init, PcInv
<1>5. Done = 0 /\ Seen = 1 BY DEF Init, Done, Seen
<1>6. ~KnownBefore(1) BY DEF KnownBefore
<1>7. FlagsInv BY <1>5, <1>6 DEF Init, FlagsInv
<1>8. HandInv BY DEF Init, HandInv
<1>9. ClearedInv BY <1>5 DEF Init, ClearedInv, InHand
<1>10. CallbackInv BY DEF Init, CallbackInv
<1>12. NativeInv BY DEF Init, NativeInv
<1> QED BY <1>3, <1>4, <1>7, <1>8, <1>9, <1>10, <1>12 DEF SweepInv

-----------------------------------------------------------------------------
LEMMA SweepTypes ==
  ASSUME SweepInv, Next
  PROVE  TypeOK' /\ PcInv'
<1> USE DEF SweepInv
<1>1. /\ Len(order) \in Nat /\ DOMAIN order = 1..Len(order)
      /\ \A p \in DOMAIN order : order[p] \in ClassSet
  BY OrderFacts DEF PcInv
<1>2. pc \notin {"next", "done"} => this \in ClassSet BY <1>1 DEF this, PcInv, TypeOK
<1>3. ASSUME NEW f \in Fields, NEW cb \in Callbacks,
             Register(f, cb) \/ Unregister(f, cb)
      PROVE  TypeOK' /\ PcInv'
  <2>1. \E s \in {"never", "before", "missed", "after"} :
          arrived' = [arrived EXCEPT ![f][cb] = s]
    BY <1>3 DEF Register, Unregister
  <2>2. arrived' \in [Fields -> [Callbacks -> {"never", "before", "missed", "after"}]]
    BY <2>1 DEF TypeOK
  <2>3. content' \in [Fields -> SUBSET Callbacks] BY <1>3 DEF Register, Unregister, TypeOK
  <2>4. pending' \subseteq Callbacks /\ (field = NoField => pending' \subseteq pending)
    BY <1>3 DEF Register, Unregister, TypeOK
  <2>5. UNCHANGED <<order, next, pc, mode, todo, field, cleared_callbacks_, cleared, helperVars, nativeVars>>
    BY <1>3 DEF Register, Unregister
  <2>6. TypeOK' BY <2>2, <2>3, <2>4, <2>5 DEF TypeOK, helperVars, nativeVars
  <2>7. PcInv' BY <2>4, <2>5 DEF PcInv, this
  <2> QED BY <2>6, <2>7
<1>4. CASE LoadClass
  BY <1>4, <1>1 DEF LoadClass, TypeOK, PcInv, helperVars, nativeVars, readVars, dataVars, this
<1>5. CASE EnterClass
  <2>1. todo' \subseteq Fields /\ mode' \in {"modern", "legacy"} /\ pc' \in {"natives", "fields"}
        /\ field' = field /\ pending' = pending
    BY <1>5 DEF EnterClass, Clear, Matching, TypeOK, readVars
  <2> QED
    BY <1>5, <2>1 DEF EnterClass, TypeOK, PcInv, nativeVars, dataVars, this
<1>6. ASSUME NEW f \in Fields, ReadField(f) PROVE TypeOK' /\ PcInv'
  BY <1>6 DEF ReadField, TypeOK, PcInv, helperVars, nativeVars, dataVars, this
<1>7. ASSUME NEW cb \in Callbacks, ReadCallback(cb) PROVE TypeOK' /\ PcInv'
  BY <1>7 DEF ReadCallback, TypeOK, PcInv, helperVars, nativeVars, this
<1>8. CASE ClearField
  <2>1. content' = [content EXCEPT ![field] = {}] /\ arrived' = [arrived EXCEPT ![field] = Absent]
        /\ cleared' = cleared \cup {field} /\ field' = NoField /\ pc = "read" /\ pc' = "fields"
        /\ UNCHANGED <<order, next, mode, todo, pending, cleared_callbacks_, helperVars, nativeVars>>
        /\ pending = {}
    BY <1>8 DEF ClearField
  <2>2. Absent \in [Callbacks -> {"never", "before", "missed", "after"}] BY DEF Absent
  <2>3. arrived' \in [Fields -> [Callbacks -> {"never", "before", "missed", "after"}]]
    BY <2>1, <2>2 DEF TypeOK
  <2>4. content' \in [Fields -> SUBSET Callbacks] BY <2>1 DEF TypeOK
  <2>5. field \in Fields BY <2>1 DEF TypeOK, PcInv
  <2>6. TypeOK' BY <2>1, <2>3, <2>4, <2>5 DEF TypeOK, helperVars, nativeVars
  <2>7. PcInv' BY <2>1 DEF PcInv, this
  <2> QED BY <2>6, <2>7
<1>9. CASE EndClass
  <2>1. todo' \subseteq Fields /\ mode' \in {"modern", "legacy"} /\ pc' \in {"natives", "fields"}
        /\ field' = field /\ pending' = pending
    BY <1>9 DEF EndClass, Clear, Matching, TypeOK, readVars
  <2>2. framework_name_' \in ClassSet \cup {"LSPosed"} BY <1>9, <1>2 DEF EndClass, TypeOK
  <2> QED BY <1>9, <2>1, <2>2 DEF EndClass, TypeOK, PcInv, nativeVars, dataVars, this
<1>10. CASE ReplaceNative
  BY <1>10, <1>1, <1>2 DEF ReplaceNative, TypeOK, PcInv, helperVars, readVars, dataVars, this
<1>11. CASE EndSweep
  BY <1>11, <1>1 DEF EndSweep, TypeOK, PcInv, helperVars, nativeVars, readVars, dataVars, this
<1> QED BY <1>3, <1>4, <1>5, <1>6, <1>7, <1>8, <1>9, <1>10, <1>11 DEF Next, Loader

\* Where the loop stands in the list.
LEMMA Place ==
  ASSUME SweepInv
  PROVE  /\ next \in Nat /\ next >= 1 /\ next - 1 \in Nat
         /\ 1..next = 1..(next - 1) \cup {next}
         /\ pc \notin {"next", "done"} =>
              next \in DOMAIN order /\ this \in ClassSet /\ this \in Loads /\ next <= Len(order)
<1>1. Len(order) \in Nat /\ DOMAIN order = 1..Len(order)
      /\ \A p \in DOMAIN order : order[p] \in ClassSet
  BY OrderFacts DEF SweepInv, PcInv
<1>2. next \in Nat /\ next >= 1 BY <1>1 DEF SweepInv, TypeOK
<1> QED BY <1>1, <1>2 DEF SweepInv, PcInv, this

\* One more class tells what it knows of the interface.
LEMMA KnownStep ==
  ASSUME SweepInv
  PROVE  KnownBefore(next + 1) <=>
           \/ KnownBefore(next)
           \/ /\ Visible(next)
              /\ SimpleName[this] = "XposedInterface" \/ this \in Direct
<1>1. next + 1 - 1 = next BY Place
<1> QED BY <1>1, Place DEF KnownBefore, this

\* What EnterClass recognises is what the list says.
LEMMA Recognised ==
  ASSUME SweepInv, pc = "callbacks"
  PROVE  /\ Visible(next) <=> SimpleName[this] # "none"
         /\ ~modern_cleared_ /\ HasKeySetView =>
              (IsXposed(this) <=> this \in Direct \/ (this \in Inherits /\ KnownBefore(next)))
         /\ ~modern_cleared_ => \A q \in 1..(next - 1) : ~Context(q)
         /\ ~legacy_cleared_ => \A q \in 1..(next - 1) : ~Bridge(q)
<1>1. Done = next - 1 /\ Seen = next BY DEF Done, Seen
<1>2. Visible(next) <=> SimpleName[this] # "none" BY Place DEF Visible, this
<1>3. ~modern_cleared_ /\ HasKeySetView =>
        (IsXposed(this) <=> this \in Direct \/ (this \in Inherits /\ KnownBefore(next)))
  BY <1>1 DEF SweepInv, FlagsInv, IsXposed
<1> QED BY <1>1, <1>2, <1>3 DEF SweepInv, FlagsInv

\* A class that goes straight to the natives has nothing to clear.
LEMMA PassedOver ==
  ASSUME SweepInv, EnterClass, pc' = "natives"
  PROVE  /\ ~modern_cleared_ => ~Context(next)
         /\ ~legacy_cleared_ => ~Bridge(next)
<1> DEFINE ignored == (legacy_cleared_ /\ modern_cleared_) \/ SimpleName[this] = "none"
           isInterface == ~modern_cleared_ /\ SimpleName[this] = "XposedInterface"
<1>1. pc = "callbacks" /\ (ignored \/ isInterface \/ (~ClearsModern /\ ~ClearsLegacy))
  BY DEF EnterClass, Clear
<1>2. ASSUME ~modern_cleared_, Context(next) PROVE FALSE
  <2>1. HasKeySetView /\ Visible(next) /\ SimpleName[this] # "XposedInterface"
        /\ (this \in Direct \/ (this \in Inherits /\ KnownBefore(next)))
    BY <1>2 DEF Context, this
  <2>2. ~ignored /\ ~isInterface BY <1>1, <1>2, <2>1, Recognised
  <2>3. ClearsModern BY <1>1, <1>2, <2>1, Recognised DEF ClearsModern
  <2> QED BY <1>1, <2>2, <2>3
<1>3. ASSUME ~legacy_cleared_, Bridge(next) PROVE FALSE
  <2>1. SimpleName[this] = "XposedBridge" BY <1>3 DEF Bridge, this
  <2> QED BY <1>1, <1>3, <2>1 DEF ClearsLegacy
<1> QED BY <1>2, <1>3

LEMMA OrderKept == ASSUME SweepInv, Next PROVE order' = order
BY DEF Next, Loader, Register, Unregister, LoadClass, EnterClass, ReadField, ReadCallback, ClearField,
       EndClass, ReplaceNative, EndSweep

LEMMA SweepFlags ==
  ASSUME SweepInv, Next
  PROVE  FlagsInv'
<1> USE DEF SweepInv
<1>1. order' = order BY OrderKept
<1>2. /\ next \in Nat /\ next >= 1 /\ next - 1 \in Nat /\ 1..next = 1..(next - 1) \cup {next}
  BY Place
<1>3. ASSUME Done' = Done, Seen' = Seen,
             UNCHANGED <<modern_cleared_, legacy_cleared_, xposed_interface_known>>
      PROVE  FlagsInv'
  <2>1. (\E p \in 1..Done' : Context(p)') <=> \E p \in 1..Done : Context(p)
    BY <1>1, <1>3, OrderStays
  <2>2. (\E p \in 1..Done' : Bridge(p)') <=> \E p \in 1..Done : Bridge(p)
    BY <1>1, <1>3, OrderStays
  <2>3. KnownBefore(Seen)' <=> KnownBefore(Seen)
    BY <1>1, <1>3 DEF KnownBefore, Visible
  <2> QED BY <1>3, <2>1, <2>2, <2>3 DEF FlagsInv
\* The class at next is dealt with, or says nothing: what the flags become.
<1>4. ASSUME Done' = next, Done = next - 1,
             modern_cleared_' <=> modern_cleared_ \/ Context(next),
             legacy_cleared_' <=> legacy_cleared_ \/ Bridge(next),
             ~modern_cleared_' /\ HasKeySetView =>
               (xposed_interface_known' <=> KnownBefore(Seen'))
      PROVE  FlagsInv'
  <2>1. (\E p \in 1..Done' : Context(p)') <=> (\E p \in 1..Done : Context(p)) \/ Context(next)
    BY <1>1, <1>2, <1>4, OrderStays
  <2>2. (\E p \in 1..Done' : Bridge(p)') <=> (\E p \in 1..Done : Bridge(p)) \/ Bridge(next)
    BY <1>1, <1>2, <1>4, OrderStays
  <2>3. KnownBefore(Seen)' <=> KnownBefore(Seen')
    BY <1>1 DEF KnownBefore, Visible
  <2> QED BY <1>4, <2>1, <2>2, <2>3 DEF FlagsInv
\* The class at next is in hand and will be dealt with.
<1>5. ASSUME Done' = Done,
             UNCHANGED <<modern_cleared_, legacy_cleared_>>,
             ~modern_cleared_ /\ HasKeySetView =>
               (xposed_interface_known' <=> KnownBefore(Seen'))
      PROVE  FlagsInv'
  <2>1. (\E p \in 1..Done' : Context(p)') <=> \E p \in 1..Done : Context(p)
    BY <1>1, <1>5, OrderStays
  <2>2. (\E p \in 1..Done' : Bridge(p)') <=> \E p \in 1..Done : Bridge(p)
    BY <1>1, <1>5, OrderStays
  <2>3. KnownBefore(Seen)' <=> KnownBefore(Seen')
    BY <1>1 DEF KnownBefore, Visible
  <2> QED BY <1>5, <2>1, <2>2, <2>3 DEF FlagsInv
<1>6. ASSUME NEW f \in Fields, NEW cb \in Callbacks,
             Register(f, cb) \/ Unregister(f, cb)
      PROVE  FlagsInv'
  BY <1>3, <1>6 DEF Register, Unregister, Done, Seen, helperVars
<1>7. CASE LoadClass
  <2>1. CASE this \in Loads
    BY <1>3, <1>7, <2>1 DEF LoadClass, Done, Seen, helperVars
  <2>2. CASE this \notin Loads
    <3>1. ~Visible(next) BY <2>2 DEF Visible, this
    <3>2. ~Context(next) /\ ~Bridge(next) BY <2>2, <3>1 DEF Context, Bridge, this
    <3>3. KnownBefore(next + 1) <=> KnownBefore(next) BY <3>1, KnownStep
    <3>4. Done' = next /\ Done = next - 1 /\ Seen' = next + 1 /\ Seen = next
      BY <1>2, <1>7, <2>2 DEF LoadClass, Done, Seen
    <3> QED BY <1>4, <1>7, <3>2, <3>3, <3>4 DEF LoadClass, helperVars, FlagsInv
  <2> QED BY <2>1, <2>2
<1>8. CASE EnterClass
  <2>1. /\ pc = "callbacks" /\ pc' \in {"natives", "fields"} /\ next' = next
        /\ UNCHANGED <<modern_cleared_, legacy_cleared_>>
    BY <1>8 DEF EnterClass, Clear
  <2>2. Done = next - 1 /\ Seen = next /\ Seen' = next + 1
        /\ Done' = (IF pc' = "natives" THEN next ELSE next - 1)
    BY <1>2, <2>1 DEF Done, Seen
  <2> DEFINE ignored == (legacy_cleared_ /\ modern_cleared_) \/ SimpleName[this] = "none"
             isInterface == ~modern_cleared_ /\ SimpleName[this] = "XposedInterface"
  <2>3. /\ xposed_interface_known' =
             (xposed_interface_known \/ (~ignored /\ (isInterface \/ ClearsModern)))
        /\ pc' = "fields" <=> ~ignored /\ ~isInterface /\ (ClearsModern \/ ClearsLegacy)
    BY <1>8 DEF EnterClass, Clear
  <2> HIDE DEF ignored, isInterface
  <2>4. ~modern_cleared_ /\ HasKeySetView => (xposed_interface_known' <=> KnownBefore(next + 1))
    <3> SUFFICES ASSUME ~modern_cleared_, HasKeySetView
                 PROVE  xposed_interface_known' <=> KnownBefore(next + 1)
      OBVIOUS
    <3>1. xposed_interface_known <=> KnownBefore(next) BY <2>2 DEF FlagsInv
    <3>2. ignored <=> ~Visible(next) BY <2>1, Recognised DEF ignored
    <3>3. ClearsModern <=> this \in Direct \/ (this \in Inherits /\ KnownBefore(next))
      BY <2>1, Recognised DEF ClearsModern
    <3> QED BY <2>3, <3>1, <3>2, <3>3, KnownStep DEF isInterface
  <2>5. CASE pc' = "fields"
    <3>1. Done' = Done BY <2>2, <2>5
    <3> QED BY <1>5, <2>1, <2>2, <2>4, <3>1
  <2>6. CASE pc' = "natives"
    <3>1. (~modern_cleared_ => ~Context(next)) /\ (~legacy_cleared_ => ~Bridge(next))
      BY <1>8, <2>6, PassedOver
    <3> QED BY <1>4, <2>1, <2>2, <2>4, <2>6, <3>1 DEF TypeOK
  <2> QED BY <2>1, <2>5, <2>6
<1>9. ASSUME NEW f \in Fields, ReadField(f) PROVE FlagsInv'
  BY <1>3, <1>9 DEF ReadField, Done, Seen, helperVars
<1>10. ASSUME NEW cb \in Callbacks, ReadCallback(cb) PROVE FlagsInv'
  BY <1>3, <1>10 DEF ReadCallback, Done, Seen, helperVars
<1>11. CASE ClearField
  BY <1>3, <1>11 DEF ClearField, Done, Seen, helperVars
<1>12. CASE EndClass
  <2> DEFINE none == Matching(this, "modern") = {}
  <2>1. /\ pc = "fields" /\ next' = next
        /\ modern_cleared_' = (modern_cleared_ \/ (mode = "modern" /\ ~none))
        /\ legacy_cleared_' = (legacy_cleared_ \/ mode = "legacy")
        /\ xposed_interface_known' = xposed_interface_known
    BY <1>12 DEF EndClass
  <2>2. /\ mode = "modern" /\ none /\ ClearsLegacy => pc' = "fields"
        /\ ~(mode = "modern" /\ none /\ ClearsLegacy) => pc' = "natives"
    BY <1>12 DEF EndClass, Clear
  <2> HIDE DEF none
  <2>3. Done = next - 1 /\ Seen = next + 1 /\ Seen' = next + 1
        /\ Done' = (IF pc' = "natives" THEN next ELSE next - 1)
    BY <1>2, <2>1, <2>2 DEF Done, Seen
  <2>4. ~modern_cleared_' /\ HasKeySetView => (xposed_interface_known' <=> KnownBefore(Seen'))
    BY <2>1, <2>3 DEF FlagsInv
  <2>5. ~modern_cleared_ => (FirstContext(next) <=> Context(next))
    BY <2>3, <1>2 DEF FlagsInv, FirstContext
  <2>6. mode = "modern" => (~modern_cleared_ /\ (Context(next) <=> ~none))
    BY <2>1 DEF HandInv, Context, this, none
  <2>7. mode = "legacy" => Bridge(next) /\ (~modern_cleared_ => ~Context(next))
    BY <2>1, <2>5 DEF HandInv, FirstBridge, Bridge
  <2>8. mode \in {"modern", "legacy"} BY DEF TypeOK
  <2>9. CASE pc' = "fields"
    <3>1. mode = "modern" /\ none BY <2>2, <2>9
    <3>2. UNCHANGED <<modern_cleared_, legacy_cleared_>> BY <2>1, <3>1 DEF TypeOK
    <3> QED BY <1>5, <2>3, <2>4, <2>9, <3>2
  <2>10. CASE pc' = "natives"
    <3>1. modern_cleared_' <=> modern_cleared_ \/ Context(next) BY <2>1, <2>6, <2>7, <2>8
    <3>2. CASE mode = "legacy" BY <1>4, <2>1, <2>3, <2>4, <2>7, <2>10, <3>1, <3>2
    <3>3. CASE mode = "modern"
      <4>1. ~legacy_cleared_ => ~Bridge(next)
        <5>1. CASE none BY <2>2, <2>10, <3>3, <5>1 DEF ClearsLegacy, Bridge, this
        <5>2. CASE ~none BY <2>5, <2>6, <3>3, <5>2 DEF Bridge
        <5> QED BY <5>1, <5>2
      <4> QED BY <1>4, <2>1, <2>3, <2>4, <2>10, <3>1, <3>3, <4>1
    <3> QED BY <2>8, <3>2, <3>3
  <2> QED BY <2>2, <2>9, <2>10
<1>13. CASE ReplaceNative
  BY <1>2, <1>3, <1>13 DEF ReplaceNative, Done, Seen, helperVars
<1>14. CASE EndSweep
  BY <1>3, <1>14 DEF EndSweep, Done, Seen, helperVars
<1> QED BY <1>6, <1>7, <1>8, <1>9, <1>10, <1>11, <1>12, <1>13, <1>14 DEF Next, Loader

LEMMA SweepHand ==
  ASSUME SweepInv, Next
  PROVE  HandInv'
<1> USE DEF SweepInv
<1>1. order' = order BY OrderKept
<1>2. NoField \notin Fields OBVIOUS
<1>3. ASSUME UNCHANGED <<next, mode, todo, field, modern_cleared_>>,
             pc' \in {"fields", "read"} => pc \in {"fields", "read"}
      PROVE  HandInv'
  BY <1>1, <1>3, OrderStays DEF HandInv, this, Matching
<1>4. ASSUME NEW f \in Fields, NEW cb \in Callbacks,
             Register(f, cb) \/ Unregister(f, cb)
      PROVE  HandInv'
  BY <1>3, <1>4 DEF Register, Unregister, helperVars
<1>5. CASE LoadClass
  BY <1>5 DEF LoadClass, HandInv
<1>6. CASE EnterClass
  <2>1. CASE pc' # "fields" BY <1>6, <2>1 DEF EnterClass, Clear, HandInv
  <2>2. CASE pc' = "fields"
    <3>1. /\ pc = "callbacks" /\ next' = next /\ modern_cleared_' = modern_cleared_
          /\ ~(legacy_cleared_ /\ modern_cleared_) /\ SimpleName[this] # "none"
          /\ ~(~modern_cleared_ /\ SimpleName[this] = "XposedInterface")
          /\ \/ ClearsModern /\ Clear("modern")
             \/ ~ClearsModern /\ ClearsLegacy /\ Clear("legacy")
      BY <1>6, <2>2 DEF EnterClass
    <3>2. field' = NoField /\ todo' = Matching(this, mode') BY <3>1 DEF Clear, PcInv
    <3>3. this' = this /\ \A m : Matching(this, m)' = Matching(this, m)
      BY <1>1, <3>1 DEF this, Matching
    <3>4. Visible(next) BY <3>1, Recognised
    <3>5. NoField \notin Matching(this, mode') BY <1>2 DEF Matching
    <3>6. CASE ClearsModern
      <4>1. mode' = "modern" BY <3>1, <3>6 DEF Clear
      <4>2. ~modern_cleared_ /\ HasKeySetView /\ SimpleName[this] # "XposedInterface"
            /\ (this \in Direct \/ (this \in Inherits /\ KnownBefore(next)))
        BY <3>1, <3>6, Recognised DEF ClearsModern
      <4>3. Visible(next)' /\ (KnownBefore(next)' <=> KnownBefore(next))
        BY <1>1, <3>1, <3>4 DEF Visible, KnownBefore
      <4> QED BY <2>2, <3>1, <3>2, <3>3, <3>5, <4>1, <4>2, <4>3 DEF HandInv, Matching
    <3>7. CASE ~ClearsModern
      <4>1. mode' = "legacy" /\ ClearsLegacy BY <3>1, <3>7 DEF Clear
      <4>2. ~FirstContext(next)
        <5>1. ASSUME FirstContext(next) PROVE FALSE
          <6>1. Context(next) /\ HasKeySetView /\ SimpleName[this] # "XposedInterface"
                /\ (this \in Direct \/ (this \in Inherits /\ KnownBefore(next)))
            BY <5>1 DEF FirstContext, Context, this
          <6>2. ~modern_cleared_ BY <5>1, <3>1 DEF FlagsInv, FirstContext, Done
          <6> QED BY <3>1, <3>7, <6>1, <6>2, Recognised DEF ClearsModern
        <5> QED BY <5>1
      <4>3. Bridge(next) BY <4>1, <4>2, <3>1, Place DEF Bridge, ClearsLegacy, this
      <4>4. FirstBridge(next) BY <4>1, <4>3, <3>1, Recognised DEF FirstBridge, ClearsLegacy
      <4>5. FirstBridge(next)' BY <1>1, <3>1, <4>4 DEF FirstBridge, Bridge, FirstContext,
                                                       Context, Visible, KnownBefore, Matching
      <4> QED BY <2>2, <3>1, <3>2, <3>3, <3>5, <4>1, <4>5 DEF HandInv, Matching
    <3> QED BY <3>6, <3>7
  <2> QED BY <2>1, <2>2
<1>7. ASSUME NEW f \in Fields, ReadField(f) PROVE HandInv'
  <2>1. this' = this /\ (\A m : Matching(this, m)' = Matching(this, m))
        /\ (Visible(next)' <=> Visible(next)) /\ (KnownBefore(next)' <=> KnownBefore(next))
    BY <1>7 DEF ReadField, this, Matching, Visible, KnownBefore
  <2>2. FirstBridge(next)' <=> FirstBridge(next)
    BY <1>7 DEF ReadField, FirstBridge, Bridge, FirstContext, Context, Visible, KnownBefore, Matching
  <2> QED BY <1>2, <1>7, <2>1, <2>2 DEF ReadField, HandInv, helperVars, TypeOK
<1>8. ASSUME NEW cb \in Callbacks, ReadCallback(cb) PROVE HandInv'
  BY <1>3, <1>8 DEF ReadCallback, helperVars
<1>9. CASE ClearField
  <2>1. this' = this /\ (\A m : Matching(this, m)' = Matching(this, m))
        /\ (Visible(next)' <=> Visible(next)) /\ (KnownBefore(next)' <=> KnownBefore(next))
    BY <1>9 DEF ClearField, this, Matching, Visible, KnownBefore
  <2>2. FirstBridge(next)' <=> FirstBridge(next)
    BY <1>9 DEF ClearField, FirstBridge, Bridge, FirstContext, Context, Visible, KnownBefore, Matching
  <2> QED BY <1>2, <1>9, <2>1, <2>2 DEF ClearField, HandInv, helperVars, TypeOK
<1>10. CASE EndClass
  <2>1. CASE pc' # "fields" BY <1>10, <2>1 DEF EndClass, Clear, HandInv
  <2>2. CASE pc' = "fields"
    <3>1. /\ pc = "fields" /\ next' = next
          /\ mode = "modern" /\ Matching(this, "modern") = {} /\ ClearsLegacy /\ Clear("legacy")
      BY <1>10, <2>2 DEF EndClass
    <3>2. field' = NoField /\ todo' = Matching(this, "legacy") /\ mode' = "legacy"
      BY <3>1 DEF Clear, PcInv
    <3>3. this' = this /\ \A m : Matching(this, m)' = Matching(this, m)
      BY <1>1, <3>1 DEF this, Matching
    <3>4. ~FirstContext(next) BY <3>1 DEF FirstContext, Context, this
    <3>5. Bridge(next) BY <3>1, <3>4, Place DEF Bridge, ClearsLegacy, this
    <3>6. FirstBridge(next) BY <3>1, <3>5 DEF FirstBridge, ClearsLegacy, FlagsInv, Done
    <3>7. FirstBridge(next)' BY <1>1, <3>1, <3>6 DEF FirstBridge, Bridge, FirstContext,
                                                     Context, Visible, KnownBefore, Matching
    <3> QED BY <1>2, <2>2, <3>1, <3>2, <3>3, <3>7 DEF HandInv, Matching
  <2> QED BY <2>1, <2>2
<1>11. CASE ReplaceNative BY <1>11 DEF ReplaceNative, HandInv
<1>12. CASE EndSweep BY <1>12 DEF EndSweep, HandInv
<1> QED BY <1>4, <1>5, <1>6, <1>7, <1>8, <1>9, <1>10, <1>11, <1>12 DEF Next, Loader

-----------------------------------------------------------------------------
\* A class with nothing to clear is no reason for clearing.
LEMMA NothingDue ==
  ASSUME SweepInv, Done = next - 1,
         ~modern_cleared_ => ~Context(next), ~legacy_cleared_ => ~Bridge(next)
  PROVE  \A f \in Fields : ~Due(f, next)
<1>1. ~FirstContext(next) BY DEF SweepInv, FlagsInv, FirstContext
<1>2. ~FirstBridge(next) BY DEF SweepInv, FlagsInv, FirstBridge
<1> QED BY <1>1, <1>2 DEF Due

\* When its fields have been dealt with, those due were the ones it matched.
LEMMA DueHere ==
  ASSUME SweepInv, EndClass, pc' = "natives", NEW f \in Fields
  PROVE  Due(f, next) <=> f \in Matching(this, mode)
<1> USE DEF SweepInv
<1>1. pc = "fields" /\ ~(mode = "modern" /\ Matching(this, "modern") = {} /\ ClearsLegacy)
  BY DEF EndClass, Clear
<1>2. Done = next - 1 BY <1>1 DEF Done
<1>3. CASE mode = "legacy"
  <2>1. FirstBridge(next) BY <1>1, <1>3 DEF HandInv
  <2> QED BY <1>3, <2>1 DEF Due, Matching, this
<1>4. CASE mode = "modern"
  <2>1. Context(next) <=> Matching(this, "modern") # {} BY <1>1, <1>4 DEF HandInv, Context, this
  <2>2. FirstContext(next) <=> Context(next)
    BY <1>1, <1>2, <1>4 DEF HandInv, FlagsInv, FirstContext
  <2>3. CASE Matching(this, "modern") # {}
    <3>1. FirstContext(next) /\ ~FirstBridge(next)
      BY <2>1, <2>2, <2>3 DEF FirstBridge, Bridge
    <3> QED BY <1>4, <3>1 DEF Due, Matching, this
  <2>4. CASE Matching(this, "modern") = {}
    <3>1. ~Context(next) BY <2>1, <2>4
    <3>2. ~legacy_cleared_ => ~Bridge(next)
      BY <1>1, <1>4, <2>4 DEF ClearsLegacy, Bridge, this
    <3> QED BY <1>2, <1>4, <2>4, <3>1, <3>2, NothingDue
  <2> QED BY <2>3, <2>4
<1> QED BY <1>3, <1>4 DEF TypeOK

LEMMA SweepCleared ==
  ASSUME SweepInv, Next
  PROVE  ClearedInv'
<1> USE DEF SweepInv
<1>1. order' = order BY OrderKept
<1>2. /\ next \in Nat /\ next >= 1 /\ next - 1 \in Nat /\ 1..next = 1..(next - 1) \cup {next}
  BY Place
\* The fields that are due up to the same place, or one more.
<1>3. ASSUME Done' = Done
      PROVE  \A f : (\E p \in 1..Done : Due(f, p))' <=> \E p \in 1..Done : Due(f, p)
  BY <1>1, <1>3, OrderStays
<1>4. ASSUME Done' = next, Done = next - 1
      PROVE  \A f : (\E p \in 1..Done : Due(f, p))'
                    <=> (\E p \in 1..Done : Due(f, p)) \/ Due(f, next)
  BY <1>1, <1>2, <1>4, OrderStays
<1>5. ASSUME Done' = Done, cleared' = cleared, \A f \in Fields : InHand(f)' <=> InHand(f)
      PROVE  ClearedInv'
  BY <1>3, <1>5 DEF ClearedInv
<1>6. ASSUME Done' = next, Done = next - 1, cleared' = cleared,
             \A f \in Fields : ~InHand(f)' /\ (InHand(f) <=> Due(f, next))
      PROVE  ClearedInv'
  BY <1>4, <1>6 DEF ClearedInv
<1>7. ASSUME NEW f \in Fields, NEW cb \in Callbacks,
             Register(f, cb) \/ Unregister(f, cb)
      PROVE  ClearedInv'
  BY <1>5, <1>7 DEF Register, Unregister, Done, InHand, Matching, this
<1>8. CASE LoadClass
  <2>1. \A f \in Fields : ~InHand(f) /\ ~InHand(f)' BY <1>8 DEF LoadClass, InHand
  <2>2. CASE this \in Loads
    BY <1>5, <1>8, <2>1, <2>2 DEF LoadClass, Done, dataVars
  <2>3. CASE this \notin Loads
    <3>1. Done' = next /\ Done = next - 1 BY <1>2, <1>8, <2>3 DEF LoadClass, Done
    <3>2. ~Context(next) /\ ~Bridge(next) BY <2>3 DEF Context, Bridge, Visible, this
    <3> QED BY <1>6, <1>8, <2>1, <3>1, <3>2, NothingDue DEF LoadClass, dataVars
  <2> QED BY <2>2, <2>3
<1>9. CASE EnterClass
  <2>1. pc = "callbacks" /\ pc' \in {"natives", "fields"} /\ next' = next /\ cleared' = cleared
        /\ \A f \in Fields : ~InHand(f)
    BY <1>9 DEF EnterClass, Clear, dataVars, InHand
  <2>2. CASE pc' = "natives"
    <3>1. Done' = next /\ Done = next - 1 BY <2>1, <2>2 DEF Done
    <3>2. \A f \in Fields : ~Due(f, next) BY <1>9, <2>2, <3>1, PassedOver, NothingDue
    <3> QED BY <1>6, <2>1, <2>2, <3>1, <3>2 DEF InHand
  <2>3. CASE pc' = "fields"
    <3>1. Done' = Done BY <2>1, <2>3 DEF Done
    <3>2. todo' = Matching(this, mode') BY <1>9, <2>3 DEF EnterClass, Clear
    <3>3. \A f : ~InHand(f)' BY <1>1, <2>1, <3>2 DEF InHand, Matching, this
    <3> QED BY <1>5, <2>1, <3>1, <3>3
  <2> QED BY <2>1, <2>2, <2>3
<1>10. ASSUME NEW f \in Fields, ReadField(f) PROVE ClearedInv'
  <2>1. field = NoField BY <1>10 DEF ReadField, PcInv
  <2>2. \A g \in Fields : InHand(g)' <=> InHand(g)
    BY <1>10, <2>1 DEF ReadField, InHand, Matching, this
  <2> QED BY <1>5, <1>10, <2>2 DEF ReadField, Done, dataVars
<1>11. ASSUME NEW cb \in Callbacks, ReadCallback(cb) PROVE ClearedInv'
  BY <1>5, <1>11 DEF ReadCallback, Done, InHand, Matching, this
<1>12. CASE ClearField
  <2>1. field # NoField /\ field \in Matching(this, mode) /\ field \notin todo /\ field \in Fields
    BY <1>12 DEF ClearField, PcInv, HandInv, TypeOK
  <2>2. \A g \in Fields : InHand(g)' <=> InHand(g) \/ g = field
    BY <1>12, <2>1 DEF ClearField, InHand, Matching, this
  <2>3. Done' = Done BY <1>12 DEF ClearField, Done
  <2>4. cleared' = cleared \cup {field} BY <1>12 DEF ClearField
  <2> QED BY <1>3, <2>2, <2>3, <2>4 DEF ClearedInv
<1>13. CASE EndClass
  <2>1. pc = "fields" /\ pc' \in {"natives", "fields"} /\ next' = next /\ cleared' = cleared
        /\ todo = {}
    BY <1>13 DEF EndClass, Clear, dataVars
  <2>2. field = NoField BY <2>1 DEF PcInv
  <2>3. \A f \in Fields : InHand(f) <=> f \in Matching(this, mode) BY <2>1, <2>2 DEF InHand
  <2>4. CASE pc' = "natives"
    <3>1. Done' = next /\ Done = next - 1 BY <2>1, <2>4 DEF Done
    <3> QED BY <1>6, <1>13, <2>1, <2>3, <2>4, <3>1, DueHere DEF InHand
  <2>5. CASE pc' = "fields"
    <3>1. mode = "modern" /\ Matching(this, "modern") = {} /\ Clear("legacy")
      BY <1>13, <2>5 DEF EndClass
    <3>2. \A f : ~InHand(f)' BY <1>1, <2>1, <3>1 DEF Clear, InHand, Matching, this
    <3>3. Done' = Done BY <2>1, <2>5 DEF Done
    <3> QED BY <1>5, <2>1, <2>3, <3>1, <3>2, <3>3
  <2> QED BY <2>1, <2>4, <2>5
<1>14. CASE ReplaceNative
  BY <1>2, <1>5, <1>14 DEF ReplaceNative, Done, InHand, dataVars
<1>15. CASE EndSweep
  BY <1>5, <1>15 DEF EndSweep, Done, InHand, dataVars
<1> QED BY <1>7, <1>8, <1>9, <1>10, <1>11, <1>12, <1>13, <1>14, <1>15 DEF Next, Loader

-----------------------------------------------------------------------------
\* A collection is cleared once: the class that holds it comes once.
LEMMA FieldNotCleared ==
  ASSUME SweepInv, pc = "read"
  PROVE  field \in Fields /\ field \notin cleared
<1> USE DEF SweepInv
<1>1. field # NoField /\ field \in Fields BY DEF PcInv, TypeOK
<1>2. Holder[field] = order[next] BY <1>1 DEF HandInv, Matching, this
<1>3. ~InHand(field) BY DEF InHand
<1>4. ASSUME NEW p \in 1..Done, Due(field, p) PROVE FALSE
  <2>1. p \in DOMAIN order /\ next \in DOMAIN order /\ p # next
    BY Place, OrderFacts DEF Done, PcInv
  <2>2. order[p] = order[next] BY <1>2, <1>4 DEF Due
  <2> QED BY <2>1, <2>2, OrderFacts DEF PcInv
<1> QED BY <1>1, <1>3, <1>4 DEF ClearedInv

LEMMA SweepCallbacks ==
  ASSUME SweepInv, Next
  PROVE  CallbackInv'
<1> USE DEF SweepInv
<1>1. ASSUME UNCHANGED <<field, content, cleared_callbacks_, cleared, arrived>>,
             pending' = pending \/ field = NoField
      PROVE  CallbackInv'
  BY <1>1 DEF CallbackInv, Reported
<1>f. field \in Fields => field \notin cleared BY FieldNotCleared DEF PcInv
<1>2. ASSUME NEW f \in Fields, NEW cb \in Callbacks, Register(f, cb) PROVE CallbackInv'
  <2>1. PICK met \in BOOLEAN :
          /\ met => field = f
          /\ pending' = IF met THEN pending \cup {cb} ELSE pending
          /\ arrived' = [arrived EXCEPT ![f][cb] = IF f \in cleared THEN "after"
                                                   ELSE IF field = f /\ ~met THEN "missed"
                                                   ELSE "before"]
    BY <1>2, Zenon DEF Register
  <2>2. content' = [content EXCEPT ![f] = content[f] \cup {cb}]
        /\ UNCHANGED <<field, cleared, cleared_callbacks_>>
    BY <1>2 DEF Register
  <2>3. /\ arrived'[f][cb] = IF f \in cleared THEN "after"
                             ELSE IF field = f /\ ~met THEN "missed" ELSE "before"
        /\ \A k \in Callbacks : k # cb => arrived'[f][k] = arrived[f][k]
        /\ \A g \in Fields : g # f => arrived'[g] = arrived[g]
    BY <2>1 DEF TypeOK
  <2>4. /\ content'[f] = content[f] \cup {cb}
        /\ \A g \in Fields : g # f => content'[g] = content[g]
        /\ \A g \in Fields : content[g] \subseteq Callbacks
    BY <2>2 DEF TypeOK
  <2>5. (\A k : Reported(k)' <=> Reported(k)) /\ pending \subseteq pending'
    BY <2>1, <2>2 DEF Reported
  <2> SUFFICES ASSUME NEW g \in Fields
               PROVE  /\ g \in cleared => \A k \in content'[g] : arrived'[g][k] = "after"
                      /\ field = g => \A k \in content'[g] :
                           arrived'[g][k] = "missed" \/ k \in pending' \/ Reported(k)
    BY <2>2, <2>5 DEF CallbackInv
  <2>6. CASE g # f BY <2>3, <2>4, <2>5, <2>6 DEF CallbackInv
  <2>7. CASE g = f
    <3>1. g \in cleared => \A k \in content'[g] : arrived'[g][k] = "after"
      BY <2>3, <2>4, <2>7 DEF CallbackInv
    <3>2. ASSUME field = g, NEW k \in content'[g]
          PROVE  arrived'[g][k] = "missed" \/ k \in pending' \/ Reported(k)
      <4>1. CASE k = cb BY <1>f, <2>1, <2>3, <2>7, <3>2, <4>1
      <4>2. CASE k # cb BY <2>3, <2>4, <2>5, <2>7, <3>2, <4>2 DEF CallbackInv
      <4> QED BY <4>1, <4>2
    <3> QED BY <3>1, <3>2
  <2> QED BY <2>6, <2>7
<1>3. ASSUME NEW f \in Fields, NEW cb \in Callbacks, Unregister(f, cb) PROVE CallbackInv'
  <2>1. /\ content' = [content EXCEPT ![f] = content[f] \ {cb}]
        /\ arrived' = [arrived EXCEPT ![f][cb] = "never"]
        /\ pending' = pending \/ (field = f /\ pending' = pending \ {cb})
        /\ UNCHANGED <<field, cleared, cleared_callbacks_>>
    BY <1>3 DEF Unregister
  <2>2. /\ \A k \in Callbacks : k # cb => arrived'[f][k] = arrived[f][k]
        /\ \A g \in Fields : g # f => arrived'[g] = arrived[g]
    BY <2>1 DEF TypeOK
  <2>3. /\ content'[f] = content[f] \ {cb}
        /\ \A g \in Fields : g # f => content'[g] = content[g]
        /\ \A g \in Fields : content[g] \subseteq Callbacks
    BY <2>1 DEF TypeOK
  <2>4. \A k : Reported(k)' <=> Reported(k) BY <2>1 DEF Reported
  <2> SUFFICES ASSUME NEW g \in Fields
               PROVE  /\ g \in cleared => \A k \in content'[g] : arrived'[g][k] = "after"
                      /\ field = g => \A k \in content'[g] :
                           arrived'[g][k] = "missed" \/ k \in pending' \/ Reported(k)
    BY <2>1, <2>4 DEF CallbackInv
  <2>5. \A k \in content'[g] : k \in content[g] /\ arrived'[g][k] = arrived[g][k]
    BY <2>2, <2>3
  <2>6. field = g => \A k \in content'[g] : k \in pending => k \in pending' BY <2>1, <2>3
  <2> QED BY <2>5, <2>6 DEF CallbackInv
<1>4. CASE LoadClass BY <1>1, <1>4 DEF LoadClass, readVars, dataVars
<1>5. CASE EnterClass
  <2>1. field = NoField BY <1>5 DEF EnterClass, PcInv
  <2> QED BY <1>1, <1>5, <2>1 DEF EnterClass, Clear, readVars, dataVars
<1>6. ASSUME NEW f \in Fields, ReadField(f) PROVE CallbackInv'
  BY <1>6 DEF ReadField, dataVars, CallbackInv, Reported
<1>7. ASSUME NEW cb \in Callbacks, ReadCallback(cb) PROVE CallbackInv'
  <2>1. \A k : Reported(k) => Reported(k)' BY <1>7 DEF ReadCallback, Reported
  <2>2. Reported(cb)' BY <1>7 DEF ReadCallback, Reported
  <2> QED BY <1>7, <2>1, <2>2 DEF ReadCallback, CallbackInv
<1>8. CASE ClearField
  <2>1. /\ pc = "read" /\ field' = NoField
        /\ content' = [content EXCEPT ![field] = {}] /\ cleared' = cleared \cup {field}
        /\ arrived' = [arrived EXCEPT ![field] = Absent]
    BY <1>8 DEF ClearField
  <2>2. field \in Fields BY <2>1, FieldNotCleared
  <2>3. content'[field] = {}
        /\ \A g \in Fields : g # field => content'[g] = content[g] /\ arrived'[g] = arrived[g]
    BY <2>1, <2>2 DEF TypeOK
  <2> QED BY <2>1, <2>2, <2>3 DEF CallbackInv
<1>9. CASE EndClass
  <2>1. field = NoField BY <1>9 DEF EndClass, PcInv
  <2> QED BY <1>1, <1>9, <2>1 DEF EndClass, Clear, readVars, dataVars
<1>10. CASE ReplaceNative BY <1>1, <1>10 DEF ReplaceNative, readVars, dataVars
<1>11. CASE EndSweep BY <1>1, <1>11 DEF EndSweep, readVars, dataVars
<1> QED BY <1>2, <1>3, <1>4, <1>5, <1>6, <1>7, <1>8, <1>9, <1>10, <1>11 DEF Next, Loader

LEMMA SweepNatives ==
  ASSUME SweepInv, Next
  PROVE  NativeInv'
<1> USE DEF SweepInv
<1>1. order' = order BY OrderKept
<1>2. /\ next \in Nat /\ next >= 1 /\ 1..next = 1..(next - 1) \cup {next} BY Place
<1>3. ASSUME UNCHANGED <<next, native, is_lsposed_disabled_>> PROVE NativeInv'
  BY <1>1, <1>3 DEF NativeInv, Replaceable
<1>4. ASSUME NEW f \in Fields, NEW cb \in Callbacks,
             Register(f, cb) \/ Unregister(f, cb)
      PROVE  NativeInv'
  BY <1>3, <1>4 DEF Register, Unregister, nativeVars
<1>5. CASE LoadClass
  <2>1. next' = next \/ (next' = next + 1 /\ this \notin Replaceable)
    BY <1>5 DEF LoadClass, Replaceable
  <2>2. CASE next' = next BY <1>3, <1>5, <2>2 DEF LoadClass, nativeVars
  <2>3. CASE next' = next + 1 /\ this \notin Replaceable
    <3>1. next' - 1 = next BY <1>2, <2>3
    <3> QED BY <1>1, <1>2, <1>5, <2>3, <3>1 DEF LoadClass, nativeVars, NativeInv, Replaceable, this
  <2> QED BY <2>1, <2>2, <2>3
<1>6. CASE EnterClass BY <1>3, <1>6 DEF EnterClass, nativeVars
<1>7. ASSUME NEW f \in Fields, ReadField(f) PROVE NativeInv'
  BY <1>3, <1>7 DEF ReadField, nativeVars
<1>8. ASSUME NEW cb \in Callbacks, ReadCallback(cb) PROVE NativeInv'
  BY <1>3, <1>8 DEF ReadCallback, nativeVars
<1>9. CASE ClearField BY <1>3, <1>9 DEF ClearField, nativeVars
<1>10. CASE EndClass BY <1>3, <1>10 DEF EndClass, nativeVars
<1>11. CASE ReplaceNative
  <2>1. pc = "natives" /\ next' = next + 1 /\ next' - 1 = next BY <1>2, <1>11 DEF ReplaceNative
  <2>2. this \in Loads /\ this \in ClassSet BY <2>1, Place
  <2>3. CASE ~is_lsposed_disabled_ /\ this \in HasHookMethod \cap Registers
    <3>1. native' = [native EXCEPT ![this] = "stub"] /\ is_lsposed_disabled_' = TRUE
      BY <1>11, <2>3 DEF ReplaceNative
    <3>2. \A c \in ClassSet : native[c] # "stub" BY <2>3 DEF NativeInv
    <3>3. \A c \in ClassSet : native'[c] = "stub" <=> c = this BY <2>2, <3>1, <3>2 DEF TypeOK
    <3>4. this \in Replaceable BY <2>2, <2>3 DEF Replaceable
    <3> QED BY <1>1, <2>2, <3>1, <3>3, <3>4 DEF NativeInv, Replaceable
  <2>4. CASE ~(~is_lsposed_disabled_ /\ this \in HasHookMethod \cap Registers)
    <3>1. native' = native /\ is_lsposed_disabled_' = is_lsposed_disabled_
      BY <1>11, <2>4 DEF ReplaceNative, TypeOK
    <3>2. this \in Replaceable => is_lsposed_disabled_ BY <2>4 DEF Replaceable, TypeOK
    <3> QED BY <1>1, <1>2, <2>1, <3>1, <3>2 DEF NativeInv, Replaceable, this
  <2> QED BY <2>3, <2>4
<1>12. CASE EndSweep BY <1>3, <1>12 DEF EndSweep, nativeVars
<1> QED BY <1>4, <1>5, <1>6, <1>7, <1>8, <1>9, <1>10, <1>11, <1>12 DEF Next, Loader

LEMMA SweepNext == SweepInv /\ [Next]_vars => SweepInv'
<1> SUFFICES ASSUME SweepInv, [Next]_vars PROVE SweepInv' OBVIOUS
<1>1. CASE Next
  BY <1>1, SweepTypes, SweepFlags, SweepHand, SweepCleared, SweepCallbacks, SweepNatives
     DEF SweepInv
<1>2. CASE UNCHANGED vars
  <2>1. UNCHANGED <<order, next, pc, mode, todo, field, pending, content, legacy_cleared_,
                    modern_cleared_, xposed_interface_known, framework_name_,
                    cleared_callbacks_, native, is_lsposed_disabled_, cleared,
                    arrived>>
    BY <1>2 DEF vars, helperVars, nativeVars, readVars, dataVars
  <2>2. TypeOK' /\ PcInv' BY <2>1 DEF SweepInv, TypeOK, PcInv, this
  <2>3. Done' = Done /\ Seen' = Seen BY <2>1 DEF Done, Seen
  <2>4. \A p : KnownBefore(p)' <=> KnownBefore(p) BY <2>1, OrderStays
  <2>5. FlagsInv' BY <2>1, <2>3, <2>4, OrderStays DEF SweepInv, FlagsInv, KnownBefore, Visible
  <2>6. HandInv' BY <2>1, OrderStays DEF SweepInv, HandInv, this, Matching
  <2>7. ClearedInv' BY <2>1, <2>3, OrderStays DEF SweepInv, ClearedInv, InHand, this, Matching
  <2>8. CallbackInv' BY <2>1 DEF SweepInv, CallbackInv, Reported
  <2>9. NativeInv' BY <2>1 DEF SweepInv, NativeInv
  <2> QED BY <2>2, <2>5, <2>6, <2>7, <2>8, <2>9 DEF SweepInv
<1> QED BY <1>1, <1>2

\* What has been dealt with at every point of the loop (main.cc:748-767).
THEOREM SweepInvariance == Spec => []SweepInv
<1> QED BY SweepInit, SweepNext, PTL DEF Spec

\* The variables keep their types, for any classes, fields and callbacks.
THEOREM SweepTypeCorrect == Spec => []TypeOK
<1>1. SweepInv => TypeOK BY DEF SweepInv
<1> QED BY <1>1, SweepInvariance, PTL

\* Of the callbacks that clearing a field removes, those the iterator did not
\* miss are in the report, for any classes and fields and however often modules
\* add and remove callbacks (main.cc:180-190).
THEOREM TakenCorrect == Spec => TakenIsReported
<1> DEFINE Good == \A f \in cleared' \ cleared : \A cb \in content[f] :
                     arrived[f][cb] = "missed" \/ Reported(cb)
<1>1. SweepInv /\ [Next]_vars => [Good]_vars
  <2> SUFFICES ASSUME SweepInv, Next PROVE Good OBVIOUS
  <2>1. cleared' = cleared => Good OBVIOUS
  <2>2. CASE ClearField
    <3>1. pc = "read" /\ pending = {} /\ cleared' = cleared \cup {field} BY <2>2 DEF ClearField
    <3>2. field \in Fields BY <3>1, FieldNotCleared
    <3> QED BY <3>1, <3>2 DEF SweepInv, CallbackInv
  <2>3. ClearField \/ cleared' = cleared
    BY DEF Next, Loader, Register, Unregister, LoadClass, EnterClass, ReadField, ReadCallback,
           EndClass, ReplaceNative, EndSweep, dataVars
  <2> QED BY <2>1, <2>2, <2>3
<1>2. TakenIsReported <=> [][Good]_vars BY DEF TakenIsReported
<1> QED BY <1>1, <1>2, SweepInvariance, PTL DEF Spec

-----------------------------------------------------------------------------
\* ToClear is the set of the fields that are due.
LEMMA ToClearIsDue ==
  ASSUME NEW f \in Fields
  PROVE  f \in ToClear <=> \E p \in DOMAIN order : Due(f, p)
<1>1. ASSUME NEW p \in DOMAIN order
      PROVE  Due(f, p) <=> \/ FirstContext(p) /\ f \in Matching(order[p], "modern")
                           \/ FirstBridge(p) /\ f \in Matching(order[p], "legacy")
  BY DEF Due, Matching
<1>2. f \in ToClear <=>
        \/ \E p \in DOMAIN order : FirstContext(p) /\ f \in Matching(order[p], "modern")
        \/ \E p \in DOMAIN order : FirstBridge(p) /\ f \in Matching(order[p], "legacy")
  BY DEF ToClear
<1> QED BY <1>1, <1>2

\* A field in hand belongs to the first class of its kind in the list.
LEMMA InHandIsDue ==
  ASSUME SweepInv, NEW f \in Fields, InHand(f)
  PROVE  next \in DOMAIN order /\ Due(f, next)
<1> USE DEF SweepInv
<1>1. pc \in {"fields", "read"} /\ f \in Matching(this, mode) BY DEF InHand
<1>2. next \in DOMAIN order BY <1>1, Place
<1>3. CASE mode = "legacy"
  <2>1. FirstBridge(next) BY <1>1, <1>3 DEF HandInv
  <2> QED BY <1>1, <1>2, <1>3, <2>1 DEF Due, Matching, this
<1>4. CASE mode = "modern"
  <2>1. Context(next) BY <1>1, <1>4 DEF HandInv, Context, this
  <2>2. \A q \in 1..(next - 1) : ~Context(q) BY <1>1, <1>4 DEF HandInv, FlagsInv, Done
  <2> QED BY <1>1, <1>2, <1>4, <2>1, <2>2 DEF Due, FirstContext, Matching, this
<1> QED BY <1>3, <1>4 DEF TypeOK

\* Only the collections of the first modern context and the first bridge are
\* cleared, in whatever order the classes come (main.cc:119-151).
THEOREM OthersCorrect == Spec => []OthersUntouched
<1>1. SweepInv => OthersUntouched
  <2> SUFFICES ASSUME SweepInv, NEW f \in cleared PROVE f \in ToClear BY DEF OthersUntouched
  <2>1. f \in Fields /\ (InHand(f) \/ \E p \in 1..Done : Due(f, p))
    BY DEF SweepInv, TypeOK, ClearedInv
  <2>2. CASE InHand(f) BY <2>1, <2>2, InHandIsDue, ToClearIsDue
  <2>3. ASSUME NEW p \in 1..Done, Due(f, p) PROVE f \in ToClear
    <3>1. 1..Done \subseteq DOMAIN order BY Place, OrderFacts DEF SweepInv, TypeOK, PcInv, Done
    <3> QED BY <2>1, <2>3, <3>1, ToClearIsDue
  <2> QED BY <2>1, <2>2, <2>3
<1> QED BY <1>1, SweepInvariance, PTL

\* At the end of the loop every class of the list has been looked at.
LEMMA AllDone ==
  ASSUME SweepInv, pc = "done"
  PROVE  next - 1 = Len(order) /\ Done = Len(order) /\ DOMAIN order = 1..Len(order)
<1>1. Len(order) \in Nat /\ DOMAIN order = 1..Len(order) BY OrderFacts DEF SweepInv, PcInv
<1>2. next = Len(order) + 1 BY <1>1 DEF SweepInv, TypeOK, PcInv
<1> QED BY <1>1, <1>2 DEF Done

\* After the sweep the first modern context and the first bridge of the list
\* hold only callbacks that came after their own clearing (main.cc:96-195).
THEOREM BlockedCorrect == Spec => []CallbacksBlocked
<1>1. SweepInv => CallbacksBlocked
  <2> SUFFICES ASSUME SweepInv, pc = "done", NEW f \in ToClear, NEW cb \in content[f]
               PROVE  arrived[f][cb] = "after"
    BY DEF CallbacksBlocked
  <2>1. f \in Fields BY DEF ToClear, Matching
  <2>2. \E p \in 1..Done : Due(f, p) BY <2>1, ToClearIsDue, AllDone
  <2>3. f \in cleared BY <2>1, <2>2 DEF SweepInv, ClearedInv
  <2> QED BY <2>1, <2>3 DEF SweepInv, CallbackInv
<1> QED BY <1>1, SweepInvariance, PTL

\* A place of the list that is in a set of places is behind the first that is.
LEMMA FirstPlace ==
  ASSUME NEW T, T \subseteq Nat, T # {}
  PROVE  \E x \in T : \A y \in 1..(x - 1) : y \notin T
<1>1. \E x \in T : \A y \in T : ~(<<y, x>> \in OpToRel(<, Nat))
  BY WFMin, NatLessThanWellFounded, Zenon
<1>2. PICK x \in T : \A y \in T : ~(<<y, x>> \in OpToRel(<, Nat))
  BY <1>1
<1>3. \A a, b \in Nat : a < b => <<a, b>> \in OpToRel(<, Nat)
  BY Zenon DEF OpToRel
<1>4. \A y \in T : ~(y < x)
  BY <1>2, <1>3, Zenon
<1> QED BY <1>4

\* Where there is a bridge that is no context, there is a first bridge in every
\* order, and a first context where there is one that lists the interface.
LEMMA FirstsThere ==
  ASSUME order \in Orders
  PROVE  /\ Bridges \ Contexts # {} => \E p \in DOMAIN order : FirstBridge(p)
         /\ Contexts \cap Direct # {} => \E p \in DOMAIN order : FirstContext(p)
<1> USE OrderFacts
<1>1. ASSUME NEW c \in Bridges \ Contexts PROVE \E p \in DOMAIN order : FirstBridge(p)
  <2> DEFINE T == {p \in DOMAIN order : Bridge(p)}
  <2>1. c \in ClassSet /\ c \in Loads /\ SimpleName[c] = "XposedBridge" BY DEF Bridges
  <2>2. PICK p \in DOMAIN order : order[p] = c BY <2>1
  <2>3. Context(p) => c \in Contexts BY <2>2 DEF Context, Visible, Contexts
  <2>4. p \in T BY <2>1, <2>2, <2>3 DEF Bridge, FirstContext
  <2>5. T \subseteq Nat OBVIOUS
  <2>6. PICK x \in T : \A y \in 1..(x - 1) : y \notin T BY <2>4, <2>5, FirstPlace, Zenon
  <2>7. \A y \in 1..(x - 1) : y \in DOMAIN order OBVIOUS
  <2> QED BY <2>6, <2>7 DEF FirstBridge
<1>2. ASSUME NEW c \in Contexts \cap Direct PROVE \E p \in DOMAIN order : FirstContext(p)
  <2> DEFINE T == {p \in DOMAIN order : Context(p)}
  <2>1. /\ c \in ClassSet /\ c \in Loads /\ HasKeySetView
        /\ SimpleName[c] # "XposedInterface" /\ SimpleName[c] # "none"
        /\ Matching(c, "modern") # {}
    BY DEF Contexts
  <2>2. PICK p \in DOMAIN order : order[p] = c BY <2>1
  <2>3. p \in T BY <2>1, <2>2 DEF Context, Visible
  <2>4. T \subseteq Nat OBVIOUS
  <2>5. PICK x \in T : \A y \in 1..(x - 1) : y \notin T BY <2>3, <2>4, FirstPlace, Zenon
  <2>6. \A y \in 1..(x - 1) : y \in DOMAIN order OBVIOUS
  <2> QED BY <2>5, <2>6 DEF FirstContext
<1> QED BY <1>1, <1>2

\* A bridge and a context are blocked in every order of the names
\* (main.cc:96-195).
THEOREM SurelyCorrect == Spec => []SurelyBlocked
<1>1. SweepInv /\ CallbacksBlocked => SurelyBlocked
  <2> SUFFICES ASSUME SweepInv, CallbacksBlocked, pc = "done"
               PROVE  /\ Bridges \ Contexts # {} => \E c \in Bridges : Blocked(c, "legacy")
                      /\ Contexts \cap Direct # {} => \E c \in Contexts : Blocked(c, "modern")
    BY DEF SurelyBlocked
  <2>1. order \in Orders BY DEF SweepInv, PcInv
  <2>2. ASSUME NEW p \in DOMAIN order, FirstBridge(p)
        PROVE  \E c \in Bridges : Blocked(c, "legacy")
    <3>1. Matching(order[p], "legacy") \subseteq ToClear BY <2>2 DEF ToClear
    <3>2. Blocked(order[p], "legacy") BY <3>1 DEF Blocked, CallbacksBlocked
    <3>3. order[p] \in Bridges BY <2>2 DEF FirstBridge, Bridge, Bridges
    <3> QED BY <3>2, <3>3
  <2>3. ASSUME NEW p \in DOMAIN order, FirstContext(p)
        PROVE  \E c \in Contexts : Blocked(c, "modern")
    <3>1. Matching(order[p], "modern") \subseteq ToClear BY <2>3 DEF ToClear
    <3>2. Blocked(order[p], "modern") BY <3>1 DEF Blocked, CallbacksBlocked
    <3>3. order[p] \in Contexts
      BY <2>3 DEF FirstContext, Context, Visible, Contexts, SweepAssumption
    <3> QED BY <3>2, <3>3
  <2> QED BY <2>1, <2>2, <2>3, FirstsThere
<1> QED BY <1>1, SweepInvariance, BlockedCorrect, PTL

\* is_lsposed_disabled_ tells that exactly one hookMethod is the stub, and the
\* sweep finds one if any class can be replaced (main.cc:754-766).
THEOREM FlagCorrect == Spec => []FlagMeansStub
<1>1. SweepInv => FlagMeansStub
  <2> SUFFICES ASSUME SweepInv PROVE FlagMeansStub OBVIOUS
  <2>1. ASSUME pc = "done", Replaceable # {} PROVE is_lsposed_disabled_
    <3>1. PICK c \in ClassSet : c \in Replaceable BY <2>1 DEF Replaceable
    <3>2. PICK p \in DOMAIN order : order[p] = c
      BY <3>1, OrderFacts DEF SweepInv, PcInv
    <3>3. p \in 1..(next - 1) BY <2>1, <3>2, AllDone
    <3> QED BY <3>1, <3>2, <3>3 DEF SweepInv, NativeInv
  <2> QED BY <2>1 DEF SweepInv, NativeInv, FlagMeansStub
<1> QED BY <1>1, SweepInvariance, PTL

\* The name shown comes from the one context that is cleared, and the flags
\* never go back (main.cc:152-156).
THEOREM NameCorrect == Spec => HelperMonotone
<1> DEFINE Good == /\ framework_name_' # framework_name_ => modern_cleared_' /\ ~modern_cleared_
                   /\ modern_cleared_ => modern_cleared_'
                   /\ legacy_cleared_ => legacy_cleared_'
<1>1. SweepInv /\ [Next]_vars => [Good]_vars
  <2> SUFFICES ASSUME SweepInv, Next PROVE Good OBVIOUS
  <2>1. ASSUME UNCHANGED <<framework_name_, modern_cleared_, legacy_cleared_>> PROVE Good
    BY <2>1
  <2>2. CASE EndClass
    <3>1. framework_name_' # framework_name_ => mode = "modern" /\ modern_cleared_'
      BY <2>2 DEF EndClass
    <3>2. mode = "modern" => ~modern_cleared_ BY <2>2 DEF EndClass, SweepInv, HandInv
    <3> QED BY <2>2, <3>1, <3>2 DEF EndClass
  <2>3. EndClass \/ UNCHANGED <<framework_name_, modern_cleared_, legacy_cleared_>>
    BY DEF Next, Loader, Register, Unregister, LoadClass, EnterClass, ReadField, ReadCallback, ClearField,
           ReplaceNative, EndSweep, helperVars
  <2> QED BY <2>1, <2>2, <2>3
<1>2. HelperMonotone <=> [][Good]_vars BY DEF HelperMonotone
<1> QED BY <1>1, <1>2, SweepInvariance, PTL DEF Spec
=============================================================================
