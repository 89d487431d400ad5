---------------------------- MODULE FrameworkSweep ----------------------------
(***************************************************************************)
(* The loop of JNI_OnLoad over the classes of the framework's dex file     *)
(* (main.cc:748-767) and the XposedCallbackHelper it calls for each        *)
(* (main.cc:96-195): static collections of the legacy bridge and of the    *)
(* modern context are read into cleared_callbacks_ and cleared, and the    *)
(* first class with a hookMethod has its native replaced.  The list of     *)
(* names comes in any order; modules add and remove callbacks all the time. *)
(***************************************************************************)
EXTENDS Naturals, Sequences, FiniteSets

CONSTANTS ClassSet,        \* classes named in the dex file
          Loads,           \* Class.forName finds them
          SimpleName,      \* "XposedInterface", "XposedBridge", "other", "none"
          Direct,          \* those that list XposedInterface in getInterfaces
          Inherits,        \* those assignable to XposedInterface
          HasHookMethod,   \* those with a static hookMethod of the signature
          Registers,       \* those for which RegisterNatives succeeds
          Fields,          \* static fields that hold a collection
          Holder,          \* the class declaring each field
          KeySets,         \* the fields that hold a KeySetView
          HasKeySetView,   \* the runtime has the class KeySetView
          Callbacks,
          Accepts,         \* the callbacks that each collection takes
          Unwrap           \* what a legacy callback wraps (itself if nothing)

ASSUME SweepAssumption ==
  /\ {Loads, HasHookMethod, Registers, Inherits} \subseteq SUBSET ClassSet
  /\ Direct \subseteq Inherits
  /\ SimpleName \in [ClassSet -> {"XposedInterface", "XposedBridge", "other", "none"}]
  /\ Holder \in [Fields -> ClassSet] /\ KeySets \subseteq Fields
  /\ HasKeySetView \in BOOLEAN
  /\ Accepts \in [Fields -> SUBSET Callbacks]
  /\ Unwrap \in [Callbacks -> Callbacks]
  /\ IsFiniteSet(ClassSet)

VARIABLES order, next,     \* the names of the dex file and the loop's position
          pc, mode,        \* mode: which collections are being cleared
          todo,            \* fields of the class still to look at
          field, pending,  \* the collection being read, what its iterator has left
          content,         \* the callbacks in each field
          legacy_cleared_, modern_cleared_, xposed_interface_known,
          framework_name_, cleared_callbacks_,
          native, is_lsposed_disabled_,
          cleared,         \* history: fields that have been cleared
          arrived          \* history: when a callback came into a field

helperVars == <<legacy_cleared_, modern_cleared_, xposed_interface_known, framework_name_>>
nativeVars == <<native, is_lsposed_disabled_>>
readVars == <<todo, field, pending, mode>>
dataVars == <<content, cleared_callbacks_, cleared, arrived>>
vars == <<order, next, pc, helperVars, nativeVars, readVars, dataVars>>

NoField == "none"
ASSUME NoFieldAssumption == NoField \notin Fields

TypeOK ==
  /\ order \in Seq(ClassSet) /\ next \in 1..(Len(order) + 1)
  /\ pc \in {"next", "callbacks", "fields", "read", "natives", "done"}
  /\ mode \in {"modern", "legacy"}
  /\ todo \subseteq Fields /\ field \in Fields \cup {NoField}
  /\ pending \subseteq Callbacks
  /\ content \in [Fields -> SUBSET Callbacks]
  /\ {legacy_cleared_, modern_cleared_, xposed_interface_known, is_lsposed_disabled_}
       \subseteq BOOLEAN
  /\ framework_name_ \in ClassSet \cup {"LSPosed"}
  /\ cleared_callbacks_ \subseteq Callbacks /\ cleared \subseteq Fields
  /\ arrived \in [Fields -> [Callbacks -> {"never", "before", "missed", "after"}]]
  /\ native \in [ClassSet -> {"framework", "stub"}]

Orders == {s \in [1..Cardinality(ClassSet) -> ClassSet] :
             \A i, j \in 1..Cardinality(ClassSet) : s[i] = s[j] => i = j}

\* What is known of the callbacks of an empty field.
Absent == [cb \in Callbacks |-> "never"]

Init ==
  /\ order \in Orders /\ next = 1
  /\ pc = "next" /\ mode = "modern"
  /\ todo = {} /\ field = NoField /\ pending = {}
  /\ content = [f \in Fields |-> {}]
  /\ legacy_cleared_ = FALSE /\ modern_cleared_ = FALSE /\ xposed_interface_known = FALSE
  /\ framework_name_ = "LSPosed" /\ cleared_callbacks_ = {} /\ cleared = {}
  /\ arrived = [f \in Fields |-> Absent]
  /\ native = [c \in ClassSet |-> "framework"] /\ is_lsposed_disabled_ = FALSE

-----------------------------------------------------------------------------
\* A module registers a callback.  An iterator that is under way may meet it
\* or miss it: the collections are weakly consistent.
Register(f, cb) ==
  /\ cb \in Accepts[f] \ content[f]
  /\ content' = [content EXCEPT ![f] = content[f] \cup {cb}]
  /\ \E met \in BOOLEAN :
       /\ met => field = f
       /\ pending' = IF met THEN pending \cup {cb} ELSE pending
       /\ arrived' = [arrived EXCEPT ![f][cb] = IF f \in cleared THEN "after"
                                                ELSE IF field = f /\ ~met THEN "missed"
                                                ELSE "before"]
  /\ UNCHANGED <<order, next, pc, mode, todo, field, cleared_callbacks_, cleared, helperVars, nativeVars>>

\* It takes one back; an iterator that is under way may meet it all the same.
Unregister(f, cb) ==
  /\ cb \in content[f]
  /\ content' = [content EXCEPT ![f] = content[f] \ {cb}]
  /\ arrived' = [arrived EXCEPT ![f][cb] = "never"]
  /\ pending' \in {pending} \cup (IF field = f THEN {pending \ {cb}} ELSE {})
  /\ UNCHANGED <<order, next, pc, mode, todo, field, cleared_callbacks_, cleared, helperVars, nativeVars>>

-----------------------------------------------------------------------------
this == order[next]

\* Fault: a class that does not load is tried again.
RetryClass ==
  /\ pc = "next" /\ next <= Len(order)
  /\ pc' = IF this \in Loads THEN "callbacks" ELSE "next"
  /\ UNCHANGED <<order, next, helperVars, nativeVars, readVars, dataVars>>

\* Class.forName: a class that does not load is passed over.
LoadClass ==
  /\ pc = "next" /\ next <= Len(order)
  /\ IF this \in Loads THEN pc' = "callbacks" /\ next' = next
                       ELSE pc' = "next" /\ next' = next + 1
  /\ UNCHANGED <<order, helperVars, nativeVars, readVars, dataVars>>

\* The fields that ClearStaticFieldsAssignableTo matches in class c.
Matching(c, m) == {f \in Fields : Holder[f] = c /\ (m = "modern" => f \in KeySets)}

\* Fault: a class that comes before the interface is never recognised.
OnlyKnown(c) == xposed_interface_known /\ c \in Inherits

\* Is c an implementation of the modern interface, by what is known of it?
IsXposed(c) == IF xposed_interface_known THEN c \in Inherits ELSE c \in Direct

\* What ClearXposedCallbacks goes on to do with a class: clear the collections
\* of a modern context, of the bridge, or nothing.
ClearsModern == ~modern_cleared_ /\ HasKeySetView /\ IsXposed(this)
AnyBridge == ~legacy_cleared_      \* Fault: the simple name is not looked at.
ClearsLegacy == ~legacy_cleared_ /\ SimpleName[this] = "XposedBridge"

Clear(m) ==
  /\ pc' = "fields" /\ mode' = m
  /\ todo' = Matching(this, m)
  /\ UNCHANGED <<field, pending>>

\* The head of ClearXposedCallbacks, up to the first field.
EnterClass ==
  /\ pc = "callbacks"
  /\ LET ignored == \/ legacy_cleared_ /\ modern_cleared_
                    \/ SimpleName[this] = "none"
         isInterface == ~modern_cleared_ /\ SimpleName[this] = "XposedInterface"
     IN /\ CASE ignored \/ isInterface -> pc' = "natives" /\ UNCHANGED readVars
            [] ~ignored /\ ~isInterface /\ ClearsModern -> Clear("modern")
            [] ~ignored /\ ~isInterface /\ ~ClearsModern /\ ClearsLegacy -> Clear("legacy")
            [] OTHER -> pc' = "natives" /\ UNCHANGED readVars
        /\ xposed_interface_known' =
             (xposed_interface_known \/ (~ignored /\ (isInterface \/ ClearsModern)))
  /\ UNCHANGED <<order, next, nativeVars, dataVars, legacy_cleared_, modern_cleared_, framework_name_>>

\* The iterator of the next collection is created.
ReadField(f) ==
  /\ pc = "fields" /\ f \in todo
  /\ todo' = todo \ {f}
  /\ field' = f /\ pending' = content[f]
  /\ pc' = "read"
  /\ UNCHANGED <<order, next, mode, helperVars, nativeVars, dataVars>>

\* One callback goes into the report, a legacy one without its wrapper.
ReadCallback(cb) ==
  /\ pc = "read" /\ cb \in pending
  /\ pending' = pending \ {cb}
  /\ cleared_callbacks_' = cleared_callbacks_ \cup {IF mode = "legacy" THEN Unwrap[cb] ELSE cb}
  /\ UNCHANGED <<order, next, pc, mode, todo, field, content, cleared, arrived, helperVars, nativeVars>>

\* Fault: the collection is cleared without being read to its end.
ClearEarly ==
  /\ pc = "read"
  /\ content' = [content EXCEPT ![field] = {}] /\ arrived' = [arrived EXCEPT ![field] = Absent]
  /\ cleared' = cleared \cup {field}
  /\ field' = NoField /\ pending' = {} /\ pc' = "fields"
  /\ UNCHANGED <<order, next, mode, todo, cleared_callbacks_, helperVars, nativeVars>>

\* Fault: the collection is read and never cleared.
ReadOnly ==
  /\ pc = "read" /\ pending = {}
  /\ field' = NoField /\ pc' = "fields"
  /\ UNCHANGED <<order, next, mode, todo, pending, dataVars, helperVars, nativeVars>>

\* hasNext is false: the collection is cleared, with what came meanwhile.
ClearField ==
  /\ pc = "read" /\ pending = {}
  /\ content' = [content EXCEPT ![field] = {}] /\ arrived' = [arrived EXCEPT ![field] = Absent]
  /\ cleared' = cleared \cup {field}
  /\ field' = NoField /\ pc' = "fields"
  /\ UNCHANGED <<order, next, mode, todo, pending, cleared_callbacks_, helperVars, nativeVars>>

\* No field is left.  A modern context without a KeySetView is looked at
\* again as a bridge; a bridge counts as cleared whatever it held.
EndClass ==
  /\ pc = "fields" /\ todo = {}
  /\ IF mode = "modern" /\ Matching(this, "modern") = {} /\ ClearsLegacy
     THEN Clear("legacy")
     ELSE pc' = "natives" /\ UNCHANGED readVars
  /\ modern_cleared_' = (modern_cleared_ \/ (mode = "modern" /\ Matching(this, "modern") # {}))
  /\ legacy_cleared_' = (legacy_cleared_ \/ mode = "legacy")
  /\ framework_name_' \in {framework_name_} \cup
       (IF mode = "modern" /\ Matching(this, "modern") # {} THEN {this} ELSE {})
  /\ UNCHANGED <<order, next, xposed_interface_known, nativeVars, dataVars>>

\* Fault: the loop ends at the first class whose RegisterNatives fails.
GiveUp ==
  /\ pc = "natives"
  /\ LET stub == ~is_lsposed_disabled_ /\ this \in HasHookMethod \cap Registers
     IN /\ native' = IF stub THEN [native EXCEPT ![this] = "stub"] ELSE native
        /\ is_lsposed_disabled_' = (is_lsposed_disabled_ \/ stub)
        /\ next' = IF this \in HasHookMethod \ Registers THEN Len(order) + 1 ELSE next + 1
  /\ pc' = "next"
  /\ UNCHANGED <<order, helperVars, readVars, dataVars>>

\* GetStaticMethodID and RegisterNatives; either may fail for this class.
ReplaceNative ==
  /\ pc = "natives"
  /\ LET stub == ~is_lsposed_disabled_ /\ this \in HasHookMethod \cap Registers
     IN /\ native' = IF stub THEN [native EXCEPT ![this] = "stub"] ELSE native
        /\ is_lsposed_disabled_' = (is_lsposed_disabled_ \/ stub)
  /\ next' = next + 1 /\ pc' = "next"
  /\ UNCHANGED <<order, helperVars, readVars, dataVars>>

EndSweep ==
  /\ pc = "next" /\ next > Len(order)
  /\ pc' = "done"
  /\ UNCHANGED <<order, next, helperVars, nativeVars, readVars, dataVars>>

Loader == \/ LoadClass \/ EnterClass \/ ClearField \/ EndClass \/ ReplaceNative \/ EndSweep
          \/ \E f \in Fields : ReadField(f)
          \/ \E cb \in Callbacks : ReadCallback(cb)

Next == Loader \/ \E f \in Fields, cb \in Callbacks : Register(f, cb) \/ Unregister(f, cb)

Spec == Init /\ [][Next]_vars
FairSpec == Spec /\ WF_vars(Loader)

-----------------------------------------------------------------------------
\* What the loop should find, said of the list of names alone.
Visible(p) == order[p] \in Loads /\ SimpleName[order[p]] # "none"

\* The interface is known when class p is looked at: it came before, itself
\* or as a direct interface of another class.
KnownBefore(p) ==
  \E q \in 1..(p - 1) : /\ Visible(q)
                        /\ SimpleName[order[q]] = "XposedInterface" \/ order[q] \in Direct

\* Class p is recognised as a modern context with a collection to clear.
Context(p) ==
  /\ HasKeySetView /\ Visible(p) /\ SimpleName[order[p]] # "XposedInterface"
  /\ Matching(order[p], "modern") # {}
  /\ order[p] \in Direct \/ (order[p] \in Inherits /\ KnownBefore(p))

FirstContext(p) == Context(p) /\ \A q \in 1..(p - 1) : ~Context(q)

Bridge(p) == order[p] \in Loads /\ SimpleName[order[p]] = "XposedBridge" /\ ~FirstContext(p)
FirstBridge(p) == Bridge(p) /\ \A q \in 1..(p - 1) : ~Bridge(q)

\* The fields that the sweep must leave empty.
ToClear == UNION ({Matching(order[p], "modern") : p \in {q \in DOMAIN order : FirstContext(q)}}
                  \cup {Matching(order[p], "legacy") : p \in {q \in DOMAIN order : FirstBridge(q)}})

\* Block callbacks (README.md:13, main.cc:96-195): after the sweep the first
\* modern context and the first bridge of the list, in whatever order the
\* classes came, hold only callbacks registered after their own clearing.
CallbacksBlocked ==
  pc = "done" => \A f \in ToClear : \A cb \in content[f] : arrived[f][cb] = "after"

\* The classes that the name of a bridge or the type of a modern context, and
\* what they hold, make candidates, whatever comes before them in the list.
Bridges == {c \in Loads : SimpleName[c] = "XposedBridge"}
Contexts == {c \in Loads \cap Inherits :
               /\ HasKeySetView /\ SimpleName[c] \notin {"XposedInterface", "none"}
               /\ Matching(c, "modern") # {}}

Blocked(c, m) == \A f \in Matching(c, m) : \A cb \in content[f] : arrived[f][cb] = "after"

\* Block callbacks, said without the order that main.cc:127 depends on: after
\* the sweep a bridge is blocked if there is one that is no context, and a
\* modern context if there is one that lists the interface, whether or not the
\* interface was known by the time they were met.
SurelyBlocked ==
  pc = "done" =>
    /\ Bridges \ Contexts # {} => \E c \in Bridges : Blocked(c, "legacy")
    /\ Contexts \cap Direct # {} => \E c \in Contexts : Blocked(c, "modern")

\* The collections of any other class are left alone (main.cc:119-151).
OthersUntouched == cleared \subseteq ToClear

Reported(cb) == {cb, Unwrap[cb]} \cap cleared_callbacks_ # {}

\* Nothing is taken away in silence (main.cc:180-190): of the callbacks that
\* clearing a field removes, those are in the report that were there when its
\* iterator was created or that the iterator met since, however often callbacks
\* were added and removed meanwhile.
TakenIsReported ==
  [][\A f \in cleared' \ cleared : \A cb \in content[f] :
       arrived[f][cb] = "missed" \/ Reported(cb)]_vars

Replaceable == Loads \cap HasHookMethod \cap Registers

\* is_lsposed_disabled_ (main.cc:754-766) tells that exactly one hookMethod is
\* the stub, and the sweep finds one if any class of the list can be replaced,
\* whatever failed for the classes before it.
FlagMeansStub ==
  LET stubs == {c \in ClassSet : native[c] = "stub"}
  IN /\ stubs \subseteq Replaceable /\ (\A c, d \in stubs : c = d)
     /\ is_lsposed_disabled_ <=> stubs # {}
     /\ pc = "done" /\ Replaceable # {} => is_lsposed_disabled_

\* The name that is shown comes from the context that was cleared
\* (main.cc:152-156), and what has been cleared stays so.
HelperMonotone ==
  [][/\ framework_name_' # framework_name_ => modern_cleared_' /\ ~modern_cleared_
     /\ modern_cleared_ => modern_cleared_'
     /\ legacy_cleared_ => legacy_cleared_']_vars

\* A callback is put where the iterator under way will meet it.
Prolongs == field # NoField /\ ~(pending' \subseteq pending)

\* The sweep ends though modules go on adding and removing callbacks for ever,
\* if they do not for ever prolong the reading of a collection, which nothing
\* in main.cc:181-190 bounds.
SweepEnds == <>[][~Prolongs]_vars => <>(pc = "done")

-----------------------------------------------------------------------------
(* Why: what has been done at every point of the loop.                     *)

\* The classes whose collections have been dealt with, and those that have
\* told what they know of the interface.
Done == IF pc = "natives" THEN next ELSE next - 1
Seen == IF pc \in {"next", "callbacks", "done"} THEN next ELSE next + 1

\* The class at place p is the reason for clearing f.
Due(f, p) == /\ Holder[f] = order[p]
             /\ (f \in KeySets /\ FirstContext(p)) \/ FirstBridge(p)

PcInv ==
  /\ order \in Orders
  /\ pc \notin {"next", "done"} => next <= Len(order) /\ this \in Loads
  /\ pc = "done" => next = Len(order) + 1
  /\ pc = "read" <=> field # NoField
  /\ pc # "read" => pending = {}

\* The flags tell whether a class of the kind has been met, and what is known
\* of the interface is what the names so far say, as long as it is asked.
FlagsInv ==
  /\ modern_cleared_ <=> \E p \in 1..Done : Context(p)
  /\ legacy_cleared_ <=> \E p \in 1..Done : Bridge(p)
  /\ ~modern_cleared_ /\ HasKeySetView => (xposed_interface_known <=> KnownBefore(Seen))

\* The class in hand is the first of its kind, if it has anything to clear.
HandInv ==
  pc \in {"fields", "read"} =>
    /\ mode = "modern" =>
         /\ ~modern_cleared_ /\ HasKeySetView /\ Visible(next)
         /\ SimpleName[this] # "XposedInterface"
         /\ this \in Direct \/ (this \in Inherits /\ KnownBefore(next))
    /\ mode = "legacy" => FirstBridge(next)
    /\ todo \cup ({field} \ {NoField}) \subseteq Matching(this, mode)
    /\ field \notin todo

InHand(f) == pc \in {"fields", "read"} /\ f \in Matching(this, mode) \ (todo \cup {field})

ClearedInv ==
  \A f \in Fields : f \in cleared <=> InHand(f) \/ \E p \in 1..Done : Due(f, p)

CallbackInv ==
  \A f \in Fields :
    /\ f \in cleared => \A cb \in content[f] : arrived[f][cb] = "after"
    /\ field = f => \A cb \in content[f] : arrived[f][cb] = "missed" \/ cb \in pending \/ Reported(cb)

NativeInv ==
  /\ {c \in ClassSet : native[c] = "stub"} \subseteq Replaceable
  /\ \A c, d \in ClassSet : native[c] = "stub" /\ native[d] = "stub" => c = d
  /\ is_lsposed_disabled_ <=> \E c \in ClassSet : native[c] = "stub"
  /\ \A p \in 1..(next - 1) : order[p] \in Replaceable => is_lsposed_disabled_

SweepInv == /\ TypeOK /\ PcInv /\ FlagsInv /\ HandInv /\ ClearedInv
            /\ CallbackInv /\ NativeInv
=============================================================================
