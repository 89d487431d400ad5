---------------------------- MODULE FrameworkFinder ----------------------------
(***************************************************************************)
(* How JNI_OnLoad finds the framework (main.cc:386-509): by the callback   *)
(* stored in the hooker of a method that frameworks hook, else by calling  *)
(* up to three such methods with null arguments and reading the backtrace  *)
(* of the exception that comes back.  In a backtrace the class wanted is   *)
(* the last of the framework's frames before the frame of the generated    *)
(* hooker, which is alone in its dex file.                                 *)
(*                                                                         *)
(* A frame is a record: loader is NoLoader for an element or a loader that *)
(* is null, BootLoader for the runtime's; single says whether the dex file *)
(* of its class has one class.  A class is named by its place in the       *)
(* backtrace, and the backtrace appears frame by frame as the loop reads   *)
(* it, from the third on.  The answer by a hooker's callback is no place   *)
(* in a backtrace and is called Callback.                                  *)
(***************************************************************************)
EXTENDS Naturals, Sequences

CONSTANTS Loaders, NoLoader, BootLoader, None,
          MaxFrames        \* bound on the frames of a backtrace

ASSUME FinderAssumption ==
  /\ MaxFrames \in Nat
  /\ {NoLoader, BootLoader} \cap Loaders = {} /\ NoLoader # BootLoader
  /\ None \notin Nat

Frames == [loader : Loaders \cup {NoLoader, BootLoader}, single : BOOLEAN]
Attempts == <<"loadDex", "LoadedApk", "createOrUpdateClassLoaderLocked">>

VARIABLES pc, attempt,     \* which of the calls is next
          trace,           \* the frames that the loop has read
          found,           \* framework_api_class and its loader, or None
          pending,         \* a Java exception is pending on the thread
          result

vars == <<pc, attempt, trace, found, pending, result>>

\* A class stands for its loader too: the one of its frame.
Places == 1..MaxFrames \cup {None}
Callback == 0

TypeOK ==
  /\ pc \in {"hooked", "call", "finder", "scan", "done"}
  /\ attempt \in 1..(Len(Attempts) + 1)
  /\ trace \in Seq(Frames) /\ Len(trace) <= MaxFrames
  /\ found \in Places /\ result \in Places \cup {Callback}
  /\ pending \in BOOLEAN

Init == /\ pc = "hooked" /\ attempt = 1 /\ trace = <<>>
        /\ found = None /\ result = None /\ pending = FALSE

\* FindFrameworkAPIClassAndClassLoaderByHookedMethod: it answers, or one of
\* its lookups fails and the backtraces are tried.
HookedMethod ==
  /\ pc = "hooked"
  /\ \/ pc' = "call" /\ UNCHANGED result
     \/ pc' = "done" /\ result' = Callback
  /\ UNCHANGED <<attempt, trace, found, pending>>

\* The next method is called with null arguments: it is missing, returns, or
\* throws.
Call ==
  /\ pc = "call" /\ attempt <= Len(Attempts)
  /\ attempt' = attempt + 1
  /\ \/ pc' \in {"call", "finder"} /\ UNCHANGED pending
     \/ pc' = "finder" /\ pending' = TRUE
  /\ UNCHANGED <<trace, found, result>>

\* Fault: the exception is read and left pending.
KeepException ==
  /\ pc = "finder"
  /\ pc' = IF pending THEN "scan" ELSE "call"
  /\ UNCHANGED <<attempt, trace, found, pending, result>>

\* The finder is entered: nothing to do without an exception.
EnterFinder ==
  /\ pc = "finder"
  /\ pending' = FALSE
  /\ pc' = IF pending THEN "scan" ELSE "call"
  /\ UNCHANGED <<attempt, trace, found, result>>

\* A frame of the application or of a framework.
Usable(frame) == frame.loader \in Loaders

\* The frame that follows found belongs to a hooker that found was called by.
Hooker(frame) == /\ Usable(frame) /\ found # None
                 /\ frame.loader # trace[found].loader /\ frame.single

\* One turn of the loop that does not end it.
ScanFrame(frame) ==
  /\ pc = "scan" /\ Len(trace) < MaxFrames
  /\ ~Hooker(frame)
  /\ trace' = Append(trace, frame)
  /\ found' = IF Usable(frame) THEN Len(trace') ELSE found
  /\ UNCHANGED <<pc, attempt, pending, result>>

\* Fault: the frame of the hooker itself is returned.
HookerItself(frame) ==
  /\ pc = "scan" /\ Len(trace) < MaxFrames
  /\ Hooker(frame)
  /\ trace' = Append(trace, frame)
  /\ result' = Len(trace') /\ pc' = "done"
  /\ UNCHANGED <<attempt, found, pending>>

FoundHooker(frame) ==
  /\ pc = "scan" /\ Len(trace) < MaxFrames
  /\ Hooker(frame)
  /\ trace' = Append(trace, frame)
  /\ result' = found /\ pc' = "done"
  /\ UNCHANGED <<attempt, found, pending>>

\* Fault: the same method is called again when its backtrace shows nothing.
TryAgain ==
  /\ pc = "scan"
  /\ pc' = "call" /\ trace' = <<>> /\ found' = None
  /\ attempt' = attempt - 1
  /\ UNCHANGED <<pending, result>>

\* The backtrace ends; the finder's locals go.
EndTrace ==
  /\ pc = "scan"
  /\ pc' = "call" /\ trace' = <<>> /\ found' = None
  /\ UNCHANGED <<attempt, pending, result>>

GiveUp ==
  /\ pc = "call" /\ attempt > Len(Attempts)
  /\ pc' = "done"
  /\ UNCHANGED <<attempt, trace, found, pending, result>>

Next == \/ HookedMethod \/ Call \/ EnterFinder \/ EndTrace \/ GiveUp
        \/ \E frame \in Frames : ScanFrame(frame) \/ FoundHooker(frame)

Spec == Init /\ [][Next]_vars

-----------------------------------------------------------------------------
(* What a backtrace says, without the loop.                                *)

UsableIn(t) == {k \in DOMAIN t : Usable(t[k])}

\* k is the usable frame before j, and j is the frame of a hooker for it.
Before(t, k, j) == /\ k \in UsableIn(t) /\ j \in UsableIn(t) /\ k < j
                   /\ \A n \in UsableIn(t) : ~(k < n /\ n < j)
Edge(t, k, j) == Before(t, k, j) /\ t[k].loader # t[j].loader /\ t[j].single

NoEdge(t) == \A k, j \in DOMAIN t : ~Edge(t, k, j)
FirstEdge(t, k, j) == Edge(t, k, j) /\ \A m, n \in DOMAIN t : Edge(t, m, n) => j <= n

\* The framework is the class whose frame comes last before that of a
\* generated hooker, at the first place of the backtrace where there is one;
\* a backtrace is left without an answer only if it has no such place
\* (main.cc:448-474, :481-506).
RightFramework ==
  /\ pc = "scan" => NoEdge(trace)
  /\ pc = "done" /\ result \notin {None, Callback} => FirstEdge(trace, result, Len(trace))

\* JNI is called only with no exception pending (main.cc:431-437): by the
\* scan, by the next attempt and by everything after the return.
NoPendingException == pending => pc = "finder"

\* Why: found is the last usable frame read, and no edge has been passed.
LastUsable(t, k) ==
  IF k = None THEN UsableIn(t) = {} ELSE k \in UsableIn(t) /\ \A n \in UsableIn(t) : n <= k

ScanInv ==
  /\ TypeOK /\ RightFramework
  /\ pc = "scan" => LastUsable(trace, found)
  /\ pc \in {"hooked", "call", "finder"} => trace = <<>> /\ found = None
  /\ pc # "done" => result = None
  /\ NoPendingException
=============================================================================
