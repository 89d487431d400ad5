------------------------------- MODULE OnLoad -------------------------------
(***************************************************************************)
(* The processes of the application, one after another: each loads the     *)
(* library when its first class is initialised (Native.kt, main.cc:673-     *)
(* 839), and its activity shows what the natives say, or what an earlier   *)
(* activity saved (MainActivity.kt).  The framework finder and the         *)
(* remapping of libart.so run here as their own modules have them; the     *)
(* sweep and the visit are what FrameworkSweep and HookRestore make of the  *)
(* flag and of the list.                                                   *)
(*                                                                         *)
(* The native data that is shown (methods, callbacks, name) is named by    *)
(* the process whose JNI_OnLoad made it.                                   *)
(***************************************************************************)
EXTENDS FrameworkFinder

CONSTANTS Layouts, Bases, Page, Limit,  \* of ArtRemap
          MaxProcesses             \* bound on the processes

VARIABLES phdrs, dli_fbase, memory, artpc, phdr, fd, elf, is_art_restored_, remapped, late,
          written,
          lp64,                  \* the package is installed for a 64-bit ABI
          process,               \* the process that lives, or lived last
          stage,                 \* how far it has come
          closed,                \* the framework's hookMethod is the stub
          is_lsposed_disabled_,
          restored,              \* a segment of libart.so was mapped again
          activity,              \* the fields of the activity, or None
          savedInstanceState,    \* what the system keeps of it, or None
          launched,              \* history: the process it was launched in
          told                   \* history: what the natives of that process said

Art == INSTANCE ArtRemap WITH pc <- artpc

ASSUME OnLoadAssumption == Art!RemapAssumption /\ MaxProcesses \in Nat \ {0}

Processes == 1..MaxProcesses

finder == vars
art == <<phdrs, dli_fbase, memory, artpc, phdr, fd, elf, is_art_restored_, remapped, late, written>>
ui == <<activity, savedInstanceState, launched>>
lvars == <<finder, art, lp64, process, stage, closed, is_lsposed_disabled_, restored, ui, told>>

NotLoaded == 0   \* the data of a process without the library
Info == [methodList : Processes \cup {NotLoaded}, flags : 0..3,
         clearedCallbacks : Processes \cup {NotLoaded},
         frameworkName : Processes \cup {NotLoaded}]

LTypeOK ==
  /\ TypeOK /\ (phdrs = <<>> \/ Art!TypeOK)
  /\ process \in 0..MaxProcesses
  /\ stage \in {"dead", "class", "probe", "find", "restore", "remap", "loaded", "failed"}
  /\ {lp64, closed, is_lsposed_disabled_, restored} \subseteq BOOLEAN
  /\ {activity, savedInstanceState} \subseteq Info \cup {None}
  /\ launched \in 0..MaxProcesses
  /\ told \in Info \cup {None}

LInit ==
  /\ Init
  /\ phdrs = <<>> /\ dli_fbase = 0 /\ memory = <<>>
  /\ artpc = "open" /\ phdr = 1 /\ fd = FALSE /\ elf = FALSE
  /\ is_art_restored_ = FALSE /\ remapped = {} /\ late = {} /\ written = {}
  /\ lp64 \in BOOLEAN
  /\ process = 0 /\ stage = "dead"
  /\ closed = FALSE /\ is_lsposed_disabled_ = FALSE /\ restored = FALSE
  /\ activity = None /\ savedInstanceState = None /\ launched = 0
  /\ told = None

-----------------------------------------------------------------------------
(* The natives, and the getters of Native.kt around them.                  *)

\* Fault: the bits stand the other way round.
SwappedFlags == (IF is_art_restored_ THEN 1 ELSE 0) + (IF is_lsposed_disabled_ THEN 2 ELSE 0)

nGetFlags == (IF is_lsposed_disabled_ THEN 1 ELSE 0) + (IF is_art_restored_ THEN 2 ELSE 0)

loadNativeInfo ==
  LET made == IF stage = "loaded" THEN process ELSE NotLoaded
  IN [methodList |-> made, clearedCallbacks |-> made, frameworkName |-> made,
      flags |-> IF stage = "loaded" THEN nGetFlags ELSE 0]

-----------------------------------------------------------------------------
(* The load: class initialisation and JNI_OnLoad, on the main thread.      *)

\* The system starts the application.
Fork ==
  /\ stage = "dead" /\ process < MaxProcesses
  /\ process' = process + 1 /\ stage' = "class"
  /\ UNCHANGED <<finder, art, closed, is_lsposed_disabled_, restored, ui, lp64, told>>

\* System.loadLibrary runs the static initializers, of which that of
\* name_offset_ is there in 32-bit processes only (maps_parser.cc:52-76),
\* and enters JNI_OnLoad ...
BeginLoad ==
  /\ stage = "class" /\ stage' = IF lp64 THEN "find" ELSE "probe"
  /\ UNCHANGED <<finder, art, process, closed, is_lsposed_disabled_, restored, ui, lp64, told>>

\* ... or there is no such library or no JNI: an UnsatisfiedLinkError.
LoadFails ==
  /\ stage = "class" /\ stage' = "failed"
  /\ UNCHANGED <<finder, art, process, closed, is_lsposed_disabled_, restored, ui, lp64, told>>

\* The initializer ends if smaps_rollup cannot be opened or a read of it is
\* interrupted, and only then: no step of the thread leads there (NameOffset).
EndProbe ==
  /\ stage = "probe" /\ stage' = "find"
  /\ UNCHANGED <<finder, art, process, closed, is_lsposed_disabled_, restored, ui, lp64, told>>

Find ==
  /\ stage = "find" /\ Next
  /\ UNCHANGED <<art, process, stage, closed, is_lsposed_disabled_, restored, ui, lp64, told>>

\* With a framework the class loop may replace its native, without one there
\* is none; the finder's locals are gone.
Sweep ==
  /\ stage = "find" /\ pc = "done"
  /\ stage' = "restore"
  /\ is_lsposed_disabled_' \in IF result = None THEN {FALSE} ELSE BOOLEAN
  /\ closed' = is_lsposed_disabled_'
  /\ pc' = "hooked" /\ attempt' = 1 /\ trace' = <<>> /\ found' = None /\ result' = None
  /\ UNCHANGED <<pending, art, process, restored, ui, lp64, told>>

\* The methods are restored and listed.  What libart.so is like and where it has
\* been patched by now matters from here on.
Visit ==
  /\ stage = "restore" /\ stage' = "remap"
  /\ phdrs' \in Layouts /\ dli_fbase' \in Bases
  /\ \E hooks \in SUBSET Art!Code' : memory' = Art!MemoryWith(hooks)'
  /\ UNCHANGED <<finder, artpc, phdr, fd, elf, is_art_restored_, remapped, late, written,
                 process, closed, is_lsposed_disabled_, restored, ui, lp64, told>>

Remap ==
  /\ stage = "remap" /\ Art!Remap
  /\ UNCHANGED <<finder, process, stage, closed, is_lsposed_disabled_, restored, ui, lp64, told>>

\* JNI_OnLoad returns and so does loadLibrary.  What libart.so is like is of no
\* concern any more; that a segment was mapped again is remembered.
Return ==
  /\ stage = "remap" /\ artpc = "done"
  /\ stage' = "loaded" /\ restored' = (remapped # {})
  /\ phdrs' = <<>> /\ dli_fbase' = 0 /\ memory' = <<>>
  /\ artpc' = "open" /\ phdr' = 1
  /\ remapped' = {} /\ late' = {} /\ written' = {}
  /\ UNCHANGED <<finder, fd, elf, is_art_restored_, process, closed, is_lsposed_disabled_, ui, lp64, told>>

Load == BeginLoad \/ LoadFails \/ Find \/ Sweep \/ Visit \/ Remap \/ Return

\* Another thread goes on hooking libart.so or writing its variables; what it
\* does before and after the remapping is in what Visit finds, or concerns
\* nobody here.
HookArt ==
  /\ stage = "remap" /\ artpc # "done"
  /\ \E u \in Art!Units : Art!Patch(u) \/ Art!Write(u)
  /\ UNCHANGED <<finder, process, stage, closed, is_lsposed_disabled_, restored, ui, lp64, told>>

-----------------------------------------------------------------------------
(* The activity, and the system that keeps what it saved.                  *)

\* Native.kt: the class is initialised, with the library or without.
Initialised == stage \in {"loaded", "failed"}

process_state == <<finder, art, lp64, process, stage, closed, is_lsposed_disabled_, restored>>

\* Fault: the flags are asked for again, the rest is what was saved.
MixedState ==
  /\ Initialised /\ activity = None /\ savedInstanceState # None
  /\ activity' = [savedInstanceState EXCEPT !.flags = loadNativeInfo.flags]
  /\ UNCHANGED <<process_state, savedInstanceState, launched, told>>

\* onCreate with a saved state ...
restoreState ==
  /\ Initialised /\ activity = None /\ savedInstanceState # None
  /\ activity' = savedInstanceState
  /\ UNCHANGED <<process_state, savedInstanceState, launched, told>>

\* ... and without.
onCreate ==
  /\ Initialised /\ activity = None /\ savedInstanceState = None
  /\ activity' = loadNativeInfo /\ launched' = process /\ told' = loadNativeInfo
  /\ UNCHANGED <<process_state, savedInstanceState>>

onSaveInstanceState ==
  /\ activity # None
  /\ savedInstanceState' = activity
  /\ UNCHANGED <<process_state, activity, launched, told>>

\* The system destroys an activity that it will create again: a change of the
\* configuration, or memory is short.
Recreate ==
  /\ activity # None /\ savedInstanceState # None
  /\ activity' = None
  /\ UNCHANGED <<process_state, savedInstanceState, launched, told>>

\* The user leaves it for good.
Finish ==
  /\ activity # None
  /\ activity' = None /\ savedInstanceState' = None /\ launched' = 0 /\ told' = None
  /\ UNCHANGED process_state

\* The process is killed, at any time; what it saved stays.
Die ==
  /\ stage # "dead" /\ stage' = "dead"
  /\ pc' = "hooked" /\ attempt' = 1 /\ trace' = <<>> /\ found' = None /\ result' = None
  /\ pending' = FALSE
  /\ phdrs' = <<>> /\ dli_fbase' = 0 /\ memory' = <<>>
  /\ artpc' = "open" /\ phdr' = 1 /\ fd' = FALSE /\ elf' = FALSE
  /\ is_art_restored_' = FALSE /\ remapped' = {} /\ late' = {} /\ written' = {}
  /\ closed' = FALSE /\ is_lsposed_disabled_' = FALSE /\ restored' = FALSE
  /\ activity' = None
  /\ IF savedInstanceState = None THEN launched' = 0 /\ told' = None
                                   ELSE UNCHANGED <<launched, told>>
  /\ UNCHANGED <<lp64, process, savedInstanceState>>

System == \/ Fork \/ EndProbe \/ HookArt \/ restoreState \/ onCreate \/ onSaveInstanceState
          \/ Recreate \/ Finish \/ Die

LNext == Load \/ System

LSpec == LInit /\ [][LNext]_lvars

\* The main thread runs; nothing else must happen, nor is a read ever
\* interrupted for sure.
LFairSpec == LSpec /\ WF_lvars(Load)

-----------------------------------------------------------------------------
\* In every process, wherever the last one was killed and wherever the linker
\* put the library: the remapping loses nothing that was written to the
\* library at a base that fits (main.cc:598-613) ...
SegmentsKept == stage = "remap" => Art!SegmentsKept

\* ... undoes the earlier patches of a segment that lies at a multiple of its
\* alignment, at any base (main.cc:602-615) ...
AlignedRestored == stage = "remap" => Art!AlignedRestored

\* ... and returns without its descriptor and its mapping of the file, however
\* many mappings failed (main.cc:585-592, :618-619).
ReturnsClean == stage = "remap" => Art!ReturnsClean

\* What buildDisplayText makes of a bit (MainActivity.kt:107-108).
Success(mask) == (activity.flags \div mask) % 2 = 1

\* An activity that was launched in this process, however often it has been
\* created again since, says success of the framework exactly if its native is
\* the stub now, and of inline hooks exactly if a segment of libart.so was
\* mapped again (main.cc:663-668, MainActivity.kt:107-108).
FlagsTrue ==
  activity # None /\ launched = process =>
    /\ Success(1) <=> closed
    /\ Success(2) <=> restored

\* All that an activity shows is what the natives said in the one process it
\* was launched in (MainActivity.kt:38-47, :72-89, :129-135): it never mixes two
\* processes, nor shows defaults for what was not saved.  After that process
\* died the activity says nothing of the new one, whose Pid it shows.
ShownIsTrue == activity # None => launched \in Processes /\ activity = told

\* A 64-bit process that initialises its class comes to the end of it, whatever
\* is found, and so does a 32-bit one once the initializer of name_offset_ has
\* ended, which it need not do (maps_parser.cc:53-75, main.cc:673-839).  The
\* sweep and the visit are one step here; how they end is for SweepEnds of
\* FrameworkSweep and LoaderReturns of HookRestore to say.
LoadEnds ==
  stage \in {"find", "restore", "remap"} \/ (stage = "class" /\ lp64)
    ~> Initialised \/ stage = "dead"
=============================================================================
