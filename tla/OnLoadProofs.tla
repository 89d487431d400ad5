----------------------------- MODULE OnLoadProofs -----------------------------
(* Proofs about what the activity shows, for any number of processes, any  *)
(* backtraces and any layouts of libart.so, and about the search for the   *)
(* framework by itself (Spec of FrameworkFinder).                          *)
EXTENDS OnLoad, TLAPS

-----------------------------------------------------------------------------
(* The search for the framework, for backtraces of any length and loaders. *)

\* A frame that is appended changes nothing between the earlier ones.
LEMMA EdgesOfAppend ==
  ASSUME NEW t \in Seq(Frames), NEW frame \in Frames
  PROVE  LET u == Append(t, frame) IN
         /\ UsableIn(u) = UsableIn(t) \cup (IF Usable(frame) THEN {Len(t) + 1} ELSE {})
         /\ \A k, j \in DOMAIN t : Edge(u, k, j) <=> Edge(t, k, j)
         /\ \A k, j \in DOMAIN u : Edge(u, k, j) => j \in DOMAIN t \/ j = Len(t) + 1
<1> DEFINE u == Append(t, frame)
<1>1. /\ Len(t) \in Nat /\ DOMAIN t = 1..Len(t) /\ DOMAIN u = 1..(Len(t) + 1)
      /\ u[Len(t) + 1] = frame /\ \A k \in DOMAIN t : u[k] = t[k]
  OBVIOUS
<1> HIDE DEF u
<1>2. UsableIn(u) = UsableIn(t) \cup (IF Usable(frame) THEN {Len(t) + 1} ELSE {})
  BY <1>1 DEF UsableIn
<1>3. \A n \in UsableIn(u) : n \in DOMAIN t => n \in UsableIn(t) BY <1>1 DEF UsableIn
<1>4. ASSUME NEW k \in DOMAIN t, NEW j \in DOMAIN t
      PROVE  Edge(u, k, j) <=> Edge(t, k, j)
  <2>1. \A n \in UsableIn(u) : n < j => n \in UsableIn(t) BY <1>1, <1>2 DEF UsableIn
  <2>2. UsableIn(t) \subseteq UsableIn(u) BY <1>2
  <2>3. Before(u, k, j) <=> Before(t, k, j) BY <1>3, <2>1, <2>2 DEF Before
  <2> QED BY <1>1, <2>3 DEF Edge
<1>5. \A k, j \in DOMAIN u : j \in DOMAIN t \/ j = Len(t) + 1 BY <1>1
<1> QED BY <1>2, <1>4, <1>5 DEF u

\* In the grown backtrace an edge before the new frame is an old one; one at
\* the new frame starts at the last usable frame.
LEMMA NewEdge ==
  ASSUME NEW t \in Seq(Frames), NEW frame \in Frames, NEW f \in Nat \cup {None},
         NoEdge(t), LastUsable(t, f),
         NEW k \in DOMAIN Append(t, frame), NEW j \in DOMAIN Append(t, frame),
         Edge(Append(t, frame), k, j)
  PROVE  /\ j = Len(t) + 1 /\ k = f /\ f # None
         /\ Usable(frame) /\ frame.single /\ t[f].loader # frame.loader
<1> DEFINE u == Append(t, frame)
<1>1. /\ Len(t) \in Nat /\ DOMAIN t = 1..Len(t) /\ DOMAIN u = 1..(Len(t) + 1)
      /\ u[Len(t) + 1] = frame /\ \A n \in DOMAIN t : u[n] = t[n]
  OBVIOUS
<1>2. k < j /\ k \in UsableIn(u) /\ j \in UsableIn(u) /\ u[j].single /\ u[k].loader # u[j].loader
  BY DEF Edge, Before
<1>3. k \in DOMAIN t BY <1>1, <1>2
<1>4. j \notin DOMAIN t BY <1>3, EdgesOfAppend DEF NoEdge
<1>5. j = Len(t) + 1 BY <1>1, <1>4
<1>6. k \in UsableIn(t) BY <1>1, <1>2, <1>3 DEF UsableIn
<1>7. f # None /\ f \in UsableIn(t) /\ k <= f BY <1>6 DEF LastUsable
<1>8. f \in UsableIn(u) /\ f < j BY <1>1, <1>5, <1>7 DEF UsableIn
<1>9. ~(k < f) BY <1>8 DEF Edge, Before
<1>10. k = f BY <1>7, <1>9, <1>1 DEF UsableIn
<1> QED BY <1>1, <1>2, <1>3, <1>5, <1>7, <1>10 DEF UsableIn

LEMMA ScanInit == Init => ScanInv
<1> SUFFICES ASSUME Init PROVE ScanInv OBVIOUS
<1>1. TypeOK
  <2>1. trace \in Seq(Frames) /\ Len(trace) = 0 BY DEF Init
  <2>2. Len(Attempts) = 3 BY DEF Attempts
  <2>3. None \in Places /\ 0 <= MaxFrames BY FinderAssumption DEF Places
  <2>4. attempt \in 1..(Len(Attempts) + 1) BY <2>2 DEF Init
  <2> QED BY <2>1, <2>3, <2>4 DEF Init, TypeOK
<1> QED BY <1>1 DEF Init, ScanInv, RightFramework, NoPendingException

\* One turn of the loop keeps the loop invariant.
LEMMA ScanStep ==
  ASSUME ScanInv, NEW frame \in Frames, ScanFrame(frame)
  PROVE  ScanInv'
<1>1. /\ pc = "scan" /\ pc' = "scan" /\ trace \in Seq(Frames) /\ found \in Places
      /\ NoEdge(trace) /\ LastUsable(trace, found) /\ Len(trace) < MaxFrames
      /\ trace' = Append(trace, frame)
  BY DEF ScanInv, ScanFrame, TypeOK, RightFramework
<1>2. /\ Len(trace) \in Nat /\ Len(trace') = Len(trace) + 1 /\ trace' \in Seq(Frames)
      /\ DOMAIN trace = 1..Len(trace)
  BY <1>1
<1>3. found \in Nat \cup {None} /\ (found # None => found \in 1..MaxFrames)
  BY <1>1 DEF Places
<1>4. TypeOK'
  BY <1>1, <1>2, FinderAssumption DEF ScanInv, ScanFrame, TypeOK, Places
<1>5. NoEdge(trace')
  <2> SUFFICES ASSUME NEW k \in DOMAIN trace', NEW j \in DOMAIN trace', Edge(trace', k, j)
               PROVE  FALSE
    BY DEF NoEdge
  <2>1. /\ found # None /\ Usable(frame) /\ frame.single
        /\ trace[found].loader # frame.loader
    BY <1>1, <1>3, NewEdge
  <2> QED BY <2>1 DEF ScanFrame, Hooker
<1>6. LastUsable(trace', found')
  <2>1. UsableIn(trace') = UsableIn(trace) \cup (IF Usable(frame) THEN {Len(trace) + 1} ELSE {})
    BY <1>1, EdgesOfAppend
  <2>2. \A n \in UsableIn(trace) : n <= Len(trace) /\ n \in Nat BY <1>2 DEF UsableIn
  <2>3. CASE Usable(frame)
    <3>1. found' = Len(trace) + 1 /\ found' # None
      BY <1>2, <2>3, FinderAssumption DEF ScanFrame
    <3> QED BY <1>2, <2>1, <2>2, <2>3, <3>1 DEF LastUsable
  <2>4. CASE ~Usable(frame)
    BY <1>1, <2>1, <2>4 DEF ScanFrame, LastUsable
  <2> QED BY <2>3, <2>4
<1>7. pending' = pending /\ result' = result BY DEF ScanFrame
<1> QED BY <1>1, <1>4, <1>5, <1>6, <1>7 DEF ScanInv, RightFramework, NoPendingException

\* The answer is given at the first edge.
LEMMA FoundStep ==
  ASSUME ScanInv, NEW frame \in Frames, FoundHooker(frame)
  PROVE  ScanInv'
<1>1. /\ pc = "scan" /\ pc' = "done" /\ trace \in Seq(Frames) /\ found \in Places
      /\ NoEdge(trace) /\ LastUsable(trace, found) /\ Len(trace) < MaxFrames
      /\ trace' = Append(trace, frame) /\ result' = found /\ Hooker(frame)
  BY DEF ScanInv, FoundHooker, TypeOK, RightFramework
<1>2. /\ Len(trace) \in Nat /\ Len(trace') = Len(trace) + 1 /\ trace' \in Seq(Frames)
      /\ DOMAIN trace = 1..Len(trace) /\ DOMAIN trace' = 1..(Len(trace) + 1)
      /\ trace'[Len(trace) + 1] = frame /\ \A n \in DOMAIN trace : trace'[n] = trace[n]
  BY <1>1
<1>3. found # None /\ Usable(frame) /\ frame.single /\ frame.loader # trace[found].loader
  BY <1>1 DEF Hooker
<1>4. found \in UsableIn(trace) /\ \A n \in UsableIn(trace) : n <= found
  BY <1>1, <1>3 DEF LastUsable
<1>5. found \in DOMAIN trace /\ found \in Nat BY <1>2, <1>4 DEF UsableIn
<1>6. TypeOK'
  BY <1>1, <1>2, FinderAssumption DEF ScanInv, FoundHooker, TypeOK
<1>7. FirstEdge(trace', found, Len(trace) + 1)
  <2>1. UsableIn(trace') = UsableIn(trace) \cup {Len(trace) + 1} BY <1>1, <1>3, EdgesOfAppend
  <2>2. Before(trace', found, Len(trace) + 1)
    BY <1>2, <1>4, <1>5, <2>1 DEF Before, UsableIn
  <2>3. Edge(trace', found, Len(trace) + 1) BY <1>2, <1>3, <1>5, <2>2 DEF Edge
  <2>4. ASSUME NEW m \in DOMAIN trace', NEW n \in DOMAIN trace', Edge(trace', m, n)
        PROVE  Len(trace) + 1 <= n
    <3>1. n = Len(trace) + 1 BY <1>1, <1>5, <2>4, NewEdge
    <3> QED BY <1>2, <3>1
  <2> QED BY <2>3, <2>4 DEF FirstEdge
<1>8. pending' = pending BY DEF FoundHooker
<1> QED BY <1>1, <1>2, <1>6, <1>7, <1>8 DEF ScanInv, RightFramework, NoPendingException

LEMMA ScanNext == ScanInv /\ [Next]_vars => ScanInv'
<1> SUFFICES ASSUME ScanInv, [Next]_vars PROVE ScanInv' OBVIOUS
<1> USE DEF ScanInv
<1>e. <<>> \in Seq(Frames) /\ Len(<<>>) = 0 /\ NoEdge(<<>>) /\ LastUsable(<<>>, None)
  BY DEF NoEdge, LastUsable, UsableIn
<1>n. 0 <= MaxFrames /\ None \in Places /\ Len(Attempts) = 3
  BY FinderAssumption DEF Places, Attempts
<1>1. CASE HookedMethod
  BY <1>1 DEF HookedMethod, TypeOK, RightFramework, NoPendingException
<1>2. CASE Call
  <2>1. attempt' \in 1..(Len(Attempts) + 1) BY <1>2, <1>n DEF Call, TypeOK
  <2>2. TypeOK' BY <1>2, <2>1 DEF Call, TypeOK
  <2>3. pc' \in {"call", "finder"} /\ trace' = trace /\ found' = found /\ result' = None
        /\ trace = <<>> /\ found = None
    BY <1>2 DEF Call
  <2>4. NoPendingException' BY <1>2 DEF Call, NoPendingException
  <2> QED BY <2>2, <2>3, <2>4 DEF RightFramework
<1>3. CASE EnterFinder
  BY <1>3, <1>e DEF EnterFinder, TypeOK, RightFramework, NoPendingException
<1>4. CASE EndTrace
  BY <1>4, <1>e, <1>n DEF EndTrace, TypeOK, RightFramework, NoPendingException
<1>5. CASE GiveUp
  BY <1>5 DEF GiveUp, TypeOK, RightFramework, NoPendingException
<1>6. CASE UNCHANGED vars
  BY <1>6 DEF vars, TypeOK, RightFramework, NoPendingException
<1> HIDE DEF ScanInv
<1> QED BY <1>1, <1>2, <1>3, <1>4, <1>5, <1>6, ScanStep, FoundStep DEF Next

THEOREM FinderInvariance == Spec => []ScanInv
<1> QED BY ScanInit, ScanNext, PTL DEF Spec

\* The class found is the framework's, for backtraces of any length: the last
\* of its frames before the first hooker (main.cc:448-474).
THEOREM FinderCorrect == Spec => []RightFramework
<1>1. ScanInv => RightFramework BY DEF ScanInv
<1> QED BY <1>1, FinderInvariance, PTL

\* No call of JNI meets a pending exception (main.cc:431-437).
THEOREM ExceptionsCleared == Spec => []NoPendingException
<1>1. ScanInv => NoPendingException BY DEF ScanInv
<1> QED BY <1>1, FinderInvariance, PTL

-----------------------------------------------------------------------------
(* The processes and the activity.                                         *)
USE OnLoadAssumption

\* The flags are those of the process that lives, and it starts without any.
ProcessInv ==
  /\ process \in 0..MaxProcesses
  /\ stage \in {"dead", "class", "probe", "find", "restore", "remap", "loaded", "failed"}
  /\ stage # "dead" => process \in Processes
  /\ closed \in BOOLEAN /\ is_lsposed_disabled_ = closed
  /\ restored \in BOOLEAN
  /\ is_art_restored_ = IF stage = "loaded" THEN restored ELSE (remapped # {})
  /\ stage \notin {"restore", "remap", "loaded"} => closed = FALSE
  /\ stage # "remap" => remapped = {}
  /\ stage # "loaded" => restored = FALSE

\* What is shown or kept is what was told when it was launched, and a process
\* that has told something tells the same as long as it lives.
ShownInv ==
  /\ launched \in 0..process
  /\ activity # None => Initialised /\ launched \in Processes /\ activity = told
  /\ savedInstanceState # None => launched \in Processes /\ savedInstanceState = told
  /\ launched = process /\ stage # "dead" => Initialised /\ told.flags = loadNativeInfo.flags

LInv == ProcessInv /\ ShownInv

LEMMA LInitial == LInit => LInv
<1> SUFFICES ASSUME LInit PROVE LInv OBVIOUS
<1>1. /\ process = 0 /\ stage = "dead" /\ closed = FALSE /\ is_lsposed_disabled_ = FALSE
      /\ is_art_restored_ = FALSE /\ remapped = {} /\ restored = FALSE
      /\ activity = None /\ savedInstanceState = None /\ launched = 0
  BY DEF LInit
<1>2. process \in 0..MaxProcesses BY <1>1
<1>3. is_art_restored_ = IF stage = "loaded" THEN restored ELSE (remapped # {}) BY <1>1, Zenon
<1>4. ProcessInv BY <1>1, <1>2, <1>3 DEF ProcessInv
<1>5. ShownInv BY <1>1 DEF ShownInv
<1> QED BY <1>4, <1>5 DEF LInv

\* Nothing is shown or told while the library is being loaded.
LEMMA LoadSteps ==
  ASSUME LInv, Load
  PROVE  LInv'
<1> USE DEF LInv
<1>1. /\ stage \in {"class", "find", "restore", "remap"} /\ stage' # "dead"
      /\ UNCHANGED <<process, ui, told>>
  BY DEF Load, BeginLoad, LoadFails, Find, Sweep, Visit, Remap, Return
<1>2. launched # process /\ activity = None BY <1>1 DEF ShownInv, Initialised
<1>3. ShownInv' BY <1>1, <1>2 DEF ShownInv, ui
<1>4. ProcessInv'
  <2>1. CASE BeginLoad BY <2>1 DEF BeginLoad, ProcessInv, art
  <2>2. CASE LoadFails BY <2>2 DEF LoadFails, ProcessInv, art
  <2>3. CASE Find BY <2>3 DEF Find, ProcessInv, art
  <2>4. CASE Sweep BY <2>4 DEF Sweep, ProcessInv, art
  <2>5. CASE Visit BY <2>5 DEF Visit, ProcessInv
  <2>6. CASE Remap
    <3>1. \/ UNCHANGED <<is_art_restored_, remapped>>
          \/ is_art_restored_' = TRUE /\ remapped' = remapped \cup {phdr}
      BY <2>6 DEF Remap, Art!Remap, Art!Open, Art!MapFile, Art!SkipSegment, Art!MapSegment,
                  Art!MapFails, Art!Finish, Art!history
    <3> QED BY <2>6, <3>1 DEF Remap, ProcessInv
  <2>7. CASE Return BY <2>7 DEF Return, ProcessInv, art
  <2> QED BY <2>1, <2>2, <2>3, <2>4, <2>5, <2>6, <2>7 DEF Load
<1> QED BY <1>3, <1>4

LEMMA SystemSteps ==
  ASSUME LInv, System
  PROVE  LInv'
<1> USE DEF LInv
<1>1. CASE Fork
  <2>1. /\ process' = process + 1 /\ process < MaxProcesses /\ stage = "dead" /\ stage' = "class"
        /\ UNCHANGED <<closed, is_lsposed_disabled_, restored, is_art_restored_, remapped, ui, told>>
    BY <1>1 DEF Fork, art
  <2>2. ProcessInv' BY <2>1 DEF ProcessInv, Processes
  <2>3. activity = None BY <2>1 DEF ShownInv, Initialised
  <2>4. ShownInv' BY <2>1, <2>3 DEF ProcessInv, ShownInv, ui
  <2> QED BY <2>2, <2>4
<1>p. CASE EndProbe
  <2>1. UNCHANGED <<process, closed, is_lsposed_disabled_, restored, ui, told, is_art_restored_, remapped>>
        /\ stage = "probe" /\ stage' = "find"
    BY <1>p DEF EndProbe, art
  <2>2. launched # process /\ activity = None BY <2>1 DEF ShownInv, Initialised
  <2> QED BY <2>1, <2>2 DEF ProcessInv, ShownInv, ui
<1>2. CASE HookArt
  <2>1. UNCHANGED <<process, stage, closed, is_lsposed_disabled_, ui, told>>
        /\ is_art_restored_' = is_art_restored_ /\ remapped' = remapped /\ restored' = restored
        /\ stage = "remap"
    BY <1>2 DEF HookArt, Art!Patch, Art!Write
  <2>2. launched # process /\ activity = None BY <2>1 DEF ShownInv, Initialised
  <2> QED BY <2>1, <2>2 DEF ProcessInv, ShownInv, ui
<1>3. ASSUME Initialised, UNCHANGED process_state,
             launched' \in {0, process, launched},
             activity' # None => launched' \in Processes /\ activity' = told',
             savedInstanceState' # None => launched' \in Processes /\ savedInstanceState' = told',
             launched' = process => told'.flags = loadNativeInfo.flags
      PROVE  LInv'
  <2>1. UNCHANGED <<process, stage, closed, is_lsposed_disabled_, restored, is_art_restored_, remapped>>
    BY <1>3 DEF process_state, art
  <2>2. loadNativeInfo'.flags = loadNativeInfo.flags BY <2>1 DEF loadNativeInfo, nGetFlags
  <2>3. ProcessInv' BY <2>1 DEF ProcessInv
  <2>4. ShownInv' BY <1>3, <2>1, <2>2 DEF ShownInv, ProcessInv, Initialised
  <2> QED BY <2>3, <2>4
<1>4. Initialised => stage # "dead" BY DEF Initialised
<1>5. process \in Processes \/ stage = "dead" BY DEF ProcessInv
<1>6. CASE restoreState BY <1>3, <1>4, <1>6 DEF restoreState, ShownInv
<1>7. CASE onCreate BY <1>3, <1>4, <1>5, <1>7 DEF onCreate
<1>8. CASE onSaveInstanceState BY <1>3, <1>4, <1>8 DEF onSaveInstanceState, ShownInv
<1>9. CASE Recreate BY <1>3, <1>4, <1>9 DEF Recreate, ShownInv
<1>10. CASE Finish
  <2>1. Initialised BY <1>10 DEF Finish, ShownInv
  <2>2. process # 0 BY <1>4, <1>5, <2>1 DEF Processes
  <2> QED BY <1>3, <1>10, <2>1, <2>2 DEF Finish
<1>11. CASE Die
  <2>1. ProcessInv' BY <1>11 DEF Die, ProcessInv
  <2>2. ShownInv' BY <1>11 DEF Die, ProcessInv, ShownInv
  <2> QED BY <2>1, <2>2
<1> QED BY <1>1, <1>2, <1>p, <1>6, <1>7, <1>8, <1>9, <1>10, <1>11 DEF System

LEMMA LNextKeeps == LInv /\ [LNext]_lvars => LInv'
<1> SUFFICES ASSUME LInv, UNCHANGED lvars PROVE LInv' BY LoadSteps, SystemSteps DEF LNext
<1> QED BY DEF LInv, ProcessInv, ShownInv, lvars, art, ui, Initialised, loadNativeInfo, nGetFlags

THEOREM ShownInvariance == LSpec => []LInv
<1> QED BY LInitial, LNextKeeps, PTL DEF LSpec

\* An activity shows what the natives said in the one process it was launched
\* in, however often it is saved, created again and killed
\* (MainActivity.kt:38-47, :72-89, :129-135).
THEOREM ShownCorrect == LSpec => []ShownIsTrue
<1>1. LInv => ShownIsTrue BY DEF LInv, ShownInv, ShownIsTrue
<1> QED BY <1>1, ShownInvariance, PTL

\* Success that is shown for the process that lives is success
\* (main.cc:663-668, MainActivity.kt:107-108).
THEOREM FlagsCorrect == LSpec => []FlagsTrue
<1>1. LInv => FlagsTrue
  <2> SUFFICES ASSUME LInv, activity # None, launched = process
               PROVE  (Success(1) <=> closed) /\ (Success(2) <=> restored)
    BY DEF FlagsTrue
  <2>1. Initialised /\ activity.flags = loadNativeInfo.flags
    BY DEF LInv, ShownInv, Initialised
  <2>2. loadNativeInfo.flags = IF stage = "loaded" THEN nGetFlags ELSE 0 BY DEF loadNativeInfo
  <2>3. CASE stage = "failed"
    <3>1. activity.flags = 0 /\ closed = FALSE /\ restored = FALSE
      BY <2>1, <2>2, <2>3 DEF LInv, ProcessInv
    <3> QED BY <3>1 DEF Success
  <2>4. CASE stage = "loaded"
    <3>1. activity.flags = (IF closed THEN 1 ELSE 0) + (IF restored THEN 2 ELSE 0)
      BY <2>1, <2>2, <2>4 DEF LInv, ProcessInv, nGetFlags
    <3> QED BY <3>1 DEF Success, LInv, ProcessInv
  <2> QED BY <2>1, <2>3, <2>4 DEF Initialised
<1> QED BY <1>1, ShownInvariance, PTL

-----------------------------------------------------------------------------
(* The remapping, as ArtRemapProofs has it, in every process.              *)
ArtP == INSTANCE ArtRemapProofs WITH pc <- artpc

ArtInv ==
  IF stage = "remap" THEN ArtP!RemapInv
  ELSE /\ artpc = "open" /\ phdr = 1 /\ fd = FALSE /\ elf = FALSE
       /\ remapped = {} /\ late = {} /\ written = {}
       /\ stage # "loaded" => is_art_restored_ = FALSE

\* The two instances of ArtRemap have the same steps.
LEMMA SameSteps ==
  /\ Art!RemapAssumption => ArtP!RemapAssumption
  /\ Art!Remap => ArtP!Next
  /\ \A u \in Art!Units : Art!Patch(u) \/ Art!Write(u) => ArtP!Next
<1> USE DEF Art!library, ArtP!library, Art!history, ArtP!history
<1>1. Art!RemapAssumption => ArtP!RemapAssumption
  BY
     DEF Art!RemapAssumption, ArtP!RemapAssumption, Art!WellLaidOut, ArtP!WellLaidOut,
         Art!Headers, ArtP!Headers
<1>2. Art!Open => ArtP!Open BY DEF Art!Open, ArtP!Open
<1>3. Art!MapFile => ArtP!MapFile BY DEF Art!MapFile, ArtP!MapFile
<1>4. Art!Selected(Art!this) <=> ArtP!Selected(ArtP!this)
  BY DEF Art!Selected, ArtP!Selected, Art!this, ArtP!this
<1>5. Art!SkipSegment => ArtP!SkipSegment BY <1>4 DEF Art!SkipSegment, ArtP!SkipSegment
<1>6. Art!MapFails => ArtP!MapFails BY <1>4 DEF Art!MapFails, ArtP!MapFails
<1>7. Art!Finish => ArtP!Finish BY DEF Art!Finish, ArtP!Finish
<1>8. Art!MapSegment => ArtP!MapSegment
  BY <1>4
     DEF Art!MapSegment, ArtP!MapSegment, Art!this, ArtP!this, Art!segment_addr,
         ArtP!segment_addr, Art!segment_size, ArtP!segment_size, Art!segment_offset,
         ArtP!segment_offset, Art!AlignDown, ArtP!AlignDown, Art!AlignUp, ArtP!AlignUp,
         Art!Units, ArtP!Units, Art!In, ArtP!In, Art!OffsetOf, ArtP!OffsetOf
<1>9. \A u \in Art!Units : Art!Patch(u) => ArtP!Patch(u) /\ u \in ArtP!Units
  BY
     DEF Art!Patch, ArtP!Patch, Art!Units, ArtP!Units, Art!Code, ArtP!Code, Art!Within,
         ArtP!Within, Art!In, ArtP!In
<1>10. \A u \in Art!Units : Art!Write(u) => ArtP!Write(u) /\ u \in ArtP!Units
  BY
     DEF Art!Write, ArtP!Write, Art!Units, ArtP!Units, Art!Within, ArtP!Within, Art!In, ArtP!In
<1> QED BY <1>1, <1>2, <1>3, <1>5, <1>6, <1>7, <1>8, <1>9, <1>10 DEF Art!Remap, ArtP!Remap, ArtP!Next

LEMMA ArtStep ==
  ASSUME ArtP!RemapInv, Art!Remap \/ (\E u \in Art!Units : Art!Patch(u) \/ Art!Write(u)) \/ UNCHANGED art
  PROVE  ArtP!RemapInv'
<1>1. ArtP!RemapAssumption BY OnLoadAssumption, SameSteps
<1>2. [ArtP!Next]_(ArtP!vars) BY SameSteps DEF art, ArtP!vars, ArtP!library, ArtP!history
<1> QED BY <1>1, <1>2, ArtP!RemapNext

LEMMA ArtFresh == ArtP!Init => ArtP!RemapInv
BY OnLoadAssumption, SameSteps, ArtP!RemapInit

\* Visit finds libart.so as ArtRemap begins with it.
LEMMA ArtBegins ==
  ASSUME ArtInv, Visit
  PROVE  ArtP!RemapInv'
<1>1. /\ artpc' = "open" /\ phdr' = 1 /\ fd' = FALSE /\ elf' = FALSE
      /\ is_art_restored_' = FALSE /\ remapped' = {} /\ late' = {} /\ written' = {}
      /\ phdrs' \in Layouts /\ dli_fbase' \in Bases
  BY DEF ArtInv, Visit
<1>2. \E hooks \in SUBSET ArtP!Code' : memory' = ArtP!MemoryWith(hooks)'
  BY DEF Visit, Art!Code, ArtP!Code, Art!MemoryWith, ArtP!MemoryWith, Art!Within, ArtP!Within,
         Art!Units, ArtP!Units, Art!In, ArtP!In
<1>3. ArtP!Init' BY <1>1, <1>2 DEF ArtP!Init
<1>4. (ArtP!Init => ArtP!RemapInv)' BY ArtFresh, PTL
<1> QED BY <1>3, <1>4

LEMMA ArtNext == ArtInv /\ [LNext]_lvars => ArtInv'
<1> SUFFICES ASSUME ArtInv, [LNext]_lvars PROVE ArtInv' OBVIOUS
<1>1. ASSUME UNCHANGED art, stage' = "remap" <=> stage = "remap",
             stage' # "loaded" => stage # "loaded" \/ is_art_restored_ = FALSE
      PROVE  ArtInv'
  <2>1. CASE stage = "remap" BY <1>1, <2>1, ArtStep DEF ArtInv
  <2>2. CASE stage # "remap" BY <1>1, <2>2 DEF ArtInv, art
  <2> QED BY <2>1, <2>2
<1>2. CASE BeginLoad \/ EndProbe \/ LoadFails \/ Find \/ Sweep \/ Fork
  BY <1>1, <1>2 DEF BeginLoad, EndProbe, LoadFails, Find, Sweep, Fork
<1>3. CASE Visit BY <1>3, ArtBegins DEF ArtInv, Visit
<1>4. CASE Remap BY <1>4, ArtStep DEF ArtInv, Remap
<1>5. CASE HookArt BY <1>5, ArtStep DEF ArtInv, HookArt
<1>6. CASE restoreState \/ onCreate \/ onSaveInstanceState \/ Recreate \/ Finish \/ UNCHANGED lvars
  BY <1>1, <1>6 DEF restoreState, onCreate, onSaveInstanceState, Recreate, Finish,
                    process_state, lvars
<1>7. CASE Return
  <2>1. ~fd /\ ~elf /\ fd' = fd /\ elf' = elf /\ fd \in BOOLEAN /\ elf \in BOOLEAN
    BY <1>7 DEF Return, ArtInv, ArtP!RemapInv, ArtP!PlaceInv, ArtP!TypeOK
  <2> QED BY <1>7, <2>1 DEF Return, ArtInv
<1>8. CASE Die BY <1>8 DEF Die, ArtInv
<1> QED BY <1>2, <1>3, <1>4, <1>5, <1>6, <1>7, <1>8 DEF LNext, Load, System

THEOREM ArtInvariance == LSpec => []ArtInv
<1>1. LInit => ArtInv BY DEF LInit, ArtInv
<1> QED BY <1>1, ArtNext, PTL DEF LSpec

LEMMA RemapCorrect == LSpec => [](SegmentsKept /\ AlignedRestored /\ ReturnsClean)
<1>1. ASSUME ArtP!RemapInv PROVE Art!SegmentsKept /\ Art!AlignedRestored /\ Art!ReturnsClean
  <2>1. Art!SegmentsKept
    BY <1>1 DEF Art!SegmentsKept, ArtP!SegmentsKept, ArtP!RemapInv, Art!Fits, ArtP!Fits,
                Art!Within, ArtP!Within, Art!Units, ArtP!Units, Art!In, ArtP!In
  <2>2. Art!AlignedRestored
    BY <1>1 DEF Art!AlignedRestored, ArtP!AlignedRestored, ArtP!RemapInv,
                Art!Units, ArtP!Units, Art!In, ArtP!In
  <2>3. Art!ReturnsClean
    BY <1>1 DEF Art!ReturnsClean, ArtP!RemapInv, ArtP!PlaceInv
  <2> QED BY <2>1, <2>2, <2>3
<1>2. ArtInv => SegmentsKept /\ AlignedRestored /\ ReturnsClean
  BY <1>1 DEF ArtInv, SegmentsKept, AlignedRestored, ReturnsClean
<1> QED BY <1>2, ArtInvariance, PTL

\* In every process, wherever the last one was killed and wherever the linker
\* put the library: as long as the mappings made fit its base, the remapping
\* loses no variable and no other's memory, and brings no byte of another place
\* of the file into a segment (main.cc:598-612).
THEOREM SegmentsStay == LSpec => []SegmentsKept
  BY RemapCorrect, PTL

\* In every process it undoes the earlier patches of the segments that lie at
\* a multiple of their alignment in memory (main.cc:602-612).
THEOREM AlignedStay == LSpec => []AlignedRestored
  BY RemapCorrect, PTL

\* In every process it returns without its descriptor and its mapping of the
\* file, however many mappings failed (main.cc:581-620).
THEOREM FileClosed == LSpec => []ReturnsClean
  BY RemapCorrect, PTL

-----------------------------------------------------------------------------
(* The search of every process.                                            *)
LEMMA FinderNext == ScanInv /\ [LNext]_lvars => ScanInv'
<1> SUFFICES ASSUME ScanInv, [LNext]_lvars PROVE ScanInv' OBVIOUS
<1>1. ASSUME UNCHANGED vars PROVE ScanInv' BY <1>1, ScanNext
<1>2. ASSUME pc' = "hooked", attempt' = 1, trace' = <<>>, found' = None, result' = None,
             pending' = FALSE
      PROVE  ScanInv'
  <2>1. Init' BY <1>2 DEF Init
  <2>2. (Init => ScanInv)' BY ScanInit, PTL
  <2> QED BY <2>1, <2>2
<1>3. CASE Find BY <1>3, ScanNext DEF Find
<1>4. CASE Sweep
  <2>1. pending = FALSE BY <1>4 DEF Sweep, ScanInv, TypeOK, NoPendingException
  <2> QED BY <1>2, <1>4, <2>1 DEF Sweep
<1>5. CASE Die BY <1>2, <1>5 DEF Die
<1>6. CASE BeginLoad \/ EndProbe \/ LoadFails \/ Visit \/ Remap \/ Return \/ Fork \/ HookArt \/ UNCHANGED lvars
  BY <1>1, <1>6 DEF BeginLoad, EndProbe, LoadFails, Visit, Remap, Return, Fork, HookArt, finder, lvars
<1>7. CASE restoreState \/ onCreate \/ onSaveInstanceState \/ Recreate \/ Finish
  BY <1>1, <1>7 DEF restoreState, onCreate, onSaveInstanceState, Recreate, Finish,
                    process_state, finder
<1> QED BY <1>3, <1>4, <1>5, <1>6, <1>7 DEF LNext, Load, System

\* In every process the class found is the framework's, and no exception is
\* left pending for the rest of JNI_OnLoad (main.cc:431-474).
THEOREM SearchCorrect == LSpec => [](RightFramework /\ NoPendingException)
<1>1. LInit => ScanInv BY ScanInit DEF LInit
<1>2. ScanInv => RightFramework /\ NoPendingException BY DEF ScanInv
<1> QED BY <1>1, <1>2, FinderNext, PTL DEF LSpec
=============================================================================
