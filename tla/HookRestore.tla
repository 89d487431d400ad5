----------------------------- MODULE HookRestore -----------------------------
(***************************************************************************)
(* How JNI_OnLoad (main.cc) takes hooks out of the process: the native     *)
(* hookMethod of the framework that was found is replaced, then every JNI  *)
(* global reference is visited; one that reflects an LSPlant backup gives  *)
(* its target the backup's code.  Frameworks run on other threads all the  *)
(* time: a call of hookMethod swaps the target's ArtMethod with its        *)
(* trampoline and only then publishes the backup as a global reference.    *)
(*                                                                         *)
(* An ArtMethod is a record: entry is the code it runs (the method itself  *)
(* for its own code, a hook for that hook's trampoline), flags tells the   *)
(* method's own access flags from the ones LSPlant gives a backup.         *)
(***************************************************************************)
EXTENDS Naturals, Sequences, FiniteSets

CONSTANTS Methods,      \* the ArtMethods of the process
          Declared,     \* those that reflection can name (not copied ones)
          Classes,
          Class,        \* declaring class of a method
          Index,        \* dex_method_index of a method
          Layout,       \* the methods array of a class
          Hooks,        \* hooks that frameworks ask for during a run
          Target,       \* the method a hook intercepts
          Frameworks,
          Framework,    \* the framework a hook comes from
          Found,        \* the framework whose API class was found
          HookerClass,  \* the class declaring the backups, made by LSPlant
          Plain,        \* global references to ordinary reflected methods
          Reflects,     \* the method each of them reflects
          Objects,      \* global references to anything else
          ListRef,      \* the reference to unhooked_method_list_
          Null,         \* a free slot of the reference table
          MaxRefs       \* bound on the table when others allocate

Others == Plain \cup Objects
Refs == Hooks \cup Others \cup {ListRef}

ASSUME MethodsAssumption ==
  /\ Declared \subseteq Methods
  /\ Class \in [Methods -> Classes]
  /\ Layout \in [Classes -> Seq(Methods)]
  /\ HookerClass \notin Classes

\* In the methods array of a class the declared methods come first and have
\* distinct indices: a declared method is the first one with its index.
ASSUME LayoutAssumption ==
  \A m \in Declared : \E j \in DOMAIN Layout[Class[m]] :
    /\ Layout[Class[m]][j] = m
    /\ \A k \in DOMAIN Layout[Class[m]] :
         Index[Layout[Class[m]][k]] = Index[m] => j <= k

ASSUME HooksAssumption ==
  /\ Target \in [Hooks -> Declared]
  /\ Framework \in [Hooks -> Frameworks] /\ Found \in Frameworks
  /\ Methods \cap Hooks = {}

ASSUME RefsAssumption ==
  /\ Reflects \in [Plain -> Declared]
  /\ Hooks \cap Others = {}
  /\ Plain \cap Objects = {}
  /\ ListRef \notin Hooks \cup Others
  /\ Null \notin Refs
  /\ MaxRefs \in Nat

VARIABLES slot,       \* the ArtMethod of every method
          backup,     \* the ArtMethod of every hook's backup
          phase,      \* how far each call of hookMethod has come
          globals,    \* the table of JNI global references
          replaced,   \* frameworks whose native hookMethod is the stub
          is_lsposed_disabled_,
          pc, path,   \* the loader's position and how it reads the table
          cursor, limit,
          cur,        \* the backup being handled
          access_flags,
          report,     \* unhooked_method_list_
          seen        \* history: hooks published when the visit began

env == <<phase, backup>>
loader == <<replaced, is_lsposed_disabled_, path, limit, seen>>
vars == <<slot, backup, phase, globals, replaced, is_lsposed_disabled_, pc,
          path, cursor, limit, cur, access_flags, report, seen>>

ArtMethods == [entry : Methods \cup Hooks, flags : {"own", "backup"}]
Entries == [method : Methods, synthetic : BOOLEAN]

TypeOK ==
  /\ slot \in [Methods -> ArtMethods]
  /\ backup \in [Hooks -> ArtMethods]
  /\ phase \in [Hooks -> {"idle", "entered", "swapped", "published"}]
  /\ globals \in Seq(Refs \cup {Null})
  /\ replaced \subseteq {Found}
  /\ is_lsposed_disabled_ \in BOOLEAN
  /\ pc \in {"sweep", "list", "visit", "copy", "flags", "report", "done"}
  /\ path \in {"VisitRoots", "table", "none"}
  /\ cursor \in Nat /\ limit \in Nat
  /\ cur \in Hooks \cup Plain \cup {Null}
  /\ access_flags \in {"own", "backup"}
  /\ report \in Seq(Entries)
  /\ seen \subseteq Hooks

Init ==
  /\ slot = [m \in Methods |-> [entry |-> m, flags |-> "own"]]
  /\ backup = [h \in Hooks |-> [entry |-> Target[h], flags |-> "own"]]
  /\ phase = [h \in Hooks |-> "idle"]
  /\ globals = <<>>
  /\ replaced = {} /\ is_lsposed_disabled_ = FALSE
  /\ pc = "sweep" /\ path = "none"
  /\ cursor = 1 /\ limit = 0
  /\ cur = Null /\ access_flags = "own"
  /\ report = <<>> /\ seen = {}

-----------------------------------------------------------------------------
(* The frameworks' threads and everyone else who owns global references.   *)

\* The table after r is added: in a free slot or at the end.
PlacedIn(r) == {Append(globals, r)} \cup
               {[globals EXCEPT ![i] = r] : i \in {j \in DOMAIN globals : globals[j] = Null}}

Visiting == pc \in {"visit", "copy", "flags", "report"}

\* JavaVMExt::VisitRoots holds the lock of the table; the scan holds nothing.
TableLocked == Visiting /\ path = "VisitRoots"

\* A framework thread enters the real hookMethod.
EnterHook(h) ==
  /\ phase[h] = "idle" /\ Framework[h] \notin replaced
  /\ phase' = [phase EXCEPT ![h] = "entered"]
  /\ UNCHANGED <<slot, backup, globals, pc, cursor, cur, access_flags, report, loader>>

\* The backup receives the target's ArtMethod, the target the trampoline.
SwapHook(h) ==
  LET m == Target[h] IN
  /\ phase[h] = "entered"
  /\ phase' = [phase EXCEPT ![h] = "swapped"]
  /\ backup' = [backup EXCEPT ![h] = [entry |-> slot[m].entry, flags |-> "backup"]]
  /\ slot' = [slot EXCEPT ![m] = [entry |-> h, flags |-> slot[m].flags]]
  /\ UNCHANGED <<globals, pc, cursor, cur, access_flags, report, loader>>

\* The reflected backup becomes a JNI global reference.
PublishHook(h) ==
  /\ phase[h] = "swapped" /\ ~TableLocked
  /\ phase' = [phase EXCEPT ![h] = "published"]
  /\ globals' \in PlacedIn(h)
  /\ UNCHANGED <<slot, backup, pc, cursor, cur, access_flags, report, loader>>

AddRef(r) ==
  /\ ~TableLocked /\ Len(globals) < MaxRefs
  /\ \A i \in DOMAIN globals : globals[i] # r
  /\ globals' \in PlacedIn(r)
  /\ UNCHANGED <<slot, env, pc, cursor, cur, access_flags, report, loader>>

DeleteRef(i) ==
  /\ ~TableLocked
  /\ globals[i] \in Others
  /\ globals' = [globals EXCEPT ![i] = Null]
  /\ UNCHANGED <<slot, env, pc, cursor, cur, access_flags, report, loader>>

-----------------------------------------------------------------------------
(* The loader's thread: JNI_OnLoad.                                        *)

\* Fault: the flag is set although RegisterNatives failed.
FlagOnly ==
  /\ pc = "sweep" /\ ~is_lsposed_disabled_
  /\ is_lsposed_disabled_' = TRUE
  /\ UNCHANGED <<slot, env, globals, pc, cursor, cur, access_flags, report, replaced, path, limit, seen>>

\* The class with a hookMethod is found and RegisterNatives succeeds.
ReplaceNatives ==
  /\ pc = "sweep" /\ ~is_lsposed_disabled_
  /\ replaced' = {Found}
  /\ is_lsposed_disabled_' = TRUE
  /\ UNCHANGED <<slot, env, globals, pc, cursor, cur, access_flags, report, path, limit, seen>>

\* The sweep ends, with or without a replacement, and the list for the report
\* becomes a global reference, as long as nobody holds the table.
MakeList ==
  /\ pc = "sweep" /\ ~TableLocked
  /\ globals' \in PlacedIn(ListRef)
  /\ pc' = "list"
  /\ UNCHANGED <<slot, env, cursor, cur, access_flags, report, loader>>

\* The visit of the global references begins: by the VisitRoots symbol, else
\* over the table found in memory, else not at all.
StartVisit(p) ==
  /\ pc = "list"
  /\ path' = p
  /\ seen' = {h \in Hooks : phase[h] = "published"}
  /\ limit' = IF p = "none" THEN 0 ELSE Len(globals)
  /\ pc' = "visit"
  /\ UNCHANGED <<slot, env, globals, replaced, is_lsposed_disabled_, cursor, cur, access_flags, report>>

MethodOf(r) == IF r \in Hooks THEN Target[r] ELSE Reflects[r]
ArtMethodOf(r) == IF r \in Hooks THEN backup[r] ELSE slot[Reflects[r]]
DeclaringClass(r) == IF r \in Hooks THEN HookerClass ELSE Class[Reflects[r]]

\* Fault: any reflected method passes for a backup.
AnyMethod(r) == r \in Hooks \cup Plain

\* The reflected object says one declaring class, its ArtMethod another.
IsBackup(r) == /\ r \in Hooks \cup Plain
               /\ Class[MethodOf(r)] # DeclaringClass(r)

\* Fault: the search goes on to the last method with the index.
LastMatch(r) ==
  LET row == Layout[Class[MethodOf(r)]]
      hits == {j \in DOMAIN row : Index[row[j]] = Index[MethodOf(r)]}
  IN row[CHOOSE j \in hits : \A k \in hits : j >= k]

\* The first method of the class with the backup's dex_method_index.
MatchOf(r) ==
  LET row == Layout[Class[MethodOf(r)]]
      hits == {j \in DOMAIN row : Index[row[j]] = Index[MethodOf(r)]}
  IN row[CHOOSE j \in hits : \A k \in hits : j <= k]

\* Fault: the pattern of another ABI, no trampoline is recognised.
NoPattern(art) == FALSE

\* GetLSPEntryMethod: the entry point is an LSPlant trampoline.
IsTrampoline(art) == art.entry \in Hooks

\* A free slot, another kind of object, a method that is no backup.
SkipRef ==
  /\ pc = "visit" /\ cursor <= limit
  /\ ~IsBackup(globals[cursor])
  /\ cursor' = cursor + 1
  /\ UNCHANGED <<slot, env, globals, pc, cur, access_flags, report, loader>>

\* A backup: its target is restored unless the backup is itself hooked code.
TakeBackup ==
  /\ pc = "visit" /\ cursor <= limit
  /\ IsBackup(globals[cursor])
  /\ cur' = globals[cursor]
  /\ access_flags' = slot[MatchOf(cur')].flags
  /\ pc' = IF IsTrampoline(ArtMethodOf(cur')) THEN "report" ELSE "copy"
  /\ UNCHANGED <<slot, env, globals, cursor, report, loader>>

\* memcpy of the backup's ArtMethod, its flags included ...
CopyBackup ==
  /\ pc = "copy"
  /\ slot' = [slot EXCEPT ![MatchOf(cur)] = ArtMethodOf(cur)]
  /\ pc' = "flags"
  /\ UNCHANGED <<env, globals, cursor, cur, access_flags, report, loader>>

\* Fault: method[1] is not put back.
BackupFlags ==
  /\ pc = "flags" /\ pc' = "report"
  /\ UNCHANGED <<slot, env, globals, cursor, cur, access_flags, report, loader>>

\* Fault: the synthetic mark is stored in the method, not only reported.
SyntheticFlags ==
  /\ pc = "flags" /\ pc' = "report"
  /\ slot' = [slot EXCEPT ![MatchOf(cur)] = [entry |-> slot[MatchOf(cur)].entry,
                                              flags |-> "synthetic"]]
  /\ UNCHANGED <<env, globals, cursor, cur, access_flags, report, loader>>

\* ... and the target's own flags are put back.
PutFlags ==
  /\ pc = "flags"
  /\ slot' = [slot EXCEPT ![MatchOf(cur)] = [entry |-> slot[MatchOf(cur)].entry,
                                              flags |-> access_flags]]
  /\ pc' = "report"
  /\ UNCHANGED <<env, globals, cursor, cur, access_flags, report, loader>>

\* Fault: each entry of the report gets a global reference of its own.
GlobalReport ==
  /\ pc = "report" /\ ~TableLocked
  /\ globals' \in PlacedIn(ListRef)
  /\ cur' = Null /\ cursor' = cursor + 1 /\ pc' = "visit"
  /\ UNCHANGED <<slot, env, access_flags, report, loader>>

\* Only local references are made for an entry: the lock may be held.
Report ==
  /\ pc = "report"
  /\ report' = Append(report, [method |-> MatchOf(cur),
                               synthetic |-> IsTrampoline(ArtMethodOf(cur))])
  /\ cur' = Null
  /\ cursor' = cursor + 1
  /\ pc' = "visit"
  /\ UNCHANGED <<slot, env, globals, access_flags, loader>>

EndVisit ==
  /\ pc = "visit" /\ cursor > limit
  /\ pc' = "done"
  /\ UNCHANGED <<slot, env, globals, cursor, cur, access_flags, report, loader>>

Loader == \/ ReplaceNatives \/ MakeList
          \/ \E p \in {"VisitRoots", "table", "none"} : StartVisit(p)
          \/ SkipRef \/ TakeBackup \/ CopyBackup \/ PutFlags \/ Report \/ EndVisit

Process == \/ \E h \in Hooks : EnterHook(h) \/ SwapHook(h) \/ PublishHook(h)
           \/ \E r \in Others : AddRef(r)
           \/ \E i \in DOMAIN globals : DeleteRef(i)

Next == Loader \/ Process

Spec == Init /\ [][Next]_vars

\* JNI_OnLoad is ordinary code on a running thread.
FairSpec == Spec /\ WF_vars(Loader)

-----------------------------------------------------------------------------
\* Every hook on m was published when the visit began, or never started.
Settled(m) == \A h \in Hooks : Target[h] = m => h \in seen \/ phase[h] = "idle"

\* Restore methods (main.cc:783-836, README.md:14): when JNI_OnLoad returns
\* after a visit, a method whose hooks were all published before it runs its
\* own code, whatever the order of chained hooks in the table and whatever
\* other threads did to the table meanwhile.
RestoredAtEnd ==
  pc = "done" /\ path # "none" =>
    \A m \in Methods : Settled(m) => slot[m].entry = m

\* The copy lands on the target and on nothing else (main.cc:798-805): a
\* method runs its own code or a hook made for it.
NoForeignCode ==
  \A m \in Methods : slot[m].entry \in {m} \cup {h \in Hooks : Target[h] = m}

\* A target is never left with the flags of a backup (main.cc:802, :805):
\* between memcpy and the store of method[1] is the only window.
FlagsKept ==
  \A m \in Methods :
    slot[m].flags # "own" => pc = "flags" /\ m = MatchOf(cur)

Reported == {report[i] : i \in DOMAIN report}
ReportOf(h) == [method |-> Target[h], synthetic |-> IsTrampoline(backup[h])]

\* The report (main.cc:806-834) lists exactly backups that were met, marked
\* synthetic when the backup was a trampoline itself, and at the end it
\* misses none that was published before the visit.
ReportExact ==
  /\ \A e \in Reported : \E h \in Hooks : phase[h] = "published" /\ e = ReportOf(h)
  /\ pc = "done" /\ path # "none" => \A h \in seen : ReportOf(h) \in Reported

\* Under the table scan the library only takes hooks out (main.cc:802-805):
\* a step of the loader never makes a method run a trampoline that it did
\* not run before.
LoaderNeverHooks ==
  [][Loader => \A m \in Methods : slot'[m].entry \in {slot[m].entry, m}]_vars

\* Prevent new hooks (main.cc:742-766, README.md:12): once JNI_OnLoad has
\* returned with the flag nGetFlags shows, a method with no call of
\* hookMethod under way, and none to come from a framework that was not
\* found, keeps the code it runs.
NoHookAfterDisable ==
  [][pc = "done" /\ is_lsposed_disabled_ =>
       \A m \in Methods :
         (\A h \in Hooks : Target[h] = m =>
            \/ phase[h] = "published"
            \/ phase[h] = "idle" /\ Framework[h] = Found)
         => slot'[m] = slot[m] /\ (\A h \in Hooks : Target[h] = m => phase'[h] = phase[h])]_vars

\* JNI_OnLoad returns: the visit ends although others keep adding references,
\* and under VisitRoots the loader never waits for the lock of the table that
\* it holds itself (main.cc:774, :783).
LoaderReturns == <>(pc = "done")

-----------------------------------------------------------------------------
(* The inductive invariant behind RestoredAtEnd.                           *)

Handling == pc \in {"copy", "flags", "report"}
Begun == pc \notin {"sweep", "list"}   \* the visit has
ReadsTable == Begun /\ path # "none"

\* What published means: in the table exactly then, and for good.
TableInv ==
  /\ \A i \in DOMAIN globals : globals[i] \in Hooks => phase[globals[i]] = "published"
  /\ \A h \in Hooks : phase[h] = "published" => \E i \in DOMAIN globals : globals[i] = h
  /\ \A h \in seen : phase[h] = "published"

\* Under every hooked method lies the hook that found the method's own code.
BottomInv ==
  \A m \in Methods : slot[m].entry # m =>
    \E h \in Hooks : /\ Target[h] = m /\ backup[h].entry = m
                     /\ phase[h] \in {"swapped", "published"}

BackupInv ==
  \A h \in Hooks : backup[h].entry \in {Target[h]} \cup {g \in Hooks : Target[g] = Target[h]}

CursorInv ==
  /\ ~Begun => cursor = 1 /\ seen = {}
  /\ pc = "done" => cursor > limit
  /\ Begun => limit <= Len(globals)
  /\ Handling => /\ cursor \in 1..limit
                 /\ cur = globals[cursor] /\ cur \in Hooks
  /\ pc \in {"copy", "flags"} => backup[cur].entry = Target[cur]
  /\ cursor >= 1

\* A settled method that is still hooked has its bottom hook's backup ahead.
AheadInv ==
  ReadsTable =>
    \A m \in Methods : Settled(m) /\ slot[m].entry # m =>
      \E i \in 1..limit :
        /\ globals[i] \in seen
        /\ Target[globals[i]] = m /\ backup[globals[i]].entry = m
        /\ i > cursor \/ (i = cursor /\ pc \in {"visit", "copy"})

\* Outside the window of CopyBackup every flag is the method's own, and so is
\* the copy the loader keeps.
FlagsInv == FlagsKept /\ (Handling => access_flags = "own")

IInv == /\ TypeOK /\ TableInv /\ NoForeignCode /\ BackupInv
        /\ BottomInv /\ CursorInv /\ AheadInv /\ FlagsInv

\* The inductive invariant behind ReportExact: a backup seen at the start is
\* in the report or still ahead of the cursor.
ReportedInv ==
  /\ \A e \in Reported : \E h \in Hooks : phase[h] = "published" /\ e = ReportOf(h)
  /\ ReadsTable => \A h \in seen :
       ReportOf(h) \in Reported \/ \E i \in 1..limit : globals[i] = h /\ i >= cursor

\* The flag the user interface reads is set exactly by a replacement.
DisabledInv == is_lsposed_disabled_ <=> Found \in replaced

-----------------------------------------------------------------------------
\* The promise of module HookTable, with a method hooked when it runs a
\* trampoline and a hook admitted until it has swapped.
Promise == INSTANCE HookTable WITH
  hooked <- {m \in Methods : slot[m].entry # m},
  admitted <- {h \in Hooks : phase[h] = "entered"},
  closed <- replaced
KeepsPromise == Promise!Spec
=============================================================================
