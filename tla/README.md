# DisableLSPosed in TLA+

DisableLSPosed is an Android application whose native library, when it is
loaded, takes the Xposed framework out of its own process: it finds the
framework, replaces its `hookMethod`, clears the callbacks that modules have
registered, gives hooked methods their code back and maps `libart.so` anew.
All of that is one run of `JNI_OnLoad` (`src/app/src/main/cpp/main.cc:673-839`)
on one thread, while the framework, the modules and the application go on
running on others. This directory holds TLA+ models of it, the configurations
that check them with TLC, and proofs that TLAPS checks.

Paths below are relative to `src/app/src/main/cpp/` unless they start with
`src/`.

## 1. Inventory

| Part | Where | State it keeps | Operations |
|---|---|---|---|
| Framework finder | main.cc:386-509 | none that outlives it; the pending Java exception | search by a hooked method; three calls with null arguments, each with a scan of the backtrace |
| Framework sweep | main.cc:96-280, :324-337, :734-768 | `cleared_callbacks_`, `framework_name_`, `legacy_cleared_`, `modern_cleared_`, the interface class, `is_lsposed_disabled_` | for each class of the framework's dex file: load, clear its collections, replace its native |
| Hook restoration | main.cc:338-384, :554-580, :770-836 | the ArtMethods of the process, `unhooked_method_list_` | visit of the JNI global references, under the VM's lock (`VisitRoots`) or by a scan of the table without it; copy of a backup; report |
| Maps parser | maps_parser.cc:78-234 | `status_`, `procmap_query_failed_`, the query's address, a reader | `NextEntry`, by ioctl or by text |
| Reference table search | main.cc:511-548 | a map of table mappings | collection over the maps parser, check of the pointer in the JavaVM |
| SMaps parser | maps_parser.cc:236-269 | an entry with views of the reader's buffer, a reader | `NextEntry` |
| Line reader | file_reader.h | buffer, two positions, `eof_` | `NextLine`, `Reduce`, `OnBufferFull`, `OnEOF`, the iterator |
| Name column probe | maps_parser.cc:55-76 | `name_offset_` | a static initializer of 32-bit processes |
| Remapping of libart.so | main.cc:581-620 | `is_art_restored_`, a descriptor and a mapping | one `mmap` with MAP_FIXED for each code segment |
| Lines of mappings | maps_parser.cc:47-153, :271-416 | the column of names that a 32-bit process has learnt | `ParseVmaEntry`, `get_line`, `get_lines`, `get_field`, `has_vm_flag` |
| Descriptor builder | descriptor_builder.cc | a cache of classes and identifiers, the text under construction | coloured text of a method, the end of the cache |
| User interface, native bridge | src/app/src/main/kotlin, main.cc:634-671 | what the activity saves | loading the library, showing what the natives return |
| Unsafe, object references, GC roots | main.cc:286-323, object_reference.h, gc_root.h | none | layout of ART's data |
| JNI helpers | jni_helper.h, third-party/lsplant | none | wrappers that clear exceptions |
| Test module | src/module | none | an Xposed module to try the library on |

How they interact. The finder's answer, a class and its loader, is the sweep's
input. Sweep and restoration share `is_lsposed_disabled_` and, more important,
the process: after the native has been replaced no framework thread can *enter*
`hookMethod` any more, but one that is inside still ends its hook while, or
after, the restoration runs. Restoration reads the reference table either
inside the VM's `VisitRoots` or at an address that it believes because the
collected mappings contain it, so it uses the maps parser, which uses the line
reader. The remapping uses nothing of the others. The natives of the user
interface read the globals that `JNI_OnLoad` left, whenever an activity is
created, and the activity keeps what they said across the death of the process.

What is hard in this code, and where a test would hardly reach:

* *Interleaving with frameworks and modules.* LSPlant swaps a method before it
  publishes the backup; several hooks are chained on one method and their
  backups lie in the table in any order; references come and go under the scan;
  callbacks are registered while collections are read and cleared.
* *A kernel that changes under the reader.* Mappings are split, merged and
  removed between two queries; the ioctl may fail in the middle and the text
  takes over from its beginning.
* *Boundaries.* A delimiter that a short read cuts in two, a line as long as
  the buffer, a segment that begins in the middle of a page.
* *Partial failure.* Each class, each `RegisterNatives`, each `mmap`, each
  `read()` may fail and the loops go on.
* *Death of the process.* The system kills it at any time, with the activity's
  state saved, and the next process loads the library anew.
* *Two widths.* A 32-bit process reads the lines of 32-bit and 64-bit kernels and
  learns the column of names from one of them.
* *Order.* The names in a dex file come in any order and the sweep decides
  what a class is by those before it.

What makes each part correct is stated by the properties of section 4.
`PROJECT.json` lists the hazards line by line with the properties about them.

## 2. Plan

The order of work is by importance: what the library promises to do with hooks
and callbacks, then what those steps rest on.

1. `HookTable` (the promise) and `HookRestore`, with proofs. *Done.*
2. `FrameworkSweep`, the other half of "prevent hooks", with proofs. *Done.*
3. `FrameworkFinder`, with proofs. *Done.*
4. `LineStream` (the promise of a line reader) and `FileReader`, with proofs;
   `SMapsParser` composed on top of it. *Done.*
5. `MapsParser`, with proofs. *Done.*
6. `ArtRemap`, with proofs for every page size and every well laid out library,
   and `NameOffset`. *Done.*
7. `DescriptorBuilder`: the text of a method, the spans laid over it, whose ends
   are computed from a length in bytes (descriptor_builder.cc:191), the local
   references that stay, the exception that may be pending. *Done.*
8. `OnLoad`, the composition of finder, remapping, native bridge and activity
   over several processes, to state what the flags shown by the user interface
   say; with proofs. *Done.*
9. `VmaLine`: the name in a line, the line written again, the accessors. *Done.*
10. Proofs about `SMapsParser`, whose properties need lines that fit the buffer,
    about the descriptor builder and about `VmaLine`. *Done.*
11. For the liveness properties, which stay with TLC, the measures that the fair
    steps decrease, as action properties with proofs. *Left.*

## 3. Modules

A definition bears the name of the code it stands for where TLA+ allows, and a
trailing underscore is the code's. `PROJECT.json` maps each definition to lines.

**HookTable** is what the library promises about the methods of a process, seen
from outside: hooks are admitted while the framework's entry is open, an admitted
hook may land, the library closes entries and gives methods their code back, and
nothing reopens an entry.

**HookRestore.** `slot` is the ArtMethod of every method and `backup` that of
every hook's backup, reduced to the code it runs and whose access flags it has.
`phase` says how far each call of `hookMethod` has come (`EnterHook`, `SwapHook`,
`PublishHook`), `globals` is the table of global references with free slots, and
`AddRef` and `DeleteRef` are everyone else who uses it. The loader's thread is
`ReplaceNatives`, `StartVisit` with one of the three ways of reading the table
(`VisitRoots`, which locks it, the scan, which does not and reads the size
once, or neither), then for each reference `SkipRef` or `TakeBackup`,
`CopyBackup` (memcpy, flags included), `PutFlags` and `Report`. A backup is
recognised as the code does it, by a declaring class that differs from the
ArtMethod's, and its target is the first method of the class with the same
index; that this finds the right method depends on the order of ART's methods
array, which is the assumption `LayoutAssumption`. In the visit by `VisitRoots`
the lock is held, so hooks cannot be published, though they can be swapped.
In this module the sweep is only the replacement of the native. `MakeList`
creates the list, and its global reference, before the visit: a global reference
that the visitor made would wait for the lock that its own thread holds.
LSPlant and ART are not in the repository; their actions follow from what the
code assumes about them (main.cc:338-384 and :783-800).

**FrameworkSweep.** `order` is the list of names of the dex file, in any order,
and `next` the loop's position; a class is what the code asks of it (its simple
name, whether it lists or inherits the interface, its static fields, whether its
native can be replaced). `EnterClass` is `ClearXposedCallbacks` up to its first
field, `ReadField`, `ReadCallback` and `ClearField` the weakly consistent
iteration and the `clear()` after it, `EndClass` the flags and the name,
`ReplaceNative` the rest of the loop's body. `Register` and `Unregister` are any
module, at any time and any number of times; `Accepts` tells which callbacks a
collection takes, and an iterator that is under way may meet what comes and what
goes, or not. `arrived` is history and tells, for each
callback in a field, whether it came before the clearing, unseen by the iterator,
or after.

**FrameworkFinder.** A backtrace appears frame by frame; `found` is the code's
pair of class and loader, `pending` the thread's exception. The search by a
hooked method reads raw memory and is one step that answers (`Callback`) or does
not.

**LineStream** is the promise of the reader: the file, cut at its delimiters, in
order, each byte once, a line longer than the buffer in pieces, and an early end
after an error. **FileReader** is the reader: the bytes of `buffer` are real, so
that moving and overwriting them under a view can be seen. `NextLine` and `Hit`,
`Miss`, `BufferFull`, `Read`, `Interrupted`, `ReadEnd` are the branches of
`NextImpl`; `consumed` and `line` are history and tell which bytes of the file a
view stands for. The delimiter may have several bytes.

**SMapsParser** extends FileReader: its entries keep views of several lines, which
the reader's moves may invalidate. The first byte of a line stands for what
`ParseVmaEntry` and the comparison with `VmFlags` find in it. `SmapsText` says
what the kernel writes: lines that fit the buffer, a mapping's first, `VmFlags`
last.

**MapsParser.** Memory is an array of pages and a mapping a longest run of one
kind, as the kernel merges neighbours. `QueryFound`, `QueryNone` and
`QueryFails` are the outcomes of the ioctl, `ReadLines` one `read()` of the text,
which shows the mappings as they are at that moment, `SkipLine` and `TakeLine`
the filter, `Collect` and `FindGlobalRefTable` the code of main.cc. `Change` is
every other thread. The order of lines in a read is that of their addresses.
In `FindGlobalRefTable` the words around the pointer (main.cc:531-533 and :543)
are taken to be what ART's layout puts there; they tell where in the JavaVM the
pointer is, not whether it lies in a table.
`query_addr` is the address that the next ioctl asks for.

**ArtRemap.** A unit of memory shows the file's bytes, a patch, data, newly written
data, or bytes of another place of the file. The arguments of `mmap` are computed
with the code's alignments: the address with the library's base `dli_fbase`, the
offset without. The linker puts the base at a page (`RemapAssumption`), which need
not be a multiple of `p_align`; `Fits` says that it is. Other threads install hooks
(`Patch`) and write variables (`Write`) at any moment; `remapped`, `late` and
`written` are history. **ArtLayouts** has the libraries for the runs: one whose
segments begin on pages, with code before and behind its data (`OnPages`); two with
an alignment of two pages, of which one has writable code and code in the middle of
such a large page (`LargePages`), and one code that begins within a small page
(`MidPage`); and the last with longer code (`MidPageLong`).
**NameOffset** is the loop that reads `smaps_rollup`.

**VmaLine.** A text is a sequence of characters with the columns scaled down;
`KernelLine` is what a 32-bit or a 64-bit kernel prints for a mapping.
`ReadLine` is one turn of `ParseVmaEntry`, with the column that a 32-bit process
learns in `name_offset_`; `ReadFields` puts the lines of smaps behind it.
`get_line`, `get_lines`, `get_field_string` and `has_vm_flag` are operators over
the entry; `get_lines` is the loop of the code as a recursive function of the
pieces that are written. Of the prefix only its width matters. Of the kernel
`LineAssumption` says that its longest line fits `Room`, the buffer of the
program's own calls, and `ListAssumption` that names of fields hold no colon, that
a unit stands behind a number, and that flags are two letters.

**DescriptorBuilder.** `MethodPieces` are the strings that a method's descriptor is
put together from, in order, among them those of `ClassName`, the loop that splits a
name at its dots; `Begin` creates the text, `AppendPiece` is one
`appendStringWithColor`, `End` hands the text to the list, `Destroy` deletes the
cache. `ssb` counts UTF-16 units and `Size` the bytes of the native string, which
is what the span's end is computed with. A class or a return type that is null,
where reflection failed, leaves its piece out. A call with a Java exception pending is
undefined: it has its effect, or none (`SkipPiece`), or the process aborts.
`locals` counts the references of JNI_OnLoad's frame; the comments of the cache
speak of global references (descriptor_builder.cc:36 and :90), but what it keeps
are local ones, which is why it must be gone when JNI_OnLoad returns.

**OnLoad** extends FrameworkFinder, takes ArtRemap as an instance (`Art`), and adds
the processes of the application, one after another: `stage` says how far the
class initialisation of Native.kt has come. In a 32-bit process `BeginLoad` leads
into the initializer of `name_offset_`, which only an interruption or a failing
`open` ends (`EndProbe`). `Find` is a step of the finder,
`Remap` one of the remapping, both as their modules have them; `Sweep` and
`Visit` stand for what FrameworkSweep and HookRestore show in detail and keep the
flag only. `Visit` also lays out `libart.so`, and `Return` forgets it again, but for
`restored`, which tells that a segment was mapped again. `nGetFlags` and
`loadNativeInfo` are the natives and their callers in Native.kt, `onCreate`, `restoreState`, `onSaveInstanceState` and `Success` the
activity; `Recreate`, `Finish`, `Die` and `Fork` are the system, which kills the
process between any two steps. The lists and the name that are shown stand for
the process whose library made them.

Definitions with a comment that starts with *Fault:* are no part of any
specification. Each is a plausible wrong version of the definition that follows,
kept to show that the properties notice it: with the definition replaced by the
fault, TLC reports the property violated (`mutants` in `PROJECT.json`).

## 4. Runs

The types are checked by hook_restore and maps_parser, and proved for every module
that keeps state but NameOffset. `CHECK_DEADLOCK FALSE` stands
where the system ends.

| Run | Instance | What it shows |
|---|---|---|
| hook_restore | three methods, one of them copied with an index that another class uses; three hooks of two frameworks, two chained on one method; one ordinary method reference, one other reference; a table of up to `MaxRefs` = 3 entries before others stop adding | `RestoredAtEnd`: a method whose hooks were all published before the visit runs its own code at the end, in whatever order the backups lie. `NoForeignCode`, `FlagsKept`, `ReportExact`, `LoaderNeverHooks`, `NoHookAfterDisable`, `LoaderReturns`; `KeepsPromise`: it implements HookTable |
| framework_sweep | the interface, a context that lists it, one that only inherits it, a bridge whose `RegisterNatives` fails, a nameless class with a native, a class that does not load, in all 720 orders; two callbacks that come and go, one wrapping the other (`Accepts`: the contexts' collections take the first, the bridge's both) | `CallbacksBlocked`, `SurelyBlocked`: what is blocked, said with the order of the names, which decides what the code clears, and without. `OthersUntouched`, `TakenIsReported`, `FlagMeansStub`, `SweepEnds` |
| on_load | up to three processes (`MaxProcesses`) of either width, killed at any moment; every backtrace of up to four frames (`MaxFrames`) over three loaders, no loader and the boot loader; three libraries for pages of two units, each at a base of two pages, which fits every alignment, and of three, which fits that of a page only; patched and written anywhere, with every failure | `RightFramework`: the answer is the last usable frame before the first generated hooker. `NoPendingException`. `SegmentsKept`: at a base that fits nothing that was written is lost and no foreign byte comes into a segment. `AlignedRestored`: a segment that lies at a multiple of its alignment loses its earlier patches, at any base. `ReturnsClean`. `FlagsTrue`: success that an activity shows for the process it was launched in is success. `ShownIsTrue`: what is shown comes from one process. `LoadEnds` |
| file_reader | every file of up to seven bytes over CR, LF and another byte, a buffer of four, the delimiter CRLF | `Window`, `ViewIsLine`, `AllRead`; `KeepsLines`: it implements LineStream |
| maps_parser | four pages (`Top`) in every arrangement with the table on the third, two changes (`MaxChanges`) | `TableFound`, `EntriesAdvance`, `CollectEnds` |
| smaps_parser | up to three entries with one or two fields, a buffer of one and a half entries | `WholeEntry`, `AllReturned` |
| vma_line | names in column 4 (`Col32`) or 7 (`Col64`), prefixes of five widths around both, ten names, lines of smaps in 24 combinations, processes and kernels of both widths, every kind of query | `NamesRight`: the name found is the mapping's, unless a line of a 32-bit kernel looked like one of a 64-bit kernel. `LineKept`: a line written again is parsed alike. `CutIsPrefix`: into a buffer of any size goes the beginning of the line. `AccessorsExact`: fields and flags are found by their whole names |
| descriptor | twenty-two methods over primitives, void, null, arrays, classes in packages of no, one and two parts, and one character of two bytes; two of them (`MaxMet`) are met one after the other | `TextIsDescriptor`, `SpansTile`, `LocalsLeft`: texts, spans and references are right when every character is one byte, also after another method's span was refused |
| smaps_views | as smaps_parser | *violated:* `EntryIntact` |
| art_remap_tail | code that begins within a page, in a library with an alignment of two pages, at a base of three | *violated:* `InlineHooksRestored` |
| name_offset | a buffer of two and a file of five | *violated:* `FullReadTaken` |
| descriptor_spans | as descriptor | *violated:* `SpansCoverText` |

Why the bounds are enough. Two chained hooks show each order of backups, and a
third method shows that work on one does not disturb another; longer chains are
covered by the proof. Three table entries of others' references let a free slot
appear before and behind the cursor. A file of seven bytes is longer than the
buffer by more than a delimiter, so that a delimiter is cut by the buffer's end,
by a short read and by a compaction, and a line is longer than the buffer. Four
pages let a neighbour of the table merge with it, be split from it and lie behind
it. Two methods let the second meet what the first left: an exception, references,
the list. Three processes let an activity saved in the first be created again in
the second and the third. Widths below, at and above both columns and names with
a blank at any place let every branch of the guess be taken. The proofs remove
these bounds for everything but liveness and NameOffset.

### Fairness

Only the thread that runs `JNI_OnLoad` is fair, and only weakly: it is ordinary
code on a running thread, and each of its steps is enabled until taken.
Frameworks, modules, other threads and the kernel's interruptions have no
fairness at all. In FileReader `WF_vars(Step)` says that `read()` is not
interrupted for ever (`Interrupted` is a stuttering step). `LoaderReturns`,
`SweepEnds`, `CollectEnds` and `LoadEnds` hold although others act. The table's
size is read once. Modules add and remove callbacks without bound, and nothing in
main.cc:181-190 ends an iteration in front of which they put ever new ones; so
`SweepEnds` has as its hypothesis that the reading of a collection is not prolonged
for ever (`Prolongs`), and no more: modules may go on everywhere else.
`MaxChanges` bounds the changes of mappings but not when they come; that a pass
over the mappings advances is `EntriesAdvance` and needs no such bound. In OnLoad
the steps of the loading thread (`Load`) are fair; the system, which forks, kills
and saves, is not, and neither is `EndProbe`, since the initializer of 32-bit
processes need not end (finding 3): `LoadEnds` is about 64-bit processes from the
start and about 32-bit ones from there on. In NameOffset the thread is fair and
the kernel chooses: that it is never interrupted is among its behaviours.

## 5. Findings

1. *smaps_views.* `SMapsParser::NextEntry` keeps the reader's views in the entry
   (maps_parser.cc:254-261) while it asks for more lines, which move or overwrite
   the bytes under them; file_reader.h:424-426 warns of exactly this. An entry
   that lies across the end of a read shows other lines in its fields. The run
   smaps_parser shows that the lines themselves are the right ones.
2. *art_remap_tail.* `segment_addr` is `dli_fbase + p_vaddr` rounded down to
   `p_align` (main.cc:603), but neither the size nor the offset of the mapping takes
   into account by how much (:604-605). When a code segment begins within a page,
   or at no multiple of `p_align`, its end may keep its patches. And the base is in
   general a multiple of the page only: with a larger `p_align`, as of libraries
   linked for pages of 16 KiB, the offset, which is rounded down by itself, then belongs to
   another address, and code is replaced by bytes of another place of the file.
   The trace shows both, although `is_art_restored_` is set and README.md:15
   promises otherwise. `SegmentsKept` and `AlignedRestored` say what holds: at a
   base that fits, and of a segment at a multiple of its alignment.
3. *name_offset.* The probe of 32-bit processes reads until it *is* interrupted
   (`while (nread != -EINTR)`, maps_parser.cc:65), so the full read that line 68
   calls likely is never used, and at the end of the file the loop goes on.
4. *descriptor_spans.* The end of a span is its start plus the length in bytes
   (descriptor_builder.cc:191) though the comment above says `start+len` of the
   appended string (:180): for a name that is not ASCII `setSpan` is asked for a
   range beyond the text and throws, the piece stays without its colour, and the
   calls up to the list's `add` are made with the exception pending.

`TableFound` is stated for runs in which the table's own mapping stays as it is.
Without that it fails: the collection ignores a table whose start address it
knows (`emplace`, main.cc:518), so one that grew between the ioctl's pass and
the text's is believed with its old end. Nothing in the repository promises
otherwise, and the code then goes without the visit.

The models made other things plain which contradict no promise of the repository
and are therefore written down here only:

* *The guessed column.* The probe never yields a column (finding 3), so a 32-bit
  process takes it from the first line with a name (maps_parser.cc:142-151). On a
  32-bit kernel names begin at byte 49, and in a line for
  `[anon:dalvik-main space (region space)]` byte 72 is a blank and byte 73 is not:
  the process learns the column of a 64-bit kernel, later names are cut, and the
  search for the reference table (main.cc:511-521) finds none. `NamesRight` and
  `LineKept` set such a line aside (`trap`).
* *Wide prefixes.* Where the numbers of a line reach the kernel's column, the
  kernel puts one blank and the name begins there; the parsed name then begins
  with that blank, or within the numbers in the case of a 32-bit kernel's column.
* *Flags of a query.* With the ioctl they are a filter, with the text the
  permissions must be exactly those asked for; a query for files alone, which
  names no permission, matches by text only mappings without permissions.
* *A line cut by a small buffer.* `snprintf` ends what it cuts with a NUL, so
  `get_line` gives one character less than the buffer holds, and `get_lines` goes
  on behind it.
* *Lost callbacks.* A callback that is registered after the iterator has passed and
  before `clear()` (main.cc:181-190) is removed without being reported;
  `TakenIsReported` sets it aside (`"missed"`).
* *A late context.* A class that inherits the interface, but does not list it, is
  passed over if no class before it in the dex file made the interface known
  (main.cc:127); `SurelyBlocked` says what is cleared in spite of the order.
* *Late hooks.* A call of `hookMethod` that was inside when the native was replaced
  lands its hook afterwards; HookTable and `NoHookAfterDisable` admit it.
* *Saved results.* After the death of the process the activity shows what it
  saved beside the pid of the new process (MainActivity.kt:41-47). `FlagsTrue`
  speaks of the process in which the activity was launched.
* *What the report counts.* It lists a method once for each backup that is met
  (main.cc:827-830), so one that was hooked twice is listed twice.

## 6. Proofs

For every value of the constants that satisfies the named assumptions. The
assumptions are evaluated by the runs of the modules that declare them.

**HookRestoreProofs**, from `MethodsAssumption`, `LayoutAssumption`,
`HooksAssumption` and `RefsAssumption`. `RestoredAtEnd` is not inductive: a
method is restored only because a certain backup is still ahead of the cursor.
`IInv` adds what is needed. `BottomInv`: under every hooked method lies the one
hook that found the method's own code, so that copying its backup restores the
method and every other backup is a trampoline and is left alone. `AheadInv`: for
a settled method that is still hooked the cursor has not passed that hook's
reference. `TableInv`: published backups stay in the table, whatever others add
and delete. `CursorInv` and `FlagsInv` tie the loader's locals to the table.
Theorems: `Invariance`, `TypeCorrect`, `RestoreCorrect`, `CopyCorrect`,
`FlagsCorrect`, `LoaderCorrect`, `DisableCorrect`; `ReportCorrect` with the
invariant `ReportedInv` on top of it; `PromiseKept`, the refinement of HookTable.

**SMapsParserProofs**, from `ReaderAssumption` for the reader and
`SMapsAssumption` for the parser. The reader first: `ReaderInv` adds to the window
that a read is made only into a buffer that begins at its front and holds no
delimiter (`PcInv`). The lemma `FoundInFile` turns a search in the buffer into a
fact about the file, and with it each step of the reader is a step of LineStream
or leaves what LineStream sees alone. `ReaderInvariance`, `ReaderTypeCorrect`,
`WindowCorrect`, `ViewCorrect`, and the refinement `ReaderCorrect`.
Then the parser on top of it. `here` is where the line begins that the parser
handles next; no step of the reader between a question and its answer moves it
(`ReaderAnswers`), and since lines fit the buffer an answer is a whole line
(`LineInv`). `PlaceInv` says which lines can stand there in each mode and that the
mappings of interest before it have been returned; `EntryInv` follows the lines of
an entry from its mapping's. `BufferInv` is the reader's invariant, weakened where
a compaction makes an old view void. `SMapsInvariance`, `EntryCorrect`,
`ReturnedCorrect`.

**MapsParserProofs**, from `MapsAssumption`. Lemmas about mappings come first: two
mappings lie apart (`RunsApart`) or are the same (`RunsEqual`), the table lies in
one (`TableExists`, by the least-number principle). `MapsInv` adds to the types
which mode the parser is in (`ModeInv`), that the lines lie in order between the
last entry and the next read (`OrderInv`), that what is known of the table's
start is the table's (`StartInv`), and that the table has been collected, is in
hand, or has not been passed (`AheadInv`). `MapsInvariance`, `MapsTypeCorrect`,
`TableCorrect`, `EntriesCorrect`.

**FrameworkSweepProofs**, from `SweepAssumption` and `NoFieldAssumption`. The
names of the dex file are a permutation of the classes (`OrderFacts`), so a class
that has been passed is not met again. `SweepInv` says what the passed classes
have left: the loop's flags tell which kinds of class were among them
(`FlagsInv`), the class in hand is the first of its kind if it has anything to
clear (`HandInv`), the fields cleared are just those due for the classes passed
and the part of the one in hand that is done (`ClearedInv`), what a cleared field
still holds came after it was cleared (`CallbackInv`), and one native at most is
replaced, which is what the flag says (`NativeInv`). What the iterator in hand has
left to meet is in `CallbackInv` too, from which the action property
`TakenIsReported` follows at the step that clears. `FirstsThere` shows that every
order has a first bridge and a first context if there is one that counts in any
order, which is what `SurelyBlocked` needs. Theorems:
`SweepInvariance`, `SweepTypeCorrect`, `BlockedCorrect`, `SurelyCorrect`,
`OthersCorrect`, `TakenCorrect`, `FlagCorrect`, `NameCorrect`.

**ArtRemapProofs**, from `RemapAssumption`, which says of a library's headers
what a linker guarantees: segments in order that share no
block of their alignment, alignments that are multiples of the page, addresses
congruent to offsets; and of the base no more than that it lies at a page. The
heart is arithmetic. `Fitting`: at a base that fits, rounding down with the base
and without come to the same place (`DownShift`). `Apart`: then the whole pages of
one segment's new mapping reach no other segment and nothing in front of the
library, since the next one's aligned address is a multiple of the page.
`OwnBytes`: within the segment the mapping shows its own bytes, by congruence of
offset and address. `Covered`: a segment at a multiple of its alignment is mapped
from its first unit to its last, at any base, and `OthersKeep` that no mapping
brings a patch back. With these `RemapInv` is kept by each mapping, and
`SegmentsCorrect`, `AlignedCorrect` and `ReturnCorrect` follow.

**DescriptorBuilderProofs**, from `BuilderAssumption`. What the code puts together
piece by piece has to be the text that is written in one go in `Text`. The induction over
characters and parameters is made by a least counterexample (`UpTo`), from which
`Recursion` makes a function out of its rule, and `FlattenFcn` the laws of
`FlattenSeq` (`FlattenConcat`, `FlattenHead`, `FlattenTwice`). `SplitInv` is the
loop invariant of `ClassName`; `ArrayText` does the brackets, the letters and the
semicolon of arrays; `TypeSays` and `MethodSays` follow. `DInv` then says that the
text and the pieces left are the descriptor unless an exception is pending
(`TextInv`), that an exception comes only with a character of several bytes and
ends with its text (`PendingInv`), and what the frame keeps (`LocalsInv`).
`DescriptorInvariance`, `DescriptorCorrect`, `SpansCorrect`, `LocalsCorrect`.

**VmaLineProofs**, from `LineAssumption` and `ListAssumption`. `NamesRight` is
not inductive, since an entry's name depends on the column learnt from earlier
lines. `LInv` adds that this column is none or the kernel's (`ColumnInv`) and what
becomes of a name before and behind the column, and that a process which returned
a name has learnt the column of a 64-bit kernel (`EntryInv`). Writing is compared
with `Whole`, what `get_line` would write without an end: `LineWritten` says how much
of it goes into n bytes, `WholeIsLine` that it is the kernel's line, `BothWritten`
that of two buffers the smaller gets the beginning of what the larger gets, piece
after piece. For the accessors `FieldHas` shows that a line has a value for a name
only if the name is its own, and `FlagFound` that two letters are found only where
a flag begins. `LineInvariance`, `NamesCorrect`, `LineCorrect`, `CutCorrect`,
`AccessorsCorrect`.

**OnLoadProofs**, from `FinderAssumption` and `RemapAssumption`. The finder alone comes
first: `ScanInv` says that `found` is the last usable frame that was read and no edge
has been passed; `FinderInvariance`, `FinderCorrect`, `ExceptionsCleared`. The
activity's part is `LInv`: the flags are those of the process that lives, which
starts without any (`ProcessInv`); what is shown or saved is what was told when
the activity was launched, and a process that has told something tells the same
as long as it lives (`ShownInv`). The finder's invariant and the
remapping's hold in every process, as their modules' steps are this module's
steps: `Visit` brings the remapping into an initial state, whatever the process
before left, and `ArtInv` uses ArtRemapProofs through an instance while it lasts.
`ShownInvariance`, `ShownCorrect`, `FlagsCorrect`, `ArtInvariance`, `SegmentsStay`, `AlignedStay`, `FileClosed`,
`SearchCorrect`.

TLC checked each invariant on the instances above before it was proved. Every
safety property and every refinement that a passing run checks is a theorem. Only
model-checked are the liveness properties (`LoaderReturns`, `SweepEnds`, `AllRead`,
`CollectEnds`, `LoadEnds`), which are out of the prover's reach, and NameOffset, whose
run is a counterexample.

## 7. Not modelled

* *Layout, wording and fonts of the user interface*, and the numbers in the
  prefix of a line of mappings: no property is about them.
* *Unsafe, object references, GC roots, the size of an ArtMethod and the
  recognition of trampolines by their instructions* (main.cc:286-384, :710-719): layouts of
  ART and machine code. The models take what they find as given:
  `IsTrampoline` is right.
* *The moving collector.* The visitor reads object addresses without suspending
  it; the heap's addresses are abstracted, so the models say nothing of it.
* *Colours, and a lookup that fails in the descriptor builder's cache*: the first do
  not bear on the text, the second aborts debug builds and cannot happen to
  classes of the platform.
* *JNI helpers*: vendored wrappers; their effect on exceptions is in the actions.
* *Wide characters, moved readers and DirReader*: nothing in the program uses
  them.
* *Test module*: another application. Its hooks are hooks of HookRestore.
