------------------------------- MODULE ArtRemap -------------------------------
(***************************************************************************)
(* RemapExecutableSegmentsForArt (main.cc:581-620): the executable         *)
(* segments of libart.so are mapped again from the file over the ones in   *)
(* memory, which other threads go on patching and writing.                 *)
(*                                                                         *)
(* Addresses count units smaller than a page; those of memory and of the    *)
(* headers from the library's base, which is that of its first segment.    *)
(* A unit of memory is what the segment's file bytes say ("file"), a patch *)
(* of an inline hook ("hook"), a value the program wrote ("data", or "new" *)
(* since the remapping began), or bytes from another place of the file     *)
(* ("wrong").  In front of the base there is memory of others.             *)
(***************************************************************************)
EXTENDS Integers, Sequences

CONSTANTS Layouts,     \* program headers that libart.so may have
          Bases,       \* addresses at which it may be loaded
          Page,        \* getpagesize()
          Limit        \* no segment reaches further

Headers == [p_vaddr : 0..Limit, p_memsz : 1..Limit, p_align : 1..Limit, p_offset : Nat,
            p_flags : SUBSET {"R", "W", "X"}]

\* Segments are congruent to the file and share no block of their alignment,
\* as linkers lay them out for pages of any size up to p_align.
WellLaidOut(table) ==
  \A i \in DOMAIN table : LET s == table[i] IN
    /\ s.p_align % Page = 0
    /\ s.p_vaddr % s.p_align = s.p_offset % s.p_align
    /\ s.p_vaddr + s.p_memsz <= Limit
    /\ \A j \in DOMAIN table : i < j =>
         table[j].p_vaddr \div table[j].p_align > (s.p_vaddr + s.p_memsz - 1) \div table[j].p_align

\* What a module that gives the constants their values assumes of them.  The
\* linker maps a library at a page, which need not be a multiple of p_align.
RemapAssumption ==
  /\ Page \in Nat /\ Page > 0 /\ Limit \in Nat
  /\ Bases \subseteq Nat /\ \A base \in Bases : base % Page = 0
  /\ \A table \in Layouts : table \in Seq(Headers) /\ WellLaidOut(table)

VARIABLES phdrs,       \* the PT_LOAD program headers
          dli_fbase,   \* where the library is
          memory,
          pc, phdr,    \* position and index of the next program header
          fd, elf,     \* the descriptor is open, the file is mapped
          is_art_restored_,
          remapped,    \* history: headers whose segment was mapped again
          late,        \* history: units patched since they were mapped again
          written      \* history: units written since the remapping began

library == <<phdrs, dli_fbase>>
history == <<remapped, late, written>>
vars == <<library, memory, pc, phdr, fd, elf, is_art_restored_, history>>

Units == (-Limit)..(Limit - 1)
In(s, u) == s.p_vaddr <= u /\ u < s.p_vaddr + s.p_memsz
Within(flag) == {u \in Units : \E i \in DOMAIN phdrs : In(phdrs[i], u) /\ flag \in phdrs[i].p_flags}
Code == Within("X") \ Within("W")

TypeOK ==
  /\ phdrs \in Layouts /\ dli_fbase \in Bases
  /\ memory \in [Units -> {"file", "hook", "data", "new", "wrong"}]
  /\ pc \in {"open", "mmap", "loop", "done"} /\ phdr \in 1..(Len(phdrs) + 1)
  /\ {fd, elf, is_art_restored_} \subseteq BOOLEAN
  /\ remapped \subseteq DOMAIN phdrs
  /\ elf => fd
  /\ late \subseteq Units /\ written \subseteq Units

\* The library while the program runs: some of the code has been patched, all
\* writable data written, as is what lies in front of it.
MemoryWith(hooks) == [u \in Units |-> IF u \in Within("W") \/ u < 0 THEN "data"
                                      ELSE IF u \in hooks THEN "hook" ELSE "file"]

Init ==
  /\ phdrs \in Layouts /\ dli_fbase \in Bases
  /\ \E hooks \in SUBSET Code : memory = MemoryWith(hooks)
  /\ pc = "open" /\ phdr = 1 /\ fd = FALSE /\ elf = FALSE
  /\ is_art_restored_ = FALSE /\ remapped = {} /\ late = {} /\ written = {}

\* Another thread installs an inline hook.
Patch(u) ==
  /\ u \in Code /\ memory[u] = "file"
  /\ memory' = [memory EXCEPT ![u] = "hook"]
  /\ late' = late \cup {u}
  /\ UNCHANGED <<library, pc, phdr, fd, elf, is_art_restored_, remapped, written>>

\* Another thread writes a variable of the library.
Write(u) ==
  /\ u \in Within("W")
  /\ memory' = [memory EXCEPT ![u] = "new"]
  /\ written' = written \cup {u}
  /\ UNCHANGED <<library, pc, phdr, fd, elf, is_art_restored_, remapped, late>>

\* dladdr and open: without a path or a file there is nothing to do.
Open ==
  /\ pc = "open"
  /\ \/ pc' = "done" /\ UNCHANGED fd
     \/ pc' = "mmap" /\ fd' = TRUE
  /\ UNCHANGED <<library, memory, phdr, elf, is_art_restored_, history>>

\* The whole file is mapped for reading; if that fails it is closed.
MapFile ==
  /\ pc = "mmap"
  /\ \/ pc' = "loop" /\ elf' = TRUE /\ UNCHANGED fd
     \/ pc' = "done" /\ fd' = FALSE /\ UNCHANGED elf
  /\ UNCHANGED <<library, memory, phdr, is_art_restored_, history>>

\* Fault: writable segments are not passed over.
AnyExec(s) == "X" \in s.p_flags

Selected(s) == "X" \in s.p_flags /\ "W" \notin s.p_flags

AlignDown(a, n) == a - (a % n)
AlignUp(a, n) == AlignDown(a + n - 1, n)

\* The segment that comes next; arguments of its mmap: the address is aligned
\* in memory, the offset in the file.
this == phdrs[phdr]

segment_addr == AlignDown(dli_fbase + this.p_vaddr, this.p_align)
FloorSize == AlignDown(this.p_memsz, Page)  \* Fault: whole pages only.
segment_size == AlignUp(this.p_memsz, Page)
segment_offset == AlignDown(this.p_offset, this.p_align)

SkipSegment ==
  /\ pc = "loop" /\ phdr <= Len(phdrs) /\ ~Selected(this)
  /\ phdr' = phdr + 1
  /\ UNCHANGED <<library, memory, pc, fd, elf, is_art_restored_, history>>

\* The bytes that unit u of a segment has in the file.
OffsetOf(u) == {phdrs[i].p_offset + u - phdrs[i].p_vaddr : i \in {j \in DOMAIN phdrs : In(phdrs[j], u)}}

\* mmap replaces every byte of the range at once, the first of it by the byte
\* at segment_offset.
MapSegment ==
  /\ pc = "loop" /\ phdr <= Len(phdrs) /\ Selected(this)
  /\ LET place(u) == dli_fbase + u - segment_addr
         range == {u \in Units : 0 <= place(u) /\ place(u) < segment_size}
     IN /\ memory' = [u \in Units |->
             IF u \notin range THEN memory[u]
             ELSE IF OffsetOf(u) \subseteq {segment_offset + place(u)} THEN "file"
             ELSE "wrong"]
        /\ late' = late \ range
  /\ remapped' = remapped \cup {phdr}
  /\ is_art_restored_' = TRUE
  /\ phdr' = phdr + 1
  /\ UNCHANGED <<library, pc, fd, elf, written>>

\* mmap fails: the segment stays as it is.
MapFails ==
  /\ pc = "loop" /\ phdr <= Len(phdrs) /\ Selected(this)
  /\ phdr' = phdr + 1
  /\ UNCHANGED <<library, memory, pc, fd, elf, is_art_restored_, history>>

\* Fault: the descriptor stays open.
LeakFd ==
  /\ pc = "loop" /\ phdr > Len(phdrs)
  /\ pc' = "done" /\ elf' = FALSE
  /\ UNCHANGED <<library, memory, phdr, fd, is_art_restored_, history>>

\* munmap comes before close.
Finish ==
  /\ pc = "loop" /\ phdr > Len(phdrs)
  /\ pc' = "done" /\ elf' = FALSE /\ fd' = FALSE
  /\ UNCHANGED <<library, memory, phdr, is_art_restored_, history>>

Remap == Open \/ MapFile \/ SkipSegment \/ MapSegment \/ MapFails \/ Finish

Next == Remap \/ \E u \in Units : Patch(u) \/ Write(u)

Spec == Init /\ [][Next]_vars

-----------------------------------------------------------------------------
\* The base of the library is a multiple of the segment's alignment too.
Fits(s) == dli_fbase % s.p_align = 0

\* The mappings are made with MAP_FIXED over a live library (main.cc:602-613).
\* As long as they fit the library's base, whatever the alignments, every
\* variable has the value last written to it, before or meanwhile, nothing in
\* front of the library is lost, and no byte of another place of the file
\* comes into a segment.
SegmentsKept ==
  (\A i \in remapped : Fits(phdrs[i])) =>
    /\ \A u \in Within("W") : memory[u] = IF u \in written THEN "new" ELSE "data"
    /\ \A u \in Units : u < 0 => memory[u] = "data"
    /\ \A u \in Within("X") \cup Within("R") : memory[u] # "wrong"

\* A segment that lies at a multiple of its alignment has lost every patch
\* that was there before it was mapped again (main.cc:602-615), whatever
\* became of the other segments, and mapping those does not undo it.
AlignedRestored ==
  \A i \in remapped : (dli_fbase + phdrs[i].p_vaddr) % phdrs[i].p_align = 0 =>
    \A u \in Units : In(phdrs[i], u) /\ memory[u] = "hook" => u \in late

\* On every way out the descriptor and the mapping are gone (main.cc:585-592,
\* :618-619).
ReturnsClean == pc = "done" => ~fd /\ ~elf

\* The flag is reported and no mmap failed.
Success == /\ pc = "done" /\ is_art_restored_
           /\ \A i \in DOMAIN phdrs : Selected(phdrs[i]) => i \in remapped

\* README.md:15, "Restore inline hooks to `libart.so` in memory": after success
\* no earlier patch is left.
InlineHooksRestored == Success => \A u \in Code : memory[u] = "hook" => u \in late
=============================================================================
