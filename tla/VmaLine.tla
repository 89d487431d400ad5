------------------------------- MODULE VmaLine -------------------------------
(***************************************************************************)
(* The text of a mapping: how ParseVmaEntry finds the name in a line of    *)
(* the kernel (maps_parser.cc:47-153), how get_line and get_lines write    *)
(* the line again into a buffer (:271-335, :377-416) and what the          *)
(* accessors of an SVmaEntry find in its lines (:337-375).                 *)
(*                                                                         *)
(* A text is a sequence of characters.  The kernel pads the prefix of a    *)
(* line, up to its number of the inode, with blanks, so that the name      *)
(* begins in a column that depends on the width of the kernel's words.     *)
(* Columns and prefixes are scaled down; of a prefix only its width with   *)
(* the blank after it matters and whether the flags are those asked for.   *)
(***************************************************************************)
EXTENDS Naturals, SequencesExt

CONSTANTS Chars,
          Col32, Col64,  \* kNameOffset<uint32_t> (49) and <uint64_t> (73)
          Widths,        \* of prefixes, the blank after the inode included
          Names,         \* of mappings, <<>> for one without a name
          Lists,         \* [fields, flags]: what smaps says of a mapping
          Keys, Flags,   \* names of fields and flags that are asked for
          Room           \* kMaxPrefixSize + PATH_MAX + 1

\* A name, of a field as of a flag, with none of its own separators.
Without(name, c) == \A i \in DOMAIN name : name[i] # c

\* The longest line of the kernel is as long as Room.
ASSUME LineAssumption ==
  /\ Col32 \in Nat \ {0} /\ Col64 \in Nat /\ Col32 < Col64
  /\ Widths \subseteq Nat \ {0} /\ Room \in Nat
  /\ {" ", "d", ":", "V", "m", "0", "1", "\n"} \subseteq Chars
  /\ Names \subseteq Seq(Chars)
  /\ \A name \in Names \ {<<>>} : name[1] # " "
  /\ \A w \in Widths, name \in Names : /\ w + 1 + Len(name) <= Room
                                       /\ Col64 + Len(name) <= Room

\* What show_smap writes: a value is a number and its unit, a flag two letters.
ASSUME ListAssumption ==
  /\ Lists \subseteq [fields : Seq([key : Seq(Chars), num : Seq({"0", "1"}), unit : Seq(Chars)]),
                     flags : Seq(Seq(Chars))]
  /\ \A s \in Lists : /\ \A i \in DOMAIN s.fields :
                           /\ Without(s.fields[i].key, ":")
                           /\ s.fields[i].unit # <<>> =>
                                /\ s.fields[i].num # <<>>
                                /\ s.fields[i].unit[1] \notin {"0", "1"}
                      /\ \A i \in DOMAIN s.flags : Len(s.flags[i]) = 2 /\ Without(s.flags[i], " ")
  /\ Keys \subseteq Seq(Chars) /\ \A k \in Keys : Without(k, ":")
  /\ Flags \subseteq Seq(Chars) /\ \A f \in Flags : Len(f) = 2 /\ Without(f, " ")

Blanks(n) == [i \in 1..n |-> " "]
From(s, k) == SubSeq(s, k + 1, Len(s))          \* substr(k)
Cut(s, n) == SubSeq(s, 1, IF n < Len(s) THEN n ELSE Len(s))

VARIABLES lp64,          \* the process has 64-bit pointers
          kernel,        \* column of names: Col64 with a 64-bit kernel
          name_offset_,  \* column learnt by a 32-bit process, 0 if none
          query,         \* [filter |-> flags are asked for, file |-> BOOLEAN]
          line,          \* the last line: [width, name, match], match if the
                         \* flags of the mapping are those asked for
          entry,         \* what ParseVmaEntry made of it, or NoEntry
          smaps,         \* the lines of the SVmaEntry that was read
          trap           \* history: a line like Trap came when name_offset_ was 0

vars == <<lp64, kernel, name_offset_, query, line, entry, smaps, trap>>

NoEntry == [width |-> 0, name |-> <<>>]
NoLists == [fields |-> <<>>, flags |-> <<>>]

Prefix(w) == [i \in 1..w |-> IF i = w THEN " " ELSE "d"]

\* show_map_vma and seq_pad of the kernel.
KernelLine(l) ==
  Prefix(l.width) \o
    (IF l.name = <<>> THEN <<>>
     ELSE Blanks(IF l.width < kernel THEN kernel - l.width ELSE 1) \o l.name)

\* A 32-bit kernel's line that has a word of its name begin at Col64.
Trap(text) == /\ kernel = Col32 /\ Len(text) > Col64
              /\ text[Col64] = " " /\ text[Col64 + 1] # " "

Init ==
  /\ lp64 \in BOOLEAN /\ kernel \in {Col32, Col64} /\ (lp64 => kernel = Col64)
  /\ query \in [filter : BOOLEAN, file : BOOLEAN]
  /\ name_offset_ = 0 /\ line = [width |-> 0, name |-> <<>>, match |-> FALSE]
  /\ entry = NoEntry /\ smaps = NoLists /\ trap = FALSE

-----------------------------------------------------------------------------
(* Reading.                                                                *)

NameAt(text, offset) == IF Len(text) > offset THEN From(text, offset) ELSE <<>>

\* The 32-bit process knows no column and has to guess it from this line.
Guesses(text, w) == /\ name_offset_ = 0 /\ w < Col64
                    /\ Len(text) > Max({w, Col32})

\* Fault: only what stands in the column is looked at.
GuessByName(text) == IF Len(text) > Col64 /\ text[Col64 + 1] # " " THEN Col64 ELSE Col32

Guess(text) == IF Len(text) > Col64 /\ text[Col64] = " " /\ text[Col64 + 1] # " "
               THEN Col64 ELSE Col32

ParsedName(text, w) ==
  CASE lp64 -> NameAt(text, Max({w, Col64}))
    [] ~lp64 /\ name_offset_ # 0 -> NameAt(text, Max({w, name_offset_, Col32}))
    [] ~lp64 /\ name_offset_ = 0 /\ w >= Col64 -> From(text, w)
    [] ~lp64 /\ Guesses(text, w) -> From(text, Guess(text))
    [] OTHER -> <<>>

\* One turn of the loop of ParseVmaEntry.  A line of other flags is skipped
\* before its name is looked at, one that is not of a file after it.  A query
\* for files alone asks for no flags, and a mapping matches it that has no
\* permission at all.  Prefixes of Col64 and more are as good as never met by a
\* 32-bit process, but the code has a branch for them.
ReadLine(l) ==
  LET text == KernelLine(l)
      name == ParsedName(text, l.width)
      asked == query.filter \/ query.file
      skipped == asked /\ ~l.match
  IN
  /\ line' = l /\ smaps' = NoLists
  /\ trap' = (trap \/ (name_offset_ = 0 /\ Trap(text)))
  /\ name_offset_' = IF ~skipped /\ ~lp64 /\ Guesses(text, l.width) THEN Guess(text)
                     ELSE name_offset_
  /\ entry' = IF skipped \/ (query.file /\ (name = <<>> \/ name[1] # "/")) THEN NoEntry
              ELSE [width |-> l.width, name |-> name]
  /\ UNCHANGED <<lp64, kernel, query>>

\* SMapsParser asks ParseVmaEntry for every mapping and keeps the lines that
\* follow.
ReadFields(s) ==
  /\ entry # NoEntry /\ smaps = NoLists
  /\ ~query.filter /\ ~query.file
  /\ smaps' = s
  /\ UNCHANGED <<lp64, kernel, name_offset_, query, line, entry, trap>>

Next == \/ \E l \in [width : Widths, name : Names, match : BOOLEAN] : ReadLine(l)
        \/ \E s \in Lists : ReadFields(s)

Spec == Init /\ [][Next]_vars

-----------------------------------------------------------------------------
(* Writing into a buffer of n bytes.                                       *)

Header == SubSeq(Prefix(entry.width), 1, entry.width - 1)

\* Fault: the column that was learnt is not used for writing.
OwnColumn == IF lp64 THEN Col64 ELSE Col32

NameColumn == IF lp64 THEN Col64 ELSE Max({name_offset_, Col32})

\* Blanks up to the column, then the name, each cut at the buffer's end.
NameField == (IF entry.width < NameColumn THEN Blanks(NameColumn - entry.width) ELSE <<>>)
             \o entry.name

\* Fault: the NUL is returned as part of the text.
LineWithNul(n) ==
  CASE n = 0 -> <<>>
    [] n > 0 /\ Len(Header) >= n -> Append(Cut(Header, n - 1), "0")
    [] OTHER -> IF entry.name = <<>> THEN Append(Header, " ")
                ELSE Cut(Append(Header, " ") \o NameField, n)

\* snprintf keeps a byte for its NUL, which the views leave out.
get_line(n) ==
  CASE n = 0 -> <<>>
    [] n > 0 /\ Len(Header) >= n -> Cut(Header, n - 1)
    [] OTHER -> IF entry.name = <<>> THEN Append(Header, " ")
                ELSE Cut(Append(Header, " ") \o NameField, n)

FieldText(f) == f.key \o <<":", " ", " ">> \o f.num \o f.unit
FieldTexts == [i \in DOMAIN smaps.fields |-> FieldText(smaps.fields[i])]

Title == <<"V", "m", ":", " ">>                 \* "VmFlags: "
\* For each flag its two letters and a blank.
VmFlagsText ==
  Title \o [i \in 1..(3 * Len(smaps.flags)) |->
              IF i % 3 = 0 THEN " " ELSE smaps.flags[(i + 2) \div 3][i % 3]]

\* What follows the mapping's line.
Pieces == <<<<"\n">>>> \o [i \in DOMAIN FieldTexts |-> Append(FieldTexts[i], "\n")]
          \o <<VmFlagsText>>

\* print and new_line copy what there is room for.
get_lines(n) ==
  LET written[k \in 0..Len(Pieces)] ==
        IF k = 0 THEN get_line(n)
        ELSE LET text == written[k - 1] IN text \o Cut(Pieces[k], n - Len(text))
  IN written[Len(Pieces)]

-----------------------------------------------------------------------------
(* The accessors.                                                          *)

NonBlank(s, from) == {i \in from..Len(s) : s[i] # " "}

\* Fault: a longer name is taken for the one asked for.
PrefixHasValue(text, name) ==
  /\ IsPrefix(name, text) /\ Len(name) < Len(text)
  /\ NonBlank(text, Len(name) + 2) # {}

\* The field of this name has a value in this line.
HasValue(text, name) ==
  /\ IsPrefix(name, text) /\ Len(name) < Len(text)
  /\ text[Len(name) + 1] = ":"
  /\ NonBlank(text, Len(name) + 2) # {}

get_field_string(name) ==
  LET hits == {i \in DOMAIN FieldTexts : HasValue(FieldTexts[i], name)} IN
  IF hits = {} THEN <<>>
  ELSE LET text == FieldTexts[Min(hits)]
       IN From(text, Min(NonBlank(text, Len(name) + 2)) - 1)

\* strtoul: the digits, if a blank or the end of the text follows them.
get_field(name) ==
  LET text == get_field_string(name)
      others == {i \in DOMAIN text : text[i] \notin {"0", "1"}}
      digits == IF others = {} THEN Len(text) ELSE Min(others) - 1
  IN IF digits > 0 /\ (digits = Len(text) \/ text[digits + 1] = " ")
     THEN SubSeq(text, 1, digits) ELSE <<>>

\* find from after the title, then the blanks around what was found.
has_vm_flag(flag) ==
  LET ends == {i \in Len(Title)..(Len(VmFlagsText) - Len(flag)) :
                 IsPrefix(flag, From(VmFlagsText, i))}
      pos == Min(ends)
  IN /\ ends # {}
     /\ VmFlagsText[pos] = " "
     /\ \/ pos + Len(flag) = Len(VmFlagsText)
        \/ VmFlagsText[pos + Len(flag) + 1] = " "

-----------------------------------------------------------------------------
(* Properties.                                                             *)

\* A mapping that is returned has the name it has in the kernel, whatever
\* lines came before it and in whatever column the kernel writes names
\* (maps_parser.cc:129-153), as long as the prefix leaves a blank column and
\* no line of a 32-bit kernel looked like one of a 64-bit kernel.
NamesRight ==
  entry # NoEntry /\ line.width < kernel /\ ~trap => entry.name = line.name

\* get_line writes what the kernel wrote (maps_parser.cc:276-335), so that
\* parsing it again gives the same entry.  The prefixes of a 32-bit kernel
\* that leave no blank column are left out: the first of them is split inside
\* its prefix.
LineKept ==
  entry # NoEntry /\ ~trap /\ (kernel = Col64 \/ line.width <= Col32)
    => get_line(Room) = KernelLine(line)

\* A buffer that is too small gets the beginning of the text and nothing
\* else, filled to its last byte, or to the NUL that snprintf puts there
\* (maps_parser.cc:299-303, :387-413); a line break follows a line cut short
\* by that NUL.
CutIsPrefix ==
  LET whole == get_line(Room)
      lines == get_lines(Room)
      least(n, s) == IF n < Len(s) THEN n ELSE Len(s)
  IN entry # NoEntry =>
       \A n \in 1..Len(lines) :
         /\ IsPrefix(get_line(n), whole)
         /\ Len(get_line(n)) = IF n < entry.width THEN n - 1 ELSE least(n, whole)
         /\ n >= entry.width => IsPrefix(get_lines(n), lines)
         /\ Len(get_lines(n)) = n

\* The accessors answer for the field and the flag that is asked for: the
\* first field of exactly that name that has a value, its number if it is
\* one, and a flag if it is in the list (maps_parser.cc:337-375).
AccessorsExact ==
  LET with(k) == {i \in DOMAIN smaps.fields :
                    smaps.fields[i].key = k /\ smaps.fields[i].num \o smaps.fields[i].unit # <<>>}
      first(k) == smaps.fields[Min(with(k))]
  IN /\ \A k \in Keys :
          IF with(k) = {} THEN get_field_string(k) = <<>> /\ get_field(k) = <<>>
          ELSE /\ get_field_string(k) = first(k).num \o first(k).unit
               /\ get_field(k) = IF first(k).unit = <<>> \/ first(k).unit[1] = " "
                                 THEN first(k).num ELSE <<>>
     /\ \A f \in Flags : has_vm_flag(f) <=> Contains(smaps.flags, f)

-----------------------------------------------------------------------------
(* Why they hold: the inductive invariant.                                 *)

TypeOK ==
  /\ lp64 \in BOOLEAN /\ kernel \in {Col32, Col64} /\ (lp64 => kernel = Col64)
  /\ name_offset_ \in Nat /\ trap \in BOOLEAN
  /\ line \in [width : Nat, name : Seq(Chars), match : BOOLEAN]
  /\ entry \in [width : Nat, name : Seq(Chars)]
  /\ smaps \in Lists \cup {NoLists}

\* Unless a line was a trap, a column that was learnt is the kernel's.
ColumnInv == ~trap => name_offset_ \in {0, kernel}

\* What becomes of a name behind the kernel's column, and that a process which
\* returned a name has learnt the column of a 64-bit kernel.
EntryInv ==
  entry # NoEntry =>
    /\ entry.width = line.width /\ line.width \in Widths /\ line.name \in Names
    /\ ~trap /\ (line.width < kernel \/ kernel = Col64 \/ line.width <= Col32) =>
         entry.name = IF line.width < kernel \/ line.name = <<>> THEN line.name
                      ELSE <<" ">> \o line.name
    /\ ~trap /\ ~lp64 /\ kernel = Col64 /\ line.width < kernel /\ line.name # <<>> =>
         name_offset_ = Col64

LInv == TypeOK /\ ColumnInv /\ EntryInv
=============================================================================
