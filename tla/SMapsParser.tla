----------------------------- MODULE SMapsParser -----------------------------
(***************************************************************************)
(* SMapsParser::NextEntry (maps_parser.cc:239-269) over a FileReader: an   *)
(* entry of /proc/self/smaps is a line for the mapping, lines for its      *)
(* fields and a last line "VmFlags:".  The entry that is returned keeps    *)
(* the reader's views of all of them.  The first byte of a line tells what *)
(* it is.                                                                  *)
(***************************************************************************)
EXTENDS FileReader

CONSTANTS Wanted,      \* first bytes of mappings that query_flags_ accepts
          Unwanted,    \* and of the other mappings
          VmFlags      \* first byte of the last line of an entry

Heads == Wanted \cup Unwanted

\* Where the lines of a text begin.
Starts(text) == {p \in 0..(Len(text) - 1) : p = 0 \/ text[p] = Delim[1]}

\* A text of smaps as the kernel writes it: lines that are not empty, end with
\* the delimiter and fit the buffer; a mapping's line comes first and after
\* each line VmFlags, and such a line is the last.
SmapsText(text) ==
  /\ \A p \in Starts(text) :
       /\ text[p + 1] # Delim[1]
       /\ \E q \in (p + 1)..Len(text) : q - p <= Size /\ text[q] = Delim[1]
       /\ p = 0 => text[p + 1] \in Heads
       /\ (\A q \in Starts(text) : q <= p) => text[p + 1] = VmFlags
  /\ \A p, q \in Starts(text) :
       p < q /\ (\A r \in Starts(text) : r <= p \/ q <= r)
         => (text[q + 1] \in Heads <=> text[p + 1] = VmFlags)

\* The parser's reader is one of lines (maps_parser.h: FileReader<Buffer>).
ASSUME SMapsAssumption ==
  /\ Len(Delim) = 1
  /\ Wanted \cap Unwanted = {} /\ VmFlags \notin Heads
  /\ \A text \in Files : SmapsText(text)

VARIABLES mode,        \* what the next line is for
          asked,       \* a line was asked for and is not handled yet
          fields,      \* the lines of the entry, the mapping's and VmFlags too
          returned     \* history: mappings returned, by their place in the file

entryVars == <<mode, asked, fields, returned>>
smapsVars == <<vars, entryVars>>
readerRest == <<file, offset, eof_, pc, lineVars, failed>>

SInit == Init /\ mode = "out" /\ asked = FALSE /\ fields = <<>> /\ returned = {}

\* NextEntry is called: the buffer is compacted and a mapping looked for.
NextEntry ==
  /\ mode = "out" /\ mode' = "header"
  /\ buffer' = Moved /\ buf_pos_' = 0 /\ buf_end_' = buf_end_ - buf_pos_
  /\ fields' = <<>>
  /\ UNCHANGED <<readerRest, asked, returned>>

Ask == /\ mode \in {"header", "fields", "skip"} /\ ~asked
       /\ NextLine /\ asked' = TRUE
       /\ UNCHANGED <<mode, fields, returned>>

Reader == asked /\ (Step \/ Interrupted) /\ pc # "idle" /\ UNCHANGED entryVars

\* The reader has answered with a line.
Got == asked /\ pc = "idle" /\ ~(eof_ /\ view.len = 0)
First == buffer[view.at + 1]
Handled(m, fs) == mode' = m /\ fields' = fs /\ asked' = FALSE

\* ParseVmaEntry, and the filter of the query.
Header ==
  /\ mode = "header" /\ Got
  /\ IF view.len = 0 THEN Handled("completed", fields)
     ELSE \/ First \in Wanted /\ Handled("fields", <<[view |-> view, line |-> line]>>)
          \/ First \in Unwanted /\ Handled("skip", fields)
          \/ First \notin Heads /\ Handled("completed", fields)
  /\ UNCHANGED <<vars, returned>>

\* Fault: a mapping of no interest is skipped by one line.
SkipOne ==
  /\ mode = "skip" /\ Got
  /\ Handled("header", fields)
  /\ UNCHANGED <<vars, returned>>

\* The lines of a mapping of no interest, and a compaction after the last.
Skip ==
  /\ mode = "skip" /\ Got
  /\ IF view.len > 0 /\ First = VmFlags
     THEN /\ Handled("header", fields)
          /\ buffer' = Moved /\ buf_pos_' = 0 /\ buf_end_' = buf_end_ - buf_pos_
     ELSE Handled("skip", fields) /\ UNCHANGED bufVars
  /\ UNCHANGED <<readerRest, returned>>

\* Fault: an entry is returned at each of its fields.
EveryField ==
  /\ mode = "fields" /\ Got
  /\ Handled("out", Append(fields, [view |-> view, line |-> line]))
  /\ returned' = returned \cup {fields[1].line.at}
  /\ UNCHANGED vars

\* A field of the entry; the entry is returned with VmFlags.
Field ==
  /\ mode = "fields" /\ Got
  /\ LET last == view.len > 0 /\ First = VmFlags
     IN /\ Handled(IF last THEN "out" ELSE "fields", Append(fields, [view |-> view, line |-> line]))
        /\ returned' = returned \cup (IF last THEN {fields[1].line.at} ELSE {})
  /\ UNCHANGED vars

\* The file has no more lines.  What was read of an entry is dropped.
NoLine ==
  /\ \/ asked /\ pc = "idle" /\ ~Got
     \/ ~asked /\ eof_
  /\ mode \in {"header", "fields", "skip"}
  /\ Handled("completed", fields)
  /\ UNCHANGED <<vars, returned>>

SNext == NextEntry \/ Ask \/ Reader \/ Header \/ Skip \/ Field \/ NoLine

SSpec == SInit /\ [][SNext]_smapsVars

-----------------------------------------------------------------------------
\* An entry is made of the lines from its mapping's to its VmFlags, all of
\* them and nothing of another entry (maps_parser.cc:246-265).
WholeEntry ==
  mode = "out" /\ fields # <<>> =>
    /\ file[fields[1].line.at + 1] \in Wanted
    /\ \A i \in 1..Len(fields) :
         /\ i > 1 => fields[i].line.at = fields[i - 1].line.at + fields[i - 1].line.len + Len(Delim)
         /\ file[fields[i].line.at + 1] = VmFlags <=> i = Len(fields)

\* Where mappings of interest lie: at the beginning or after a delimiter.
WantedAt == {p \in Starts(file) : file[p + 1] \in Wanted}

\* At the end, unless a read failed, every mapping of interest was returned
\* once, filtered ones between them or not (maps_parser.cc:247-253).
AllReturned == mode = "completed" /\ ~failed => returned = WantedAt

\* The warning of FileReader (file_reader.h:424-426) for the views that an
\* entry keeps (maps_parser.cc:254-261): when NextEntry returns, each still
\* shows the line it was made for.
EntryIntact ==
  mode = "out" =>
    \A k \in 1..Len(fields) : \A i \in 1..fields[k].view.len :
      buffer[fields[k].view.at + i] = file[fields[k].line.at + i]

-----------------------------------------------------------------------------
(* The inductive invariant behind WholeEntry and AllReturned.              *)

\* The line that the parser is about to handle begins here.
here == IF asked /\ pc = "idle" THEN line.at ELSE consumed

Before(p) == {q \in WantedAt : q < p}

\* A call compacts the buffer, so a view may be void until a line is asked for.
BufferInv == /\ TypeOK /\ PcInv /\ Window /\ (asked => ViewIsLine)
             /\ file \in Files /\ (failed => eof_)

ModeInv ==
  /\ mode \in {"out", "header", "fields", "skip", "completed"} /\ asked \in BOOLEAN
  /\ fields \in Seq([view : Spans, line : Spans]) /\ returned \subseteq Nat
  /\ asked => mode \in {"header", "fields", "skip"}
  /\ ~asked => pc = "idle"
  /\ eof_ /\ ~asked /\ ~failed => mode = "completed"

\* The line in hand is a whole one; at the end there is none, or the part of
\* one that came before the error.
LineInv ==
  asked /\ pc = "idle" =>
    /\ ~eof_ => /\ line.len > 0 /\ consumed = line.at + line.len + 1
                /\ file[consumed] = Delim[1]
                /\ \A q \in (line.at + 1)..(consumed - 1) : file[q] # Delim[1]
    /\ eof_ /\ ~failed => line.len = 0 /\ line.at = Len(file)
    /\ line.len > 0 => line.at \in Starts(file)

\* The entry so far: consecutive lines up to here, the first the mapping's.
EntryInv ==
  /\ fields # <<>>
  /\ fields[1].line.at \in WantedAt /\ fields[1].line.at < here
  /\ returned = Before(fields[1].line.at)
  /\ \A p \in WantedAt : p <= fields[1].line.at \/ here <= p
  /\ \A i \in 1..Len(fields) :
       /\ file[fields[i].line.at + 1] # VmFlags
       /\ i > 1 => fields[i].line.at = fields[i - 1].line.at + fields[i - 1].line.len + 1
  /\ here = fields[Len(fields)].line.at + fields[Len(fields)].line.len + 1

\* Between entries the next line is a mapping's, within them it is not, and
\* all mappings of interest behind are returned.
PlaceInv ==
  asked \/ ~eof_ =>
    /\ mode # "completed" => here \in Starts(file) \cup {Len(file)}
    /\ mode \in {"out", "header"} =>
         /\ here \in Starts(file) => file[here + 1] \in Heads
         /\ returned = Before(here)
    /\ mode \in {"fields", "skip"} => here \in Starts(file) /\ file[here + 1] \notin Heads
    /\ mode = "skip" => returned = Before(here)
    /\ mode = "fields" => EntryInv

SInv == BufferInv /\ ModeInv /\ LineInv /\ PlaceInv /\ WholeEntry /\ AllReturned
=============================================================================
