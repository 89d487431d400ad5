------------------------------ MODULE NameOffset ------------------------------
(***************************************************************************)
(* The initializer of name_offset_ (maps_parser.cc:55-76), run when the    *)
(* library is loaded into a 32-bit process: it reads the first line of     *)
(* /proc/self/smaps_rollup to learn in which column the kernel puts a      *)
(* mapping's name.                                                         *)
(***************************************************************************)
EXTENDS Integers

CONSTANTS Size,         \* sizeof(buffer)
          FileSize,     \* length of smaps_rollup
          EINTR, EIO    \* error numbers

VARIABLES pc, offset,   \* position, and that of the descriptor
          nread,
          name_offset_  \* "column" when the probe has learnt one

vars == <<pc, offset, nread, name_offset_>>

Init == pc = "open" /\ offset = 0 /\ nread = 0 /\ name_offset_ = "none"

Open ==
  /\ pc = "open"
  /\ pc' \in {"read", "done"}
  /\ UNCHANGED <<offset, nread, name_offset_>>

\* One turn of do ... while (nread != -EINTR).  A read brings what is left,
\* up to the size of the buffer, is interrupted or fails.
Read ==
  LET left == FileSize - offset IN
  /\ pc = "read"
  /\ nread' \in {IF left < Size THEN left ELSE Size, -EINTR, -EIO}
  /\ offset' = IF nread' > 0 THEN offset + nread' ELSE offset
  /\ pc' = IF nread' # -EINTR THEN "read" ELSE "check"
  /\ UNCHANGED name_offset_

\* A full buffer shows the column, anything else leaves it unknown.
Check ==
  /\ pc = "check" /\ pc' = "done"
  /\ name_offset_' = IF nread = Size THEN "column" ELSE "none"
  /\ UNCHANGED <<offset, nread>>

Next == Open \/ Read \/ Check

Spec == Init /\ [][Next]_vars

\* A thread that loads a library runs.
FairSpec == Spec /\ WF_vars(Next)

-----------------------------------------------------------------------------
\* The check of a full read is marked [[likely]] (maps_parser.cc:68): a read
\* that fills the buffer is followed by it, and the column is known.
FullReadTaken == (nread = Size) ~> (pc = "done" /\ name_offset_ = "column")
=============================================================================
