------------------------------ MODULE FileReader ------------------------------
(***************************************************************************)
(* FileReader::NextLine over BaseReader::NextImpl (file_reader.h:133-247,  *)
(* :428-517).  The bytes between buf_pos_ and buf_end_ are the part of the *)
(* file that was read and not yet handed out; a line is a view into the    *)
(* buffer.  read() returns fewer bytes than asked, -EINTR or an error      *)
(* whenever it likes.                                                      *)
(***************************************************************************)
EXTENDS Naturals, Sequences

CONSTANTS Bytes,
          Delim,        \* kDelimiter
          Size,         \* kBufferSize
          Files         \* the contents a file may have

ASSUME ReaderAssumption ==
  /\ Delim \in Seq(Bytes) /\ Len(Delim) >= 1
  /\ Size \in Nat /\ Size >= Len(Delim)
  /\ Files \subseteq Seq(Bytes)

VARIABLES file, offset,       \* the file and the position of its descriptor
          buffer, buf_pos_, buf_end_, eof_,
          pc,
          view,               \* the string_view last returned
          consumed,           \* history: bytes of the file handed out
          line,               \* history: where the view's bytes lie in the file
          failed              \* history: a read ended in an error

bufVars == <<buffer, buf_pos_, buf_end_>>
lineVars == <<view, line, consumed>>
vars == <<file, offset, bufVars, eof_, pc, lineVars, failed>>

Spans == [at : Nat, len : Nat]

TypeOK ==
  /\ file \in Seq(Bytes) /\ offset \in 0..Len(file)
  /\ buffer \in [1..Size -> Bytes \cup {0}]
  /\ buf_pos_ \in 0..Size /\ buf_end_ \in buf_pos_..Size
  /\ eof_ \in BOOLEAN /\ failed \in BOOLEAN
  /\ pc \in {"idle", "scan", "full", "read"}
  /\ view \in Spans /\ line \in Spans
  /\ consumed \in 0..Len(file)

Init ==
  /\ file \in Files /\ offset = 0
  /\ buffer = [i \in 1..Size |-> 0] /\ buf_pos_ = 0 /\ buf_end_ = 0
  /\ eof_ = FALSE /\ pc = "idle" /\ failed = FALSE
  /\ view = [at |-> 0, len |-> 0] /\ line = view /\ consumed = 0

\* The loop asks for the next line; from here on the view it had is void.
NextLine ==
  /\ pc = "idle" /\ ~eof_
  /\ pc' = "scan"
  /\ UNCHANGED <<file, offset, bufVars, eof_, lineVars, failed>>

\* The delimiter stands in the buffer n bytes after buf_pos_.
FoundAt(n) == /\ buf_pos_ + n + Len(Delim) <= buf_end_
              /\ \A j \in 1..Len(Delim) : buffer[buf_pos_ + n + j] = Delim[j]

\* Fault: memrchr, the last delimiter of the buffer.
LastFound(n) == FoundAt(n) /\ \A k \in (n + 1)..Size : ~FoundAt(k)

FirstFound(n) == FoundAt(n) /\ \A k \in 0..n : FoundAt(k) => k = n

\* Fault: the delimiter stays in the buffer when it is longer than a byte.
HitOne(n) ==
  /\ pc = "scan" /\ FirstFound(n)
  /\ pc' = "idle"
  /\ view' = [at |-> buf_pos_, len |-> n]
  /\ line' = [at |-> consumed, len |-> n]
  /\ consumed' = consumed + n + Len(Delim)
  /\ buf_pos_' = buf_pos_ + n + 1
  /\ UNCHANGED <<file, offset, buffer, buf_end_, eof_, failed>>

\* A line: the view leaves the delimiter out, the position skips it.
Hit(n) ==
  /\ pc = "scan" /\ FirstFound(n)
  /\ pc' = "idle"
  /\ view' = [at |-> buf_pos_, len |-> n]
  /\ line' = [at |-> consumed, len |-> n]
  /\ consumed' = consumed + n + Len(Delim)
  /\ LET pos == buf_pos_ + n + Len(Delim) IN
       IF pos = buf_end_ THEN buf_pos_' = 0 /\ buf_end_' = 0
                         ELSE buf_pos_' = pos /\ buf_end_' = buf_end_
  /\ UNCHANGED <<file, offset, buffer, eof_, failed>>

\* Reduce: what is left moves to the front of the buffer.
Moved == [i \in 1..Size |-> IF i <= buf_end_ - buf_pos_ THEN buffer[buf_pos_ + i] ELSE buffer[i]]

\* Fault: the buffer is emptied, not compacted.
MissDrop ==
  /\ pc = "scan" /\ \A n \in 0..Size : ~FoundAt(n)
  /\ buf_pos_' = 0 /\ buf_end_' = 0 /\ pc' = "read"
  /\ UNCHANGED <<file, offset, buffer, eof_, lineVars, failed>>

\* No delimiter: room is made, if there is none the buffer is one long line.
Miss ==
  /\ pc = "scan" /\ \A n \in 0..Size : ~FoundAt(n)
  /\ buffer' = IF buf_pos_ > 0 /\ buf_pos_ < buf_end_ THEN Moved ELSE buffer
  /\ buf_pos_' = 0 /\ buf_end_' = buf_end_ - buf_pos_
  /\ pc' = IF buf_end_' = Size THEN "full" ELSE "read"
  /\ UNCHANGED <<file, offset, eof_, lineVars, failed>>

\* OnBufferFull: the whole buffer goes out as it is.
BufferFull ==
  /\ pc = "full"
  /\ pc' = "idle"
  /\ view' = [at |-> 0, len |-> buf_end_]
  /\ line' = [at |-> consumed, len |-> buf_end_]
  /\ consumed' = consumed + buf_end_
  /\ buf_end_' = 0
  /\ UNCHANGED <<file, offset, buffer, buf_pos_, eof_, failed>>

\* Fault: the bytes go to the front of the buffer.
ReadFront(n) ==
  /\ pc = "read" /\ n <= Size - buf_end_ /\ offset + n <= Len(file)
  /\ buffer' = [i \in 1..Size |-> IF i <= n THEN file[offset + i] ELSE buffer[i]]
  /\ offset' = offset + n /\ buf_end_' = buf_end_ + n
  /\ pc' = "scan"
  /\ UNCHANGED <<file, buf_pos_, eof_, lineVars, failed>>

\* read() brings n bytes, as many as fit or fewer.
Read(n) ==
  /\ pc = "read" /\ n <= Size - buf_end_ /\ offset + n <= Len(file)
  /\ buffer' = [i \in 1..Size |-> IF i \in (buf_end_ + 1)..(buf_end_ + n)
                                  THEN file[offset + i - buf_end_] ELSE buffer[i]]
  /\ offset' = offset + n /\ buf_end_' = buf_end_ + n
  /\ pc' = "scan"
  /\ UNCHANGED <<file, buf_pos_, eof_, lineVars, failed>>

\* Fault: -EINTR counts as the end of the file.
EINTREnds ==
  /\ pc = "read"
  /\ eof_' = TRUE /\ UNCHANGED failed
  /\ pc' = "idle"
  /\ view' = [at |-> 0, len |-> buf_end_]
  /\ line' = [at |-> consumed, len |-> buf_end_]
  /\ consumed' = consumed + buf_end_
  /\ UNCHANGED <<file, offset, bufVars>>

\* -EINTR: the read is made again.
Interrupted == pc = "read" /\ UNCHANGED vars

\* The end of the file or an error, OnEOF: what the buffer holds is the last
\* line, if it holds anything.
ReadEnd ==
  /\ pc = "read"
  /\ \/ offset = Len(file) /\ UNCHANGED failed
     \/ failed' = TRUE
  /\ eof_' = TRUE
  /\ pc' = "idle"
  /\ view' = [at |-> 0, len |-> buf_end_]
  /\ line' = [at |-> consumed, len |-> buf_end_]
  /\ consumed' = consumed + buf_end_
  /\ UNCHANGED <<file, offset, bufVars>>

Step == \/ NextLine \/ Miss \/ BufferFull \/ ReadEnd
        \/ \E n \in 0..Size : Hit(n)
        \/ \E n \in 1..Size : Read(n)

Next == Step \/ Interrupted

Spec == Init /\ [][Next]_vars

\* The loop goes on to the end, and read() is not interrupted for ever.
FairSpec == Spec /\ WF_vars(Step)

-----------------------------------------------------------------------------
\* The buffer holds exactly the bytes that were read and not handed out
\* (file_reader.h:177-182, :188-226): none is lost or comes twice, over short
\* reads, moves of the buffer and long lines.
Window ==
  ~eof_ => /\ offset = consumed + (buf_end_ - buf_pos_)
           /\ \A i \in 1..(buf_end_ - buf_pos_) : buffer[buf_pos_ + i] = file[consumed + i]

\* While the loop looks at a line, the view shows the bytes of the file that
\* the line is (file_reader.h:424-426 allows it to change only after that).
ViewIsLine ==
  pc = "idle" => /\ view.len = line.len
                 /\ \A i \in 1..view.len : buffer[view.at + i] = file[line.at + i]

\* The loop ends; unless a read failed, after the last byte of the file
\* (file_reader.h:213-222).
AllRead == <>[](eof_ /\ pc = "idle" /\ (consumed = Len(file) \/ failed))

\* The promise of LineStream: cut at delimiters, in order, each byte once.
Lines == INSTANCE LineStream WITH at <- consumed, over <- eof_,
           line <- line
KeepsLines == Lines!Spec

-----------------------------------------------------------------------------
\* The inductive invariant behind them: a read is made only into a buffer
\* that begins at its front and holds no delimiter.
PcInv ==
  /\ pc # "idle" => ~eof_
  /\ pc \in {"full", "read"} => buf_pos_ = 0 /\ Lines!Uncut(consumed, buf_end_)
  /\ pc = "full" => buf_end_ = Size

ReaderInv == TypeOK /\ PcInv /\ Window /\ ViewIsLine
=============================================================================
