------------------------------ MODULE LineStream ------------------------------
(***************************************************************************)
(* What a FileReader promises the loop that iterates over it: the file,    *)
(* cut at its delimiters and at nothing else but a line longer than the    *)
(* buffer, in order, every byte once; a read error ends it early.  A line  *)
(* is named by where it lies in the file.                                  *)
(***************************************************************************)
EXTENDS Naturals, Sequences

CONSTANTS Delim,      \* the delimiter, a sequence of bytes
          Size        \* the longest piece that is handed out

VARIABLES file, at,   \* the file and how much of it has been handed out
          line,       \* the last piece: its offset and length
          over

streamVars == <<file, at, line, over>>

\* The delimiter stands in the file right after offset p.
DelimAt(p) == /\ p + Len(Delim) <= Len(file)
              /\ \A j \in 1..Len(Delim) : file[p + j] = Delim[j]

\* No delimiter lies in the n bytes after p.
Uncut(p, n) == \A k \in 0..n : k + Len(Delim) <= n => ~DelimAt(p + k)

Init == at = 0 /\ line = [at |-> 0, len |-> 0] /\ over = FALSE

\* A line and its delimiter.
Line(n) == /\ DelimAt(at + n) /\ Uncut(at, n + Len(Delim) - 1)
           /\ n + Len(Delim) <= Size
           /\ at' = at + n + Len(Delim)
           /\ UNCHANGED over

\* A full buffer without a delimiter.
Piece(n) == /\ n = Size /\ at + n <= Len(file) /\ Uncut(at, n)
            /\ at' = at + n
            /\ UNCHANGED over

\* What is left, or what had been read when an error came.
Rest(n) == /\ at + n <= Len(file) /\ n <= Size /\ Uncut(at, n)
           /\ at' = at + n
           /\ over' = TRUE

Next == /\ ~over
        /\ \E n \in 0..Size : /\ line' = [at |-> at, len |-> n]
                              /\ Line(n) \/ Piece(n) \/ Rest(n)
        /\ UNCHANGED file

Spec == Init /\ [][Next]_streamVars
=============================================================================
